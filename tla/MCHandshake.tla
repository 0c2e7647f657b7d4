---------------------------- MODULE MCHandshake ----------------------------
(* Clients of a listener with one Crypto for all or, for comparison, one   *)
(* for each of them.                                                       *)
EXTENDS Handshake, TLC

CONSTANTS a, b, x, y

OneForAll  == [n \in Conns |-> x]
OneForEach == [n \in Conns |-> IF n = a THEN x ELSE y]

Settings(conns, use, need, crypto, apps, most, timeouts, closes, calm) ==
    [conns : {conns}, useCipher : use, hubNeedLogin : need, cliNeedLogin : need,
     cryptoOf : {crypto}, apps : {apps}, maxCopies : {most}, mayTimeout : {timeouts},
     mayClose : {closes}, calm : {calm}]

(* With a cipher under every timing: early messages, copies of responses,  *)
(* an application that publishes at any time, a hub that gives up.         *)
AnyTiming == Settings({a}, {TRUE}, BOOLEAN, OneForAll, {a}, 2, {a}, {}, FALSE)

(* Closed and disposed at any step, with a cipher and without *)
Closing == Settings({a}, BOOLEAN, BOOLEAN, OneForAll, {a}, 1, {a}, {a}, FALSE)

(* Without a cipher under every timing *)
Plain == Settings({a, b}, {FALSE}, {TRUE}, OneForAll, {a}, 1, {}, {}, FALSE)

Calm == Settings({a, b}, {TRUE}, {TRUE}, OneForEach, {}, 1, {}, {}, TRUE)

AllOptions == AnyTiming \cup Closing \cup Plain \cup Calm
=============================================================================
