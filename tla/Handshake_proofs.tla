-------------------------- MODULE Handshake_proofs --------------------------
(***************************************************************************)
(* What a login promises, for any number of connections, Crypto objects    *)
(* and options: under every timing, with or without a cipher, closed and   *)
(* disposed at any step.                                                   *)
(***************************************************************************)
EXTENDS Handshake, Integers, TLAPS

In(q) == {q[k] : k \in 1..Len(q)}

(* The states in which an end with a cipher encodes and decodes *)
Coded == {"EXCHANGED_SECRET", "LOGINED"}

(* Who encodes has a key, and the handler of the exchange sets the hub's *)
Keyed ==
    \A n \in Conns :
        /\ opts.useCipher /\ (state[Cli(n)] \in Coded \/ login[n] \in {"exchanged", "login", "done"})
             => cipher[Cli(n)].key \in Conns
        /\ "exchange" \in served[n] => cipher[opts.cryptoOf[n]].key \in Conns

(* A response, on its way or taken, is one to a request that was served *)
Carried(n, w) ==
    \/ \E m \in In(wire[Cli(n)]) : m.kind = <<"resp", w>>
    \/ <<"resp", w>> \in In(rx[Cli(n)])
    \/ \E g \in Routines : out[Hub(n)][g] # Nil /\ out[Hub(n)][g].kind = <<"resp", w>>

ResponsesAreServed ==
    \A n \in Conns, w \in What :
        Carried(n, w) \/ w \in results[n] \/ job[n][w] \in {"reply", "wait", "end"} => w \in served[n]

(* How far Login of a client and its state can be *)
ClientIsServed ==
    \A n \in Conns :
        /\ opts.useCipher /\ (state[Cli(n)] \in Coded \/ login[n] \in {"exchanged", "login", "done"})
             => "exchange" \in served[n]
        /\ state[Cli(n)] = "LOGINED" /\ opts.cliNeedLogin => "login" \in served[n]

(* The client's login request is on its way, or has come *)
Asked(n) ==
    \/ \E g \in Routines : out[Cli(n)][g] # Nil /\ out[Cli(n)][g].kind = <<"req", "login">>
    \/ \E m \in In(wire[Hub(n)]) : m.kind = <<"req", "login">>
    \/ <<"req", "login">> \in In(rx[Hub(n)])

(* What has to be over before the hub's state lets a packet through, from  *)
(* a reader that goes on                                                   *)
ExchangeServed(n) == opts.useCipher => "exchange" \in served[n]
ExchangeOver(n)   == opts.useCipher => Over(n, "exchange")
LoginOver(n)      == opts.hubNeedLogin => Over(n, "login")
ReaderOver(n)     == conn[Hub(n)] = "over"

HubLetsThrough ==
    \A n \in Conns :
        /\ state[Hub(n)] = "DISCONNECT" => conn[Hub(n)] # "open"
        /\ state[Hub(n)] \in Coded => ExchangeServed(n) /\ (ExchangeOver(n) \/ ReaderOver(n))
        /\ state[Hub(n)] = "LOGINED" => LoginOver(n)
        /\ Asked(n) \/ job[n]["login"] # "none" => ExchangeServed(n)
        /\ <<"req", "login">> \in In(rx[Hub(n)]) \/ job[n]["login"] # "none" => ExchangeOver(n) \/ ReaderOver(n)
        /\ passed[n] \in {"no", "LOGINED", "DISCONNECT"}
        /\ passed[n] = "LOGINED" => ExchangeOver(n) /\ LoginOver(n)

LoginInv == TypeOK /\ Keyed /\ ResponsesAreServed /\ ClientIsServed /\ HubLetsThrough

-----------------------------------------------------------------------------
LEMMA EndsAre ==
    /\ \A n \in Conns : Cli(n) \in Ends /\ Hub(n) \in Ends /\ Peer(Cli(n)) = Hub(n) /\ Peer(Hub(n)) = Cli(n)
    /\ \A m, n \in Conns : Cli(m) # Hub(n)
    /\ \A m, n \in Conns : Cli(m) = Cli(n) => m = n
    /\ \A m, n \in Conns : Hub(m) = Hub(n) => m = n
    /\ \A e \in Ends : e[2] \in Conns /\ (e = Cli(e[2]) \/ e = Hub(e[2])) /\ Peer(e) \in Ends
BY DEF Ends, Cli, Hub, Peer

LEMMA OptionsType ==
    ASSUME TypeOK
    PROVE  /\ opts.conns \subseteq Conns /\ opts.cryptoOf \in [Conns -> Ciphers]
           /\ opts.apps \subseteq Conns /\ opts.maxCopies \in Nat
           /\ opts.useCipher \in BOOLEAN
BY HandshakeAssumption DEF TypeOK, Setup

LEMMA CiphersAre ==
    ASSUME TypeOK, NEW n \in Conns
    PROVE  /\ CipherOf(Cli(n)) = Cli(n) /\ CipherOf(Hub(n)) = opts.cryptoOf[n]
           /\ Cli(n) \in AllCiphers /\ opts.cryptoOf[n] \in AllCiphers
BY OptionsType DEF CipherOf, Cli, Hub, AllCiphers

LEMMA InSeq ==
    /\ In(<<>>) = {}
    /\ \A S : \A q \in Seq(S) : In(q) \subseteq S
    /\ \A S : \A q \in Seq(S) : \A m \in S : In(Append(q, m)) = In(q) \cup {m}
    /\ \A S : \A q \in Seq(S) : q # <<>> => In(Tail(q)) \subseteq In(q) /\ Head(q) \in In(q)
<1>1. In(<<>>) = {}
  BY DEF In
<1>2. ASSUME NEW S, NEW q \in Seq(S) PROVE In(q) \subseteq S
  BY DEF In
<1>3. ASSUME NEW S, NEW q \in Seq(S), NEW m \in S PROVE In(Append(q, m)) = In(q) \cup {m}
  <2>1. Len(Append(q, m)) = Len(q) + 1 /\ Len(q) \in Nat
    OBVIOUS
  <2>2. \A k \in 1..Len(q) : Append(q, m)[k] = q[k]
    OBVIOUS
  <2>3. Append(q, m)[Len(q) + 1] = m
    OBVIOUS
  <2>4. \A x \in In(Append(q, m)) : x \in In(q) \cup {m}
    BY <2>1, <2>2, <2>3 DEF In
  <2>5. \A x \in In(q) : x \in In(Append(q, m))
    BY <2>1, <2>2 DEF In
  <2>6. m \in In(Append(q, m))
    BY <2>1, <2>3 DEF In
  <2> QED
    BY <2>4, <2>5, <2>6
<1>4. ASSUME NEW S, NEW q \in Seq(S), q # <<>>
      PROVE  In(Tail(q)) \subseteq In(q) /\ Head(q) \in In(q)
  <2>1. Len(q) \in Nat \ {0} /\ Head(q) = q[1]
    BY <1>4
  <2>2. \A k \in 1..Len(Tail(q)) : k + 1 \in 1..Len(q) /\ Tail(q)[k] = q[k + 1]
    BY <1>4
  <2> QED
    BY <2>1, <2>2 DEF In
<1> QED
  BY <1>1, <1>2, <1>3, <1>4

LEMMA KeyWhenCoding ==
    ASSUME LoginInv, NEW e \in Ends, Codes(e)
    PROVE  cipher[CipherOf(e)].key \in Conns
<1> PICK n \in Conns : e = Cli(n) \/ e = Hub(n)
  BY EndsAre
<1>1. CASE e = Cli(n)
  BY <1>1, CiphersAre DEF LoginInv, Keyed, Codes, Coded
<1>2. CASE e = Hub(n)
  BY <1>2, CiphersAre DEF LoginInv, Keyed, Codes, Coded, HubLetsThrough, ExchangeServed
<1> QED
  BY <1>1, <1>2

LEMMA CipherIn ==
    ASSUME TypeOK, NEW e \in Ends
    PROVE  CipherOf(e) \in AllCiphers
BY EndsAre, CiphersAre

(* A position of a Crypto moves by one *)
LEMMA EncMoves ==
    ASSUME TypeOK, NEW x \in AllCiphers, NEW kind \in Kinds,
           cipher' = [cipher EXCEPT ![x].enc[kind] = cipher[x].enc[kind] + 1]
    PROVE  /\ cipher' \in [AllCiphers -> [key : Conns \cup {Nil}, enc : Positions, dec : Positions]]
           /\ \A y \in AllCiphers : cipher'[y].key = cipher[y].key
<1> DEFINE C == [key : Conns \cup {Nil}, enc : Positions, dec : Positions]
           p == [cipher[x].enc EXCEPT ![kind] = cipher[x].enc[kind] + 1]
           c == [cipher[x] EXCEPT !.enc = p]
<1>1. cipher \in [AllCiphers -> C] /\ cipher[x] \in C /\ cipher[x].enc \in Positions
  BY DEF TypeOK
<1>2. p \in Positions
  BY <1>1 DEF Positions
<1>3. c \in C /\ c.key = cipher[x].key
  <2> HIDE DEF p
  <2> QED BY <1>1, <1>2
<1>4. cipher' = [cipher EXCEPT ![x] = c]
  BY <1>1
<1> HIDE DEF c, C
<1>5. cipher' \in [AllCiphers -> C] /\ \A y \in AllCiphers : cipher'[y] = IF y = x THEN c ELSE cipher[y]
  BY <1>1, <1>3, <1>4
<1> QED
  BY <1>3, <1>5 DEF C

LEMMA DecMoves ==
    ASSUME TypeOK, NEW x \in AllCiphers, NEW kind \in Kinds,
           cipher' = [cipher EXCEPT ![x].dec[kind] = cipher[x].dec[kind] + 1]
    PROVE  /\ cipher' \in [AllCiphers -> [key : Conns \cup {Nil}, enc : Positions, dec : Positions]]
           /\ \A y \in AllCiphers : cipher'[y].key = cipher[y].key
<1> DEFINE C == [key : Conns \cup {Nil}, enc : Positions, dec : Positions]
           p == [cipher[x].dec EXCEPT ![kind] = cipher[x].dec[kind] + 1]
           c == [cipher[x] EXCEPT !.dec = p]
<1>1. cipher \in [AllCiphers -> C] /\ cipher[x] \in C /\ cipher[x].dec \in Positions
  BY DEF TypeOK
<1>2. p \in Positions
  BY <1>1 DEF Positions
<1>3. c \in C /\ c.key = cipher[x].key
  <2> HIDE DEF p
  <2> QED BY <1>1, <1>2
<1>4. cipher' = [cipher EXCEPT ![x] = c]
  BY <1>1
<1> HIDE DEF c, C
<1>5. cipher' \in [AllCiphers -> C] /\ \A y \in AllCiphers : cipher'[y] = IF y = x THEN c ELSE cipher[y]
  BY <1>1, <1>3, <1>4
<1> QED
  BY <1>3, <1>5 DEF C

LEMMA EncodedType ==
    ASSUME LoginInv, NEW e \in Ends, NEW pads \in Pads
    PROVE  Encoded(e, pads) \in Pads
<1>1. CASE ~Codes(e)
  BY <1>1 DEF Encoded
<1>2. CASE Codes(e)
  <2>1. cipher[CipherOf(e)].key \in Conns /\ cipher[CipherOf(e)].enc \in Positions
    BY <1>2, KeyWhenCoding, CipherIn DEF LoginInv, TypeOK
  <2>2. Toggle(pads, <<cipher[CipherOf(e)].key, cipher[CipherOf(e)].enc>>) \in Pads
    BY <2>1 DEF Toggle, Pads
  <2> QED
    BY <1>2, <2>2 DEF Encoded
<1> QED
  BY <1>1, <1>2

(* SendMessage leaves one encoded message in the hands of its goroutine,   *)
(* and no key changes.                                                     *)
LEMMA Sends ==
    ASSUME LoginInv, NEW e \in Ends, NEW g \in Routines, NEW kind \in Kinds, NEW pads \in Pads,
           Send(e, g, kind, pads)
    PROVE  /\ out' \in [Ends -> [Routines -> Messages \cup {Nil}]]
           /\ \A d \in Ends, h \in Routines :
                IF d = e /\ h = g THEN out'[d][h].kind = kind ELSE out'[d][h] = out[d][h]
           /\ cipher' \in [AllCiphers -> [key : Conns \cup {Nil}, enc : Positions, dec : Positions]]
           /\ \A y \in AllCiphers : cipher'[y].key = cipher[y].key
<1>0. TypeOK
  BY DEF LoginInv
<1>1. PICK m \in Messages : m.kind = kind /\ out' = [out EXCEPT ![e][g] = m]
  <2>1. Encoded(e, pads) \in Pads
    BY EncodedType
  <2>2. [kind |-> kind, pads |-> Encoded(e, pads)] \in Messages
    BY <2>1 DEF Messages
  <2> QED
    BY <2>2 DEF Send
<1>2. out \in [Ends -> [Routines -> Messages \cup {Nil}]]
  BY <1>0 DEF TypeOK
<1>3. out' \in [Ends -> [Routines -> Messages \cup {Nil}]]
  BY <1>1, <1>2
<1>4. \A d \in Ends, h \in Routines : out'[d][h] = IF d = e /\ h = g THEN m ELSE out[d][h]
  BY <1>1, <1>2
<1>5. CASE cipher' = cipher
  BY <1>0, <1>1, <1>3, <1>4, <1>5 DEF TypeOK
<1>6. CASE cipher' = [cipher EXCEPT ![CipherOf(e)].enc[kind] = cipher[CipherOf(e)].enc[kind] + 1]
  BY <1>0, <1>1, <1>3, <1>4, <1>6, EncMoves, CipherIn
<1> QED
  BY <1>5, <1>6 DEF Send
-----------------------------------------------------------------------------
LEMMA InitLogin == Init => LoginInv
<1> SUFFICES ASSUME Init PROVE LoginInv
  OBVIOUS
<1>0. opts \in Setup
  BY HandshakeAssumption DEF Init
<1>1. TypeOK
  <2>1. Start \in Positions
    BY DEF Start, Positions
  <2>2. cipher \in [AllCiphers -> [key : Conns \cup {Nil}, enc : Positions, dec : Positions]]
    BY <2>1 DEF Init
  <2>3. state \in [Ends -> States]
    BY DEF Init, Connected, Exchanged, States
  <2>4. /\ conn \in [Ends -> {"open", "closed", "over"}] /\ cancelled \subseteq Conns
        /\ passed \in [Conns -> {"no"} \cup States]
        /\ wire \in [Ends -> Seq(Messages)] /\ rx \in [Ends -> Seq(Kinds)]
        /\ out \in [Ends -> [Routines -> Messages \cup {Nil}]]
        /\ hasAcked \in [Ends -> BOOLEAN]
    BY DEF Init
  <2>5. {} \in Pads
    BY DEF Pads
  <2>6. /\ login \in [Conns -> {"start", "exchange", "exchanged", "login", "done"}]
        /\ results \in [Conns -> SUBSET What]
        /\ job \in [Conns -> [What -> {"none", "run", "reply", "wait", "end"}]]
        /\ buffer \in [Conns -> [What -> Pads]]
        /\ acked \in [Conns -> SUBSET What]
        /\ served \in [Conns -> SUBSET What]
    BY <2>5 DEF Init
  <2>7. copies \in [Conns -> [What -> 0..opts.maxCopies]]
    BY <1>0 DEF Init, Setup
  <2> QED
    BY <2>2, <2>3, <2>4, <2>6, <2>7 DEF Init, TypeOK
<1>2. ASSUME NEW n \in Conns
      PROVE  /\ opts.useCipher => state[Cli(n)] = "CONNECTED" /\ state[Hub(n)] = "CONNECTED"
             /\ state[Hub(n)] # "DISCONNECT"
             /\ state[Cli(n)] = "LOGINED" => ~opts.cliNeedLogin
             /\ state[Hub(n)] = "LOGINED" => ~opts.hubNeedLogin
  <2>1. state[Cli(n)] = Connected(Cli(n)) /\ state[Hub(n)] = Connected(Hub(n))
    BY EndsAre DEF Init
  <2> QED
    BY <1>0, <2>1 DEF Connected, Exchanged, NeedLogin, Cli, Hub, Setup
<1>3. ASSUME NEW n \in Conns
      PROVE  /\ login[n] = "start" /\ served[n] = {} /\ results[n] = {} /\ passed[n] = "no"
             /\ \A w \in What : job[n][w] = "none" /\ ~Carried(n, w)
             /\ In(rx[Hub(n)]) = {} /\ ~Asked(n)
  <2>1. /\ wire[Cli(n)] = <<>> /\ wire[Hub(n)] = <<>> /\ rx[Cli(n)] = <<>> /\ rx[Hub(n)] = <<>>
        /\ \A g \in Routines : out[Hub(n)][g] = Nil /\ out[Cli(n)][g] = Nil
    BY EndsAre DEF Init
  <2>2. \A w \in What : ~Carried(n, w)
    BY <2>1, InSeq DEF Carried
  <2>3. ~Asked(n)
    BY <2>1, InSeq DEF Asked
  <2> QED
    BY <2>1, <2>2, <2>3, InSeq DEF Init
<1>4. Keyed
  BY <1>2, <1>3 DEF Keyed, Coded
<1>5. ResponsesAreServed
  BY <1>3 DEF ResponsesAreServed
<1>6. ClientIsServed
  BY <1>2, <1>3 DEF ClientIsServed, Coded
<1>7. HubLetsThrough
  BY <1>2, <1>3 DEF HubLetsThrough, ExchangeServed, ExchangeOver, LoginOver, What, Coded
<1> QED
  BY <1>1, <1>4, <1>5, <1>6, <1>7 DEF LoginInv

-----------------------------------------------------------------------------
(* Types *)
LEMMA KindsAre ==
    ASSUME NEW w \in What
    PROVE  /\ <<"req", w>> \in Kinds /\ <<"ack", w>> \in Kinds /\ <<"resp", w>> \in Kinds
           /\ <<"pub", "app">> \in Kinds
BY DEF Kinds

LEMMA RoutinesAre ==
    /\ {"loop", "caller", "app"} \subseteq Routines /\ What \subseteq Routines
    /\ {"exchange", "login"} = What /\ {} \in Pads
BY DEF Routines, What, Pads

LEMMA ReadTyped ==
    ASSUME LoginInv, NEW e \in Ends, Read(e)
    PROVE  TypeOK'
<1>0. TypeOK
  BY DEF LoginInv
<1>1. wire[e] \in Seq(Messages) /\ wire[e] # <<>>
  BY <1>0 DEF Read, TypeOK
<1>2. PICK m \in Messages : m = Head(wire[e])
  BY <1>1
<1>3. m.kind \in Kinds
  BY DEF Messages
<1>4. wire' \in [Ends -> Seq(Messages)]
  <2>1. wire' = [wire EXCEPT ![e] = Tail(wire[e])] /\ Tail(wire[e]) \in Seq(Messages)
    BY <1>1 DEF Read
  <2> QED BY <1>0, <2>1 DEF TypeOK
<1>5. rx' \in [Ends -> Seq(Kinds)]
  <2>1. rx' = rx \/ rx' = [rx EXCEPT ![e] = Append(rx[e], m.kind)]
    BY <1>2 DEF Read
  <2>2. Append(rx[e], m.kind) \in Seq(Kinds)
    BY <1>0, <1>3 DEF TypeOK
  <2> QED BY <1>0, <2>1, <2>2 DEF TypeOK
<1>6. cipher' \in [AllCiphers -> [key : Conns \cup {Nil}, enc : Positions, dec : Positions]]
  <2>1. \/ cipher' = cipher
        \/ cipher' = [cipher EXCEPT ![CipherOf(e)].dec[m.kind] = cipher[CipherOf(e)].dec[m.kind] + 1]
    BY <1>2 DEF Read
  <2> QED BY <1>0, <1>3, <2>1, DecMoves, CipherIn DEF TypeOK
<1>7. passed' \in [Conns -> {"no"} \cup States]
  <2>1. passed' = passed \/ passed' = [passed EXCEPT ![e[2]] = state[e]]
    BY DEF Read
  <2> QED BY <1>0, <2>1 DEF TypeOK
<1>9. conn' \in [Ends -> {"open", "closed", "over"}]
  BY <1>0 DEF Read, TypeOK
<1>8. UNCHANGED <<state, out, hasAcked, cliVars, hubVars>>
  BY DEF Read
<1> QED
  BY <1>0, <1>4, <1>5, <1>6, <1>7, <1>8, <1>9 DEF TypeOK, cliVars, hubVars

LEMMA QueueTyped ==
    ASSUME LoginInv, NEW e \in Ends, NEW g \in Routines, Queue(e, g)
    PROVE  TypeOK'
<1>0. TypeOK
  BY DEF LoginInv
<1>1. out[e][g] \in Messages /\ Peer(e) \in Ends
  BY <1>0, EndsAre DEF Queue, TypeOK
<1>2. wire' \in [Ends -> Seq(Messages)]
  <2>1. wire' = wire \/ wire' = [wire EXCEPT ![Peer(e)] = Append(wire[Peer(e)], out[e][g])]
    BY DEF Queue
  <2>2. Append(wire[Peer(e)], out[e][g]) \in Seq(Messages)
    BY <1>0, <1>1 DEF TypeOK
  <2> QED BY <1>0, <2>1, <2>2 DEF TypeOK
<1>3. out' \in [Ends -> [Routines -> Messages \cup {Nil}]]
  BY <1>0 DEF Queue, TypeOK
<1>4. UNCHANGED <<state, cipher, rx, conn, hasAcked, cliVars, hubVars, passed>>
  BY DEF Queue
<1> QED
  BY <1>0, <1>2, <1>3, <1>4 DEF TypeOK, cliVars, hubVars

LEMMA LoopTyped ==
    ASSUME TypeOK, NEW e \in Ends, NEW kind \in Kinds, Loop(e, kind)
    PROVE  /\ rx' \in [Ends -> Seq(Kinds)] /\ hasAcked' \in [Ends -> BOOLEAN]
           /\ kind \in In(rx[e])
           /\ \A d \in Ends : In(rx'[d]) \subseteq In(rx[d])
<1>1. rx[e] \in Seq(Kinds) /\ rx[e] # <<>> /\ Head(rx[e]) = kind
  BY DEF Loop, TypeOK
<1>2. Tail(rx[e]) \in Seq(Kinds) /\ In(Tail(rx[e])) \subseteq In(rx[e]) /\ kind \in In(rx[e])
  BY <1>1, InSeq
<1>3. rx' = [rx EXCEPT ![e] = Tail(rx[e])]
  BY DEF Loop
<1>4. rx' \in [Ends -> Seq(Kinds)] /\ \A d \in Ends : rx'[d] = IF d = e THEN Tail(rx[e]) ELSE rx[d]
  BY <1>2, <1>3 DEF TypeOK
<1>5. hasAcked' \in [Ends -> BOOLEAN]
  BY DEF Loop, TypeOK
<1> QED
  BY <1>2, <1>4, <1>5

LEMMA HandleTyped ==
    ASSUME LoginInv, NEW n \in Conns, Handle(n)
    PROVE  TypeOK'
<1>0. TypeOK /\ Cli(n) \in Ends /\ Hub(n) \in Ends
  BY EndsAre DEF LoginInv
<1>1. ASSUME NEW e \in Ends, SendAck(e) PROVE TypeOK'
  <2>1. rx[e] \in Seq(Kinds) /\ rx[e] # <<>>
    BY <1>0, <1>1 DEF SendAck, TypeOK
  <2>2. PICK kind \in Kinds : kind = Head(rx[e])
    BY <2>1
  <2>3. kind[2] \in What
    BY <1>1, <2>2 DEF SendAck, Acks, Kinds
  <2>4. Send(e, "loop", <<"ack", kind[2]>>, {})
    BY <1>1, <2>2 DEF SendAck
  <2>5. /\ out' \in [Ends -> [Routines -> Messages \cup {Nil}]]
        /\ cipher' \in [AllCiphers -> [key : Conns \cup {Nil}, enc : Positions, dec : Positions]]
    BY <2>3, <2>4, Sends, KindsAre, RoutinesAre
  <2>6. hasAcked' \in [Ends -> BOOLEAN]
    BY <1>0, <1>1 DEF SendAck, TypeOK
  <2>7. UNCHANGED <<state, wire, rx, conn, cliVars, hubVars, passed>>
    BY <1>1 DEF SendAck
  <2> QED
    BY <1>0, <2>5, <2>6, <2>7 DEF TypeOK, cliVars, hubVars
<1>2. ASSUME NEW e \in Ends, NEW kind \in Kinds, Loop(e, kind),
             results' \in [Conns -> SUBSET What],
             job' \in [Conns -> [What -> {"none", "run", "reply", "wait", "end"}]],
             acked' \in [Conns -> SUBSET What]
      PROVE  TypeOK'
  <2>1. UNCHANGED <<state, cipher, wire, conn, out, login, told, opts, buffer, copies, cancelled, served, passed>>
    BY <1>2 DEF Loop
  <2>2. rx' \in [Ends -> Seq(Kinds)] /\ hasAcked' \in [Ends -> BOOLEAN]
    BY <1>0, <1>2, LoopTyped
  <2> QED
    BY <1>0, <1>2, <2>1, <2>2 DEF TypeOK
<1>3. ASSUME NEW w \in What, OnReceiveRequest(n, w) PROVE TypeOK'
  <2>1. job' \in [Conns -> [What -> {"none", "run", "reply", "wait", "end"}]]
    BY <1>0, <1>3 DEF OnReceiveRequest, TypeOK
  <2> QED
    BY <1>0, <1>2, <1>3, <2>1, KindsAre DEF OnReceiveRequest, TypeOK
<1>4. ASSUME NEW w \in What, OnReceiveResponse(n, w) PROVE TypeOK'
  <2>1. results' \in [Conns -> SUBSET What]
    BY <1>0, <1>4 DEF OnReceiveResponse, TypeOK
  <2> QED
    BY <1>0, <1>2, <1>4, <2>1, KindsAre DEF OnReceiveResponse, TypeOK
<1>5. ASSUME NEW e \in Ends, NEW w \in What, OnReceiveAck(e, w) PROVE TypeOK'
  <2>1. acked' \in [Conns -> SUBSET What]
    BY <1>0, <1>5, EndsAre DEF OnReceiveAck, TypeOK
  <2> QED
    BY <1>0, <1>2, <1>5, <2>1, KindsAre DEF OnReceiveAck, TypeOK
<1>6. ASSUME OnReceivePublish(n) PROVE TypeOK'
  BY <1>0, <1>2, <1>6, KindsAre, RoutinesAre DEF OnReceivePublish, TypeOK
<1> QED
  BY <1>0, <1>1, <1>3, <1>4, <1>5, <1>6 DEF Handle

LEMMA SecretSets ==
    ASSUME TypeOK, NEW n \in Conns, NEW x \in AllCiphers, Secret(n, x)
    PROVE  /\ cipher' \in [AllCiphers -> [key : Conns \cup {Nil}, enc : Positions, dec : Positions]]
           /\ cipher'[x].key = n
           /\ \A y \in AllCiphers \ {x} : cipher'[y].key = cipher[y].key
<1>1. Start \in Positions
  BY DEF Start, Positions
<1>2. cipher' = [cipher EXCEPT ![x] = [key |-> n, enc |-> Start, dec |-> Start]]
  BY DEF Secret
<1>3. cipher'[x] = [key |-> n, enc |-> Start, dec |-> Start]
  BY <1>2 DEF TypeOK
<1>4. \A y \in AllCiphers \ {x} : cipher'[y] = cipher[y]
  BY <1>2 DEF TypeOK
<1> QED
  BY <1>1, <1>2, <1>3, <1>4 DEF TypeOK

LEMMA ClientTyped ==
    ASSUME LoginInv, NEW n \in Conns, Login(n) \/ AppPublish(n)
    PROVE  TypeOK'
<1>0. TypeOK /\ Cli(n) \in Ends /\ Cli(n) \in AllCiphers
  BY EndsAre, CiphersAre DEF LoginInv
<1>1. ASSUME NEW g \in Routines, NEW kind \in Kinds, Send(Cli(n), g, kind, {}),
             login' \in [Conns -> {"start", "exchange", "exchanged", "login", "done"}],
             told' \subseteq opts.apps,
             UNCHANGED <<state, wire, rx, conn, hasAcked, results, hubVars, passed>>
      PROVE  TypeOK'
  <2>1. /\ out' \in [Ends -> [Routines -> Messages \cup {Nil}]]
        /\ cipher' \in [AllCiphers -> [key : Conns \cup {Nil}, enc : Positions, dec : Positions]]
    BY <1>0, <1>1, Sends, RoutinesAre
  <2> QED
    BY <1>0, <1>1, <2>1 DEF TypeOK, hubVars
<1>2. CASE StartExchange(n)
  <2>1. login' \in [Conns -> {"start", "exchange", "exchanged", "login", "done"}]
    BY <1>0, <1>2 DEF StartExchange, TypeOK
  <2>2. told' \subseteq opts.apps
    BY <1>0, <1>2 DEF StartExchange, TypeOK
  <2> QED
    BY <1>1, <1>2, <2>1, <2>2, KindsAre, RoutinesAre DEF StartExchange
<1>3. CASE StartLogin(n)
  <2>1. login' \in [Conns -> {"start", "exchange", "exchanged", "login", "done"}]
    BY <1>0, <1>3 DEF StartLogin, TypeOK
  <2>2. told' \subseteq opts.apps
    BY <1>0, <1>3 DEF StartLogin, TypeOK
  <2> QED
    BY <1>1, <1>3, <2>1, <2>2, KindsAre, RoutinesAre DEF StartLogin
<1>4. CASE AppPublish(n)
  <2>1. told' \subseteq opts.apps
    BY <1>0, <1>4 DEF AppPublish, TypeOK
  <2>2. login' \in [Conns -> {"start", "exchange", "exchanged", "login", "done"}]
    BY <1>0, <1>4 DEF AppPublish, TypeOK
  <2> QED
    BY <1>1, <1>4, <2>1, <2>2, KindsAre, RoutinesAre DEF AppPublish
<1>5. CASE FinishExchange(n)
  <2>1. cipher' \in [AllCiphers -> [key : Conns \cup {Nil}, enc : Positions, dec : Positions]]
    BY <1>0, <1>5, SecretSets DEF FinishExchange
  <2>2. state' \in [Ends -> States]
    BY <1>0, <1>5 DEF FinishExchange, Exchanged, TypeOK, States
  <2>3. login' \in [Conns -> {"start", "exchange", "exchanged", "login", "done"}]
    BY <1>0, <1>5 DEF FinishExchange, TypeOK
  <2>4. UNCHANGED <<wire, rx, conn, out, hasAcked, results, told, hubVars, passed>>
    BY <1>5 DEF FinishExchange
  <2> QED
    BY <1>0, <2>1, <2>2, <2>3, <2>4 DEF TypeOK, hubVars
<1>6. CASE FinishLogin(n)
  <2>2. state' \in [Ends -> States]
    BY <1>0, <1>6 DEF FinishLogin, TypeOK, States
  <2>3. login' \in [Conns -> {"start", "exchange", "exchanged", "login", "done"}]
    BY <1>0, <1>6 DEF FinishLogin, TypeOK
  <2>4. UNCHANGED <<cipher, wire, rx, conn, out, hasAcked, results, told, hubVars, passed>>
    BY <1>6 DEF FinishLogin
  <2> QED
    BY <1>0, <2>2, <2>3, <2>4 DEF TypeOK, hubVars
<1> QED
  BY <1>2, <1>3, <1>4, <1>5, <1>6 DEF Login

LEMMA JobTyped ==
    ASSUME LoginInv, NEW n \in Conns, NEW w \in What,
           Execute(n, w) \/ Reply(n, w) \/ Finish(n, w) \/ GiveUp(n, w)
    PROVE  TypeOK'
<1>0. TypeOK /\ Hub(n) \in Ends
  BY EndsAre DEF LoginInv
<1>1. job' \in [Conns -> [What -> {"none", "run", "reply", "wait", "end"}]]
  <2>1. \E a \in {"reply", "wait", "end"} : job' = [job EXCEPT ![n][w] = a]
    BY DEF Execute, Reply, Finish, GiveUp
  <2> QED
    BY <1>0, <2>1 DEF TypeOK
<1>2. CASE Execute(n, w)
  <2>1. served' \in [Conns -> SUBSET What]
    BY <1>0, <1>2 DEF Execute, TypeOK
  <2>2. cipher' \in [AllCiphers -> [key : Conns \cup {Nil}, enc : Positions, dec : Positions]]
    <3>1. CASE Secret(n, opts.cryptoOf[n])
      BY <1>0, <3>1, SecretSets, CiphersAre
    <3>2. CASE UNCHANGED cipher
      BY <1>0, <3>2 DEF TypeOK
    <3> QED
      BY <1>2, <3>1, <3>2 DEF Execute
  <2>3. UNCHANGED <<state, wire, rx, conn, out, hasAcked, cliVars, opts, buffer, copies, acked, cancelled, passed>>
    BY <1>2 DEF Execute
  <2> QED
    BY <1>0, <1>1, <2>1, <2>2, <2>3 DEF TypeOK, cliVars
<1>3. CASE Reply(n, w)
  <2>1. buffer[n][w] \in Pads
    BY <1>0 DEF TypeOK
  <2>2. Encoded(Hub(n), buffer[n][w]) \in Pads
    BY <1>0, <2>1, EncodedType
  <2>3. buffer' \in [Conns -> [What -> Pads]]
    <3>1. buffer' = [buffer EXCEPT ![n][w] = Encoded(Hub(n), buffer[n][w])]
      BY <1>3 DEF Reply
    <3> QED
      BY <1>0, <2>2, <3>1 DEF TypeOK
  <2>4. copies' \in [Conns -> [What -> 0..opts.maxCopies]]
    <3>1. copies[n][w] + 1 \in 0..opts.maxCopies
      BY <1>0, <1>3, OptionsType DEF Reply, TypeOK
    <3>2. copies' = [copies EXCEPT ![n][w] = copies[n][w] + 1]
      BY <1>3 DEF Reply
    <3> QED
      BY <1>0, <3>1, <3>2 DEF TypeOK
  <2>5. /\ out' \in [Ends -> [Routines -> Messages \cup {Nil}]]
        /\ cipher' \in [AllCiphers -> [key : Conns \cup {Nil}, enc : Positions, dec : Positions]]
    <3>1. Send(Hub(n), w, <<"resp", w>>, buffer[n][w])
      BY <1>3 DEF Reply
    <3> QED
      BY <1>0, <2>1, <3>1, Sends, KindsAre, RoutinesAre
  <2>6. UNCHANGED <<state, wire, rx, conn, hasAcked, cliVars, opts, acked, cancelled, served, passed>>
    BY <1>3 DEF Reply
  <2> QED
    BY <1>0, <1>1, <2>3, <2>4, <2>5, <2>6 DEF TypeOK, cliVars
<1>4. CASE Finish(n, w)
  <2>1. state' \in [Ends -> States]
    BY <1>0, <1>4 DEF Finish, Exchanged, TypeOK, States
  <2>2. UNCHANGED <<cipher, wire, rx, conn, out, hasAcked, cliVars, opts, buffer, copies, acked, cancelled, served, passed>>
    BY <1>4 DEF Finish
  <2> QED
    BY <1>0, <1>1, <2>1, <2>2 DEF TypeOK, cliVars
<1>5. CASE GiveUp(n, w)
  <2>1. UNCHANGED <<endVars, cliVars, opts, buffer, copies, acked, cancelled, served, passed>>
    BY <1>5 DEF GiveUp
  <2> QED
    BY <1>0, <1>1, <2>1 DEF TypeOK, cliVars, endVars
<1> QED
  BY <1>2, <1>3, <1>4, <1>5

LEMMA NextTyped ==
    ASSUME LoginInv, [Next]_vars
    PROVE  TypeOK'
<1>1. CASE UNCHANGED vars
  BY <1>1 DEF LoginInv, TypeOK, vars, endVars, cliVars, hubVars
<1>2. ASSUME NEW e \in Ends, Disconnect(e) PROVE TypeOK'
  BY <1>2 DEF LoginInv, TypeOK, States, Disconnect, cliVars, hubVars
<1>3. ASSUME NEW n \in Conns, Cancel(n) PROVE TypeOK'
  BY <1>3 DEF LoginInv, TypeOK, Cancel, endVars, cliVars
<1> QED
  BY <1>1, <1>2, <1>3, ReadTyped, QueueTyped, HandleTyped, ClientTyped, JobTyped DEF Next, ReadOrQueue

-----------------------------------------------------------------------------
(* What a step can change, and which action changes it *)
LEMMA HistoryGrows ==
    ASSUME LoginInv, [Next]_vars
    PROVE  /\ opts' = opts
           /\ \A n \in Conns : served[n] \subseteq served'[n] /\ acked[n] \subseteq acked'[n]
           /\ cancelled \subseteq cancelled'
           /\ \A n \in Conns, w \in What : w \in served'[n] => w \in served[n] \/ Execute(n, w)
<1> DEFINE Goal ==
    /\ opts' = opts
    /\ \A n \in Conns : served[n] \subseteq served'[n] /\ acked[n] \subseteq acked'[n]
    /\ cancelled \subseteq cancelled'
    /\ \A n \in Conns, w \in What : w \in served'[n] => w \in served[n] \/ Execute(n, w)
<1>0. TypeOK
  BY DEF LoginInv
<1>1. ASSUME UNCHANGED <<opts, served, acked>>, cancelled \subseteq cancelled' PROVE Goal
  BY <1>1
<1>2. ASSUME NEW e \in Ends, ReadOrQueue(e) PROVE Goal
  BY <1>1, <1>2 DEF ReadOrQueue, Read, Queue, hubVars
<1>3. ASSUME NEW n \in Conns, Login(n) \/ AppPublish(n) PROVE Goal
  BY <1>1, <1>3 DEF Login, StartExchange, FinishExchange, StartLogin, FinishLogin, AppPublish, hubVars
<1>4. ASSUME NEW n \in Conns, Handle(n) PROVE Goal
  <2>1. ASSUME NEW e \in Ends, NEW w \in What, OnReceiveAck(e, w) PROVE Goal
    <3>1. UNCHANGED <<opts, served, cancelled>> /\ \A m \in Conns : acked[m] \subseteq acked'[m]
      BY <1>0, <2>1 DEF OnReceiveAck, Loop, TypeOK
    <3> QED BY <3>1
  <2>2. CASE \/ SendAck(Cli(n)) \/ SendAck(Hub(n)) \/ OnReceivePublish(n)
             \/ \E w \in What : OnReceiveRequest(n, w) \/ OnReceiveResponse(n, w)
    BY <1>1, <2>2 DEF SendAck, OnReceivePublish, OnReceiveRequest, OnReceiveResponse, Loop, hubVars
  <2> QED BY <1>4, <2>1, <2>2, EndsAre DEF Handle
<1>5. ASSUME NEW n \in Conns, NEW w \in What, Execute(n, w) PROVE Goal
  <2>1. served' = [served EXCEPT ![n] = served[n] \cup {w}] /\ UNCHANGED <<opts, acked, cancelled>>
    BY <1>5 DEF Execute
  <2>2. \A m \in Conns : served'[m] = IF m = n THEN served[n] \cup {w} ELSE served[m]
    BY <1>0, <2>1 DEF TypeOK
  <2> QED BY <1>5, <2>1, <2>2
<1>6. ASSUME NEW n \in Conns, NEW w \in What, Reply(n, w) \/ Finish(n, w) \/ GiveUp(n, w) PROVE Goal
  BY <1>1, <1>6 DEF Reply, Finish, GiveUp
<1>7. ASSUME UNCHANGED vars PROVE Goal
  BY <1>1, <1>7 DEF vars, hubVars
<1>20. ASSUME NEW e1 \in Ends, Disconnect(e1) PROVE Goal
  BY <1>1, <1>20 DEF Disconnect, hubVars
<1>21. ASSUME NEW n1 \in Conns, Cancel(n1) PROVE Goal
  BY <1>1, <1>21 DEF Cancel
<1> QED
  BY <1>20, <1>21, <1>2, <1>3, <1>4, <1>5, <1>6, <1>7 DEF Next

LEMMA KeysStay ==
    ASSUME LoginInv, [Next]_vars, NEW y \in AllCiphers, cipher[y].key \in Conns
    PROVE  cipher'[y].key \in Conns
<1>0. TypeOK
  BY DEF LoginInv
<1>1. ASSUME UNCHANGED cipher PROVE cipher'[y].key \in Conns
  BY <1>1
<1>2. ASSUME NEW e \in Ends, NEW g \in Routines, NEW kind \in Kinds, NEW pads \in Pads, Send(e, g, kind, pads)
      PROVE  cipher'[y].key \in Conns
  BY <1>2, Sends
<1>3. ASSUME NEW n \in Conns, NEW x \in AllCiphers, Secret(n, x) PROVE cipher'[y].key \in Conns
  BY <1>0, <1>3, SecretSets
<1>4. ASSUME NEW e \in Ends, Read(e) PROVE cipher'[y].key \in Conns
  <2>1. PICK m \in Messages : m = Head(wire[e])
    BY <1>0, <1>4 DEF Read, TypeOK
  <2>2. m.kind \in Kinds
    BY DEF Messages
  <2>3. \/ cipher' = cipher
        \/ cipher' = [cipher EXCEPT ![CipherOf(e)].dec[m.kind] = cipher[CipherOf(e)].dec[m.kind] + 1]
    BY <1>4, <2>1 DEF Read
  <2> QED
    BY <1>0, <2>2, <2>3, DecMoves, CipherIn
<1>5. ASSUME NEW e \in Ends, NEW g \in Routines, Queue(e, g) PROVE cipher'[y].key \in Conns
  BY <1>1, <1>5 DEF Queue
<1>6. ASSUME NEW n \in Conns, Login(n) \/ AppPublish(n) PROVE cipher'[y].key \in Conns
  <2>1. Cli(n) \in Ends /\ Cli(n) \in AllCiphers
    BY <1>0, EndsAre, CiphersAre
  <2>2. CASE StartExchange(n) \/ StartLogin(n) \/ AppPublish(n)
    BY <1>2, <2>1, <2>2, KindsAre, RoutinesAre DEF StartExchange, StartLogin, AppPublish
  <2>3. CASE FinishExchange(n)
    BY <1>3, <2>1, <2>3 DEF FinishExchange
  <2>4. CASE FinishLogin(n)
    BY <1>1, <2>4 DEF FinishLogin
  <2> QED
    BY <1>6, <2>2, <2>3, <2>4 DEF Login
<1>7. ASSUME NEW n \in Conns, Handle(n) PROVE cipher'[y].key \in Conns
  <2>1. ASSUME NEW e \in Ends, SendAck(e) PROVE cipher'[y].key \in Conns
    <3>1. PICK kind \in Kinds : kind = Head(rx[e])
      BY <1>0, <2>1 DEF SendAck, TypeOK
    <3>2. kind[2] \in What /\ Send(e, "loop", <<"ack", kind[2]>>, {})
      BY <2>1, <3>1 DEF SendAck, Acks, Kinds
    <3> QED
      BY <1>2, <3>2, KindsAre, RoutinesAre
  <2>2. CASE \/ OnReceivePublish(n)
             \/ \E w \in What : \/ OnReceiveRequest(n, w) \/ OnReceiveResponse(n, w)
                                \/ OnReceiveAck(Hub(n), w) \/ OnReceiveAck(Cli(n), w)
    BY <1>1, <2>2 DEF OnReceivePublish, OnReceiveRequest, OnReceiveResponse, OnReceiveAck, Loop
  <2> QED
    BY <1>7, <2>1, <2>2, EndsAre DEF Handle
<1>8. ASSUME NEW n \in Conns, NEW w \in What,
             Execute(n, w) \/ Reply(n, w) \/ Finish(n, w) \/ GiveUp(n, w)
      PROVE  cipher'[y].key \in Conns
  <2>1. CASE Execute(n, w)
    BY <1>0, <1>1, <1>3, <2>1, CiphersAre DEF Execute
  <2>2. CASE Reply(n, w)
    <3>1. buffer[n][w] \in Pads
      BY <1>0 DEF TypeOK
    <3> QED
      BY <1>2, <2>2, <3>1, EndsAre, KindsAre, RoutinesAre DEF Reply
  <2>3. CASE Finish(n, w) \/ GiveUp(n, w)
    BY <1>1, <2>3 DEF Finish, GiveUp, endVars
  <2> QED
    BY <1>8, <2>1, <2>2, <2>3
<1>9. ASSUME UNCHANGED vars PROVE cipher'[y].key \in Conns
  BY <1>1, <1>9 DEF vars, endVars
<1>20. ASSUME NEW e1 \in Ends, Disconnect(e1) PROVE cipher'[y].key \in Conns
  BY <1>1, <1>20 DEF Disconnect
<1>21. ASSUME NEW n1 \in Conns, Cancel(n1) PROVE cipher'[y].key \in Conns
  BY <1>1, <1>21 DEF Cancel, endVars
<1> QED
  BY <1>20, <1>21, <1>4, <1>5, <1>6, <1>7, <1>8, <1>9 DEF Next, ReadOrQueue

(* Client.state of an end changes in Login, at the end of a job and in Disconnect *)
LEMMA StatesMove ==
    ASSUME LoginInv, [Next]_vars, NEW n \in Conns
    PROVE  /\ \/ Login(n)
              \/ login'[n] = login[n] /\ state'[Cli(n)] \in {state[Cli(n)], "DISCONNECT"}
           /\ \/ \E w \in What : Finish(n, w)
              \/ Disconnect(Hub(n)) /\ state'[Hub(n)] = "DISCONNECT"
              \/ state'[Hub(n)] = state[Hub(n)]
<1> DEFINE Goal == /\ \/ Login(n)
                      \/ login'[n] = login[n] /\ state'[Cli(n)] \in {state[Cli(n)], "DISCONNECT"}
                   /\ \/ \E w \in What : Finish(n, w)
                      \/ Disconnect(Hub(n)) /\ state'[Hub(n)] = "DISCONNECT"
                      \/ state'[Hub(n)] = state[Hub(n)]
<1>0. TypeOK /\ Cli(n) \in Ends /\ Hub(n) \in Ends
  BY EndsAre DEF LoginInv
<1>1. ASSUME UNCHANGED <<state, login>> PROVE Goal
  BY <1>1
<1>2. ASSUME NEW e \in Ends, ReadOrQueue(e) PROVE Goal
  BY <1>1, <1>2 DEF ReadOrQueue, Read, Queue, cliVars
<1>3. ASSUME NEW m \in Conns, Login(m) PROVE Goal
  <2>1. state' = state \/ \E s : state' = [state EXCEPT ![Cli(m)] = s]
    BY <1>3 DEF Login, StartExchange, FinishExchange, StartLogin, FinishLogin
  <2>2. \E s : login' = [login EXCEPT ![m] = s]
    BY <1>3 DEF Login, StartExchange, FinishExchange, StartLogin, FinishLogin
  <2>3. state'[Hub(n)] = state[Hub(n)]
    BY <1>0, <2>1, EndsAre DEF TypeOK
  <2>4. m # n => state'[Cli(n)] = state[Cli(n)] /\ login'[n] = login[n]
    BY <1>0, <2>1, <2>2, EndsAre DEF TypeOK
  <2> QED
    BY <1>3, <2>3, <2>4
<1>4. ASSUME NEW m \in Conns, AppPublish(m) \/ Handle(m) PROVE Goal
  BY <1>1, <1>4 DEF AppPublish, Handle, SendAck, OnReceivePublish, OnReceiveRequest, OnReceiveResponse,
                    OnReceiveAck, Loop, cliVars
<1>5. ASSUME NEW m \in Conns, NEW w \in What, Finish(m, w) PROVE Goal
  <2>1. \E s : state' = [state EXCEPT ![Hub(m)] = s]
    BY <1>5 DEF Finish
  <2>2. login' = login
    BY <1>5 DEF Finish, cliVars
  <2>3. state'[Cli(n)] = state[Cli(n)]
    BY <1>0, <2>1, EndsAre DEF TypeOK
  <2>4. m # n => state'[Hub(n)] = state[Hub(n)]
    BY <1>0, <2>1, EndsAre DEF TypeOK
  <2> QED
    BY <1>5, <2>2, <2>3, <2>4
<1>6. ASSUME NEW m \in Conns, NEW w \in What, Execute(m, w) \/ Reply(m, w) \/ GiveUp(m, w) PROVE Goal
  BY <1>1, <1>6 DEF Execute, Reply, GiveUp, endVars, cliVars
<1>7. ASSUME UNCHANGED vars PROVE Goal
  BY <1>1, <1>7 DEF vars, endVars, cliVars
<1>8. ASSUME NEW e \in Ends, Disconnect(e) PROVE Goal
  <2>1. \A d \in Ends : state'[d] = IF d = e THEN "DISCONNECT" ELSE state[d]
    BY <1>0, <1>8 DEF Disconnect, TypeOK
  <2>2. login' = login
    BY <1>8 DEF Disconnect, cliVars
  <2> QED BY <1>0, <1>8, <2>1, <2>2
<1>9. ASSUME NEW m \in Conns, Cancel(m) PROVE Goal
  BY <1>1, <1>9 DEF Cancel, endVars, cliVars
<1> QED
  BY <1>2, <1>3, <1>4, <1>5, <1>6, <1>7, <1>8, <1>9 DEF Next

(* A job moves and a result comes by its action *)
LEMMA JobsMove ==
    ASSUME LoginInv, [Next]_vars, NEW n \in Conns, NEW w \in What
    PROVE  /\ \/ job'[n][w] = job[n][w]
              \/ OnReceiveRequest(n, w) \/ Execute(n, w) \/ Reply(n, w) \/ Finish(n, w) \/ GiveUp(n, w)
           /\ w \in results'[n] => w \in results[n] \/ OnReceiveResponse(n, w)
<1> DEFINE JobMoves == \/ job'[n][w] = job[n][w]
                       \/ OnReceiveRequest(n, w) \/ Execute(n, w) \/ Reply(n, w) \/ Finish(n, w) \/ GiveUp(n, w)
           Goal == /\ JobMoves
                   /\ w \in results'[n] => w \in results[n] \/ OnReceiveResponse(n, w)
<1>0. TypeOK
  BY DEF LoginInv
<1>1. ASSUME UNCHANGED <<job, results>> PROVE Goal
  BY <1>1
<1>2. ASSUME NEW m \in Conns, NEW v \in What, NEW s, job' = [job EXCEPT ![m][v] = s],
             <<m, v>> = <<n, w>> => JobMoves, UNCHANGED results
      PROVE  Goal
  <2>1. m # n \/ v # w => job'[n][w] = job[n][w]
    <3>1. job \in [Conns -> [What -> {"none", "run", "reply", "wait", "end"}]]
      BY <1>0 DEF TypeOK
    <3>2. job'[n] = IF m = n THEN [job[m] EXCEPT ![v] = s] ELSE job[n]
      BY <1>2, <3>1
    <3>3. m = n /\ v # w => job'[n][w] = job[n][w]
      BY <3>1, <3>2
    <3> QED BY <3>2, <3>3
  <2> HIDE DEF JobMoves
  <2>2. JobMoves
    <3>1. CASE m = n /\ v = w
      BY <1>2, <3>1
    <3>2. CASE m # n \/ v # w
      BY <2>1, <3>2 DEF JobMoves
    <3> QED BY <3>1, <3>2
  <2> QED
    BY <1>2, <2>2
<1>3. ASSUME NEW e \in Ends, ReadOrQueue(e) PROVE Goal
  BY <1>1, <1>3 DEF ReadOrQueue, Read, Queue, cliVars, hubVars
<1>4. ASSUME NEW m \in Conns, Login(m) \/ AppPublish(m) PROVE Goal
  BY <1>1, <1>4 DEF Login, StartExchange, FinishExchange, StartLogin, FinishLogin, AppPublish, hubVars
<1>5. ASSUME NEW m \in Conns, Handle(m) PROVE Goal
  <2>1. ASSUME NEW v \in What, OnReceiveRequest(m, v) PROVE Goal
    <3>1. job' = [job EXCEPT ![m][v] = IF job[m][v] = "none" THEN "run" ELSE job[m][v]]
      BY <2>1 DEF OnReceiveRequest
    <3>3. UNCHANGED results
      BY <2>1 DEF OnReceiveRequest
    <3>4. <<m, v>> = <<n, w>> => JobMoves
      BY <2>1
    <3> QED BY <1>2, <3>1, <3>3, <3>4
  <2>2. ASSUME NEW v \in What, OnReceiveResponse(m, v) PROVE Goal
    <3>1. results' = [results EXCEPT ![m] = results[m] \cup {v}] /\ UNCHANGED job
      BY <2>2 DEF OnReceiveResponse
    <3>2. results'[n] = IF n = m THEN results[n] \cup {v} ELSE results[n]
      BY <1>0, <3>1 DEF TypeOK
    <3> QED BY <2>2, <3>1, <3>2
  <2>4. CASE \/ SendAck(Cli(m)) \/ SendAck(Hub(m)) \/ OnReceivePublish(m)
             \/ \E v \in What : OnReceiveAck(Hub(m), v) \/ OnReceiveAck(Cli(m), v)
    BY <1>1, <2>4 DEF SendAck, OnReceiveAck, OnReceivePublish, cliVars, hubVars
  <2> QED BY <1>5, <2>1, <2>2, <2>4 DEF Handle
<1>6. ASSUME NEW m \in Conns, NEW v \in What,
             Execute(m, v) \/ Reply(m, v) \/ Finish(m, v) \/ GiveUp(m, v)
      PROVE  Goal
  <2>1. PICK s : job' = [job EXCEPT ![m][v] = s]
    BY <1>6 DEF Execute, Reply, Finish, GiveUp
  <2>3. UNCHANGED results
    BY <1>6 DEF Execute, Reply, Finish, GiveUp, cliVars
  <2>4. <<m, v>> = <<n, w>> => JobMoves
    BY <1>6
  <2> QED BY <1>2, <2>1, <2>3, <2>4
<1>7. ASSUME UNCHANGED vars PROVE Goal
  BY <1>1, <1>7 DEF vars, cliVars, hubVars
<1>20. ASSUME NEW e1 \in Ends, Disconnect(e1) PROVE Goal
  BY <1>1, <1>20 DEF Disconnect, cliVars, hubVars
<1>21. ASSUME NEW n1 \in Conns, Cancel(n1) PROVE Goal
  BY <1>1, <1>21 DEF Cancel, cliVars
<1> QED
  BY <1>20, <1>21, <1>3, <1>4, <1>5, <1>6, <1>7 DEF Next

(* A packet gets into rxQueue only past the checks of receiveMessage *)
LEMMA RxMoves ==
    ASSUME LoginInv, [Next]_vars, NEW e \in Ends, NEW kind \in In(rx'[e])
    PROVE  \/ kind \in In(rx[e])
           \/ Read(e) /\ LetThrough(state[e], kind) /\ \E m \in In(wire[e]) : m.kind = kind
<1> DEFINE Goal == \/ kind \in In(rx[e])
                   \/ Read(e) /\ LetThrough(state[e], kind) /\ \E m \in In(wire[e]) : m.kind = kind
<1>0. TypeOK
  BY DEF LoginInv
<1>1. ASSUME UNCHANGED rx PROVE Goal
  BY <1>1
<1>2. ASSUME NEW d \in Ends, Read(d) PROVE Goal
  <2>1. CASE rx'[e] = rx[e]
    BY <2>1
  <2>2. CASE rx'[e] # rx[e]
    <3>1. PICK m \in Messages : m = Head(wire[d])
      BY <1>0, <1>2 DEF Read, TypeOK
    <3>2. m.kind \in Kinds /\ m \in In(wire[d])
      BY <1>0, <1>2, <3>1, InSeq DEF Read, TypeOK, Messages
    <3>3. rx' = [rx EXCEPT ![d] = Append(rx[d], m.kind)] /\ LetThrough(state[d], m.kind)
      BY <1>2, <2>2, <3>1 DEF Read
    <3>4. d = e /\ rx'[e] = Append(rx[e], m.kind)
      BY <1>0, <2>2, <3>3 DEF TypeOK
    <3>5. rx[e] \in Seq(Kinds)
      BY <1>0 DEF TypeOK
    <3>6. In(Append(rx[e], m.kind)) = In(rx[e]) \cup {m.kind}
      BY <3>2, <3>5, InSeq
    <3> QED BY <1>2, <3>2, <3>3, <3>4, <3>6
  <2> QED BY <2>1, <2>2
<1>3. ASSUME NEW d \in Ends, NEW g \in Routines, Queue(d, g) PROVE Goal
  BY <1>1, <1>3 DEF Queue
<1>4. ASSUME NEW n \in Conns, Login(n) \/ AppPublish(n) PROVE Goal
  BY <1>1, <1>4 DEF Login, StartExchange, FinishExchange, StartLogin, FinishLogin, AppPublish
<1>5. ASSUME NEW n \in Conns, Handle(n) PROVE Goal
  <2>1. ASSUME NEW d \in Ends, NEW k \in Kinds, Loop(d, k) PROVE Goal
    BY <1>0, <2>1, LoopTyped
  <2>2. ASSUME NEW d \in Ends, SendAck(d) PROVE Goal
    BY <1>1, <2>2 DEF SendAck
  <2> QED
    BY <1>5, <2>1, <2>2, EndsAre, KindsAre, RoutinesAre
       DEF Handle, OnReceivePublish, OnReceiveRequest, OnReceiveResponse, OnReceiveAck
<1>6. ASSUME NEW n \in Conns, NEW w \in What,
             Execute(n, w) \/ Reply(n, w) \/ Finish(n, w) \/ GiveUp(n, w)
      PROVE  Goal
  BY <1>1, <1>6 DEF Execute, Reply, Finish, GiveUp, endVars
<1>7. ASSUME UNCHANGED vars PROVE Goal
  BY <1>1, <1>7 DEF vars, endVars
<1>20. ASSUME NEW e1 \in Ends, Disconnect(e1) PROVE Goal
  BY <1>1, <1>20 DEF Disconnect
<1>21. ASSUME NEW n1 \in Conns, Cancel(n1) PROVE Goal
  BY <1>1, <1>21 DEF Cancel, endVars
<1> QED
  BY <1>20, <1>21, <1>2, <1>3, <1>4, <1>5, <1>6, <1>7 DEF Next, ReadOrQueue

(* A message gets onto the wire out of a goroutine's hands *)
LEMMA WireMoves ==
    ASSUME LoginInv, [Next]_vars, NEW e \in Ends, NEW m \in In(wire'[e])
    PROVE  \/ m \in In(wire[e])
           \/ \E g \in Routines : m = out[Peer(e)][g] /\ m # Nil
<1> DEFINE Goal == \/ m \in In(wire[e])
                   \/ \E g \in Routines : m = out[Peer(e)][g] /\ m # Nil
<1>0. TypeOK
  BY DEF LoginInv
<1>1. ASSUME UNCHANGED wire PROVE Goal
  BY <1>1
<1>2. ASSUME NEW d \in Ends, Read(d) PROVE Goal
  <2>1. wire' = [wire EXCEPT ![d] = Tail(wire[d])] /\ wire[d] \in Seq(Messages) /\ wire[d] # <<>>
    BY <1>0, <1>2 DEF Read, TypeOK
  <2>2. wire'[e] = wire[e] \/ (d = e /\ wire'[e] = Tail(wire[e]))
    BY <1>0, <2>1 DEF TypeOK
  <2> QED BY <2>1, <2>2, InSeq
<1>3. ASSUME NEW d \in Ends, NEW g \in Routines, Queue(d, g) PROVE Goal
  <2>1. out[d][g] \in Messages /\ out[d][g] # Nil /\ Peer(d) \in Ends
    BY <1>0, <1>3, EndsAre DEF Queue, TypeOK
  <2>2. wire' = wire \/ wire' = [wire EXCEPT ![Peer(d)] = Append(wire[Peer(d)], out[d][g])]
    BY <1>3 DEF Queue
  <2>3. wire[e] \in Seq(Messages)
    BY <1>0 DEF TypeOK
  <2>4. wire'[e] = wire[e] \/ (Peer(d) = e /\ wire'[e] = Append(wire[e], out[d][g]))
    BY <1>0, <2>2 DEF TypeOK
  <2>5. Peer(d) = e => Peer(e) = d
    BY EndsAre
  <2>6. In(Append(wire[e], out[d][g])) = In(wire[e]) \cup {out[d][g]}
    BY <2>1, <2>3, InSeq
  <2> QED BY <2>1, <2>4, <2>5, <2>6
<1>4. ASSUME NEW n \in Conns, Login(n) \/ AppPublish(n) PROVE Goal
  BY <1>1, <1>4 DEF Login, StartExchange, FinishExchange, StartLogin, FinishLogin, AppPublish
<1>5. ASSUME NEW n \in Conns, Handle(n) PROVE Goal
  BY <1>1, <1>5 DEF Handle, SendAck, OnReceivePublish, OnReceiveRequest, OnReceiveResponse, OnReceiveAck, Loop
<1>6. ASSUME NEW n \in Conns, NEW w \in What,
             Execute(n, w) \/ Reply(n, w) \/ Finish(n, w) \/ GiveUp(n, w)
      PROVE  Goal
  BY <1>1, <1>6 DEF Execute, Reply, Finish, GiveUp, endVars
<1>7. ASSUME UNCHANGED vars PROVE Goal
  BY <1>1, <1>7 DEF vars, endVars
<1>20. ASSUME NEW e1 \in Ends, Disconnect(e1) PROVE Goal
  BY <1>1, <1>20 DEF Disconnect
<1>21. ASSUME NEW n1 \in Conns, Cancel(n1) PROVE Goal
  BY <1>1, <1>21 DEF Cancel, endVars
<1> QED
  BY <1>20, <1>21, <1>2, <1>3, <1>4, <1>5, <1>6, <1>7 DEF Next, ReadOrQueue

(* A closed connection stays closed, and its reader ends after one message *)
LEMMA ConnMoves ==
    ASSUME LoginInv, [Next]_vars, NEW d \in Ends
    PROVE  /\ conn[d] # "open" => conn'[d] # "open"
           /\ conn[d] = "over" => conn'[d] = "over"
           /\ Read(d) /\ conn[d] = "closed" => conn'[d] = "over"
           /\ Disconnect(d) => conn'[d] = "closed"
<1> DEFINE Goal == /\ conn[d] # "open" => conn'[d] # "open"
                   /\ conn[d] = "over" => conn'[d] = "over"
<1>0. conn \in [Ends -> {"open", "closed", "over"}]
  BY DEF LoginInv, TypeOK
<1>1. ASSUME UNCHANGED conn PROVE Goal
  BY <1>1
<1>2. ASSUME NEW e \in Ends, Read(e) PROVE Goal
  BY <1>0, <1>2 DEF Read
<1>3. ASSUME NEW e \in Ends, NEW g \in Routines, Queue(e, g) PROVE Goal
  BY <1>1, <1>3 DEF Queue
<1>4. ASSUME NEW e \in Ends, Disconnect(e) PROVE Goal
  BY <1>0, <1>4 DEF Disconnect
<1>5. ASSUME NEW m \in Conns, Login(m) \/ AppPublish(m) PROVE Goal
  BY <1>1, <1>5 DEF Login, StartExchange, FinishExchange, StartLogin, FinishLogin, AppPublish
<1>6. ASSUME NEW m \in Conns, Handle(m) PROVE Goal
  BY <1>1, <1>6 DEF Handle, SendAck, OnReceivePublish, OnReceiveRequest, OnReceiveResponse, OnReceiveAck, Loop
<1>7. ASSUME NEW m \in Conns, Cancel(m) PROVE Goal
  BY <1>1, <1>7 DEF Cancel, endVars
<1>8. ASSUME NEW m \in Conns, NEW w \in What,
             Execute(m, w) \/ Reply(m, w) \/ Finish(m, w) \/ GiveUp(m, w)
      PROVE  Goal
  BY <1>1, <1>8 DEF Execute, Reply, Finish, GiveUp, endVars
<1>9. ASSUME UNCHANGED vars PROVE Goal
  BY <1>1, <1>9 DEF vars, endVars
<1>10. Goal
  BY <1>2, <1>3, <1>4, <1>5, <1>6, <1>7, <1>8, <1>9 DEF Next, ReadOrQueue
<1>11. Read(d) /\ conn[d] = "closed" => conn'[d] = "over"
  BY <1>0 DEF Read
<1>12. Disconnect(d) => conn'[d] = "closed"
  BY <1>0 DEF Disconnect
<1> QED
  BY <1>10, <1>11, <1>12

(* A publication is let through by a reader that goes on, in the state of  *)
(* its end.                                                                *)
LEMMA PassedMoves ==
    ASSUME LoginInv, [Next]_vars, NEW n \in Conns
    PROVE  \/ passed'[n] = passed[n]
           \/ /\ Read(Hub(n)) /\ conn[Hub(n)] # "over" /\ passed'[n] = state[Hub(n)]
              /\ LetThrough(state[Hub(n)], <<"pub", "app">>)
<1> DEFINE Goal == \/ passed'[n] = passed[n]
                   \/ /\ Read(Hub(n)) /\ conn[Hub(n)] # "over" /\ passed'[n] = state[Hub(n)]
                      /\ LetThrough(state[Hub(n)], <<"pub", "app">>)
<1>0. TypeOK
  BY DEF LoginInv
<1>1. ASSUME UNCHANGED passed PROVE Goal
  BY <1>1
<1>2. ASSUME NEW e \in Ends, Read(e) PROVE Goal
  <2>1. CASE passed' = passed
    BY <1>1, <2>1
  <2>2. CASE passed' # passed
    <3>1. /\ e[1] = "hub" /\ passed' = [passed EXCEPT ![e[2]] = state[e]] /\ conn[e] # "over"
          /\ LetThrough(state[e], <<"pub", "app">>)
      BY <1>2, <2>2 DEF Read
    <3>2. e = Hub(e[2]) /\ e[2] \in Conns
      BY <3>1, EndsAre DEF Cli
    <3>3. passed'[n] = IF n = e[2] THEN state[e] ELSE passed[n]
      BY <1>0, <3>1 DEF TypeOK
    <3>4. CASE n = e[2]
      BY <1>2, <3>1, <3>2, <3>3, <3>4
    <3>5. CASE n # e[2]
      BY <3>3, <3>5
    <3> QED BY <3>4, <3>5
  <2> QED BY <2>1, <2>2
<1>3. ASSUME NEW e \in Ends, NEW g \in Routines, Queue(e, g) PROVE Goal
  BY <1>1, <1>3 DEF Queue
<1>4. ASSUME NEW e \in Ends, Disconnect(e) PROVE Goal
  BY <1>1, <1>4 DEF Disconnect
<1>5. ASSUME NEW m \in Conns, Login(m) \/ AppPublish(m) PROVE Goal
  BY <1>1, <1>5 DEF Login, StartExchange, FinishExchange, StartLogin, FinishLogin, AppPublish
<1>6. ASSUME NEW m \in Conns, Handle(m) PROVE Goal
  BY <1>1, <1>6 DEF Handle, SendAck, OnReceivePublish, OnReceiveRequest, OnReceiveResponse, OnReceiveAck, Loop
<1>7. ASSUME NEW m \in Conns, Cancel(m) PROVE Goal
  BY <1>1, <1>7 DEF Cancel
<1>8. ASSUME NEW m \in Conns, NEW w \in What,
             Execute(m, w) \/ Reply(m, w) \/ Finish(m, w) \/ GiveUp(m, w)
      PROVE  Goal
  BY <1>1, <1>8 DEF Execute, Reply, Finish, GiveUp
<1>9. ASSUME UNCHANGED vars PROVE Goal
  BY <1>1, <1>9 DEF vars
<1> QED
  BY <1>2, <1>3, <1>4, <1>5, <1>6, <1>7, <1>8, <1>9 DEF Next, ReadOrQueue

(* Only a job puts a response into the hands of a goroutine of the hub *)
LEMMA OutMoves ==
    ASSUME LoginInv, [Next]_vars, NEW n \in Conns, NEW g \in Routines, NEW w \in What,
           out'[Hub(n)][g] # Nil, out'[Hub(n)][g].kind = <<"resp", w>>
    PROVE  out'[Hub(n)][g] = out[Hub(n)][g] \/ Reply(n, w)
<1> DEFINE Goal == out'[Hub(n)][g] = out[Hub(n)][g] \/ Reply(n, w)
<1>0. TypeOK /\ Hub(n) \in Ends
  BY EndsAre DEF LoginInv
<1>1. ASSUME UNCHANGED out PROVE Goal
  BY <1>1
<1>2. ASSUME NEW e \in Ends, NEW h \in Routines, NEW kind \in Kinds, NEW pads \in Pads,
             Send(e, h, kind, pads), kind # <<"resp", w>> \/ e # Hub(n)
      PROVE  Goal
  <2>1. IF Hub(n) = e /\ g = h THEN out'[Hub(n)][g].kind = kind ELSE out'[Hub(n)][g] = out[Hub(n)][g]
    <3>1. \A d \in Ends, r \in Routines :
            IF d = e /\ r = h THEN out'[d][r].kind = kind ELSE out'[d][r] = out[d][r]
      BY <1>2, Sends
    <3> QED BY <1>0, <3>1
  <2> QED
    BY <1>2, <2>1
<1>3. ASSUME NEW e \in Ends, Read(e) PROVE Goal
  BY <1>1, <1>3 DEF Read
<1>4. ASSUME NEW e \in Ends, NEW h \in Routines, Queue(e, h) PROVE Goal
  <2>1. out' = [out EXCEPT ![e][h] = Nil]
    BY <1>4 DEF Queue
  <2>2. out'[Hub(n)][g] \in {out[Hub(n)][g], Nil}
    BY <1>0, <2>1 DEF TypeOK
  <2> QED BY <2>2
<1>5. ASSUME NEW m \in Conns, Login(m) \/ AppPublish(m) PROVE Goal
  <2>1. Cli(m) \in Ends /\ Cli(m) # Hub(n)
    BY EndsAre
  <2>2. CASE StartExchange(m) \/ StartLogin(m) \/ AppPublish(m)
    BY <1>2, <2>1, <2>2, KindsAre, RoutinesAre DEF StartExchange, StartLogin, AppPublish
  <2>3. CASE FinishExchange(m) \/ FinishLogin(m)
    BY <1>1, <2>3 DEF FinishExchange, FinishLogin
  <2> QED
    BY <1>5, <2>2, <2>3 DEF Login
<1>6. ASSUME NEW m \in Conns, Handle(m) PROVE Goal
  <2>1. ASSUME NEW e \in Ends, SendAck(e) PROVE Goal
    <3>1. PICK kind \in Kinds : kind = Head(rx[e])
      BY <1>0, <2>1 DEF SendAck, TypeOK
    <3>2. kind[2] \in What /\ Send(e, "loop", <<"ack", kind[2]>>, {})
      BY <2>1, <3>1 DEF SendAck, Acks, Kinds
    <3>3. <<"ack", kind[2]>> # <<"resp", w>>
      OBVIOUS
    <3> QED
      BY <1>2, <3>2, <3>3, KindsAre, RoutinesAre
  <2>2. CASE \/ OnReceivePublish(m)
             \/ \E v \in What : \/ OnReceiveRequest(m, v) \/ OnReceiveResponse(m, v)
                                \/ OnReceiveAck(Hub(m), v) \/ OnReceiveAck(Cli(m), v)
    BY <1>1, <2>2 DEF OnReceivePublish, OnReceiveRequest, OnReceiveResponse, OnReceiveAck, Loop
  <2> QED
    BY <1>6, <2>1, <2>2, EndsAre DEF Handle
<1>7. ASSUME NEW m \in Conns, NEW v \in What, Reply(m, v) PROVE Goal
  <2>1. CASE m = n /\ v = w
    BY <1>7, <2>1
  <2>2. CASE m # n \/ v # w
    <3>1. Hub(m) \in Ends /\ (Hub(m) # Hub(n) \/ <<"resp", v>> # <<"resp", w>>)
      BY <2>2, EndsAre
    <3>2. buffer[m][v] \in Pads /\ Send(Hub(m), v, <<"resp", v>>, buffer[m][v])
      BY <1>0, <1>7 DEF Reply, TypeOK
    <3> QED
      BY <1>2, <3>1, <3>2, KindsAre, RoutinesAre
  <2> QED BY <2>1, <2>2
<1>8. ASSUME NEW m \in Conns, NEW v \in What, Execute(m, v) \/ Finish(m, v) \/ GiveUp(m, v) PROVE Goal
  BY <1>1, <1>8 DEF Execute, Finish, GiveUp, endVars
<1>9. ASSUME UNCHANGED vars PROVE Goal
  BY <1>1, <1>9 DEF vars, endVars
<1>20. ASSUME NEW e1 \in Ends, Disconnect(e1) PROVE Goal
  BY <1>1, <1>20 DEF Disconnect
<1>21. ASSUME NEW n1 \in Conns, Cancel(n1) PROVE Goal
  BY <1>1, <1>21 DEF Cancel, endVars
<1> QED
  BY <1>20, <1>21, <1>3, <1>4, <1>5, <1>6, <1>7, <1>8, <1>9 DEF Next, ReadOrQueue

(* Only Login puts a login request into the hands of a goroutine of the client *)
LEMMA AsksMove ==
    ASSUME LoginInv, [Next]_vars, NEW n \in Conns, NEW g \in Routines,
           out'[Cli(n)][g] # Nil, out'[Cli(n)][g].kind = <<"req", "login">>
    PROVE  out'[Cli(n)][g] = out[Cli(n)][g] \/ StartLogin(n)
<1> DEFINE Goal == out'[Cli(n)][g] = out[Cli(n)][g] \/ StartLogin(n)
<1>0. TypeOK /\ Cli(n) \in Ends
  BY EndsAre DEF LoginInv
<1>1. ASSUME UNCHANGED out PROVE Goal
  BY <1>1
<1>2. ASSUME NEW e \in Ends, NEW h \in Routines, NEW kind \in Kinds, NEW pads \in Pads,
             Send(e, h, kind, pads), kind # <<"req", "login">> \/ e # Cli(n)
      PROVE  Goal
  <2>1. IF Cli(n) = e /\ g = h THEN out'[Cli(n)][g].kind = kind ELSE out'[Cli(n)][g] = out[Cli(n)][g]
    <3>1. \A d \in Ends, r \in Routines :
            IF d = e /\ r = h THEN out'[d][r].kind = kind ELSE out'[d][r] = out[d][r]
      BY <1>2, Sends
    <3> QED BY <1>0, <3>1
  <2> QED
    BY <1>2, <2>1
<1>3. ASSUME NEW e \in Ends, Read(e) PROVE Goal
  BY <1>1, <1>3 DEF Read
<1>4. ASSUME NEW e \in Ends, NEW h \in Routines, Queue(e, h) PROVE Goal
  <2>1. out' = [out EXCEPT ![e][h] = Nil]
    BY <1>4 DEF Queue
  <2>2. out'[Cli(n)][g] \in {out[Cli(n)][g], Nil}
    BY <1>0, <2>1 DEF TypeOK
  <2> QED BY <2>2
<1>5. ASSUME NEW m \in Conns, Login(m) \/ AppPublish(m) PROVE Goal
  <2>1. Cli(m) \in Ends /\ (m # n => Cli(m) # Cli(n))
    BY EndsAre
  <2>2. CASE StartExchange(m) \/ AppPublish(m)
    BY <1>2, <2>1, <2>2, KindsAre, RoutinesAre DEF StartExchange, AppPublish
  <2>3. CASE FinishExchange(m) \/ FinishLogin(m)
    BY <1>1, <2>3 DEF FinishExchange, FinishLogin
  <2>4. CASE StartLogin(m)
    <3>1. CASE m = n
      BY <2>4, <3>1
    <3>2. CASE m # n
      BY <1>2, <2>1, <2>4, <3>2, KindsAre, RoutinesAre DEF StartLogin
    <3> QED BY <3>1, <3>2
  <2> QED
    BY <1>5, <2>2, <2>3, <2>4 DEF Login
<1>6. ASSUME NEW m \in Conns, Handle(m) PROVE Goal
  <2>1. ASSUME NEW e \in Ends, SendAck(e) PROVE Goal
    <3>1. PICK kind \in Kinds : kind = Head(rx[e])
      BY <1>0, <2>1 DEF SendAck, TypeOK
    <3>2. kind[2] \in What /\ Send(e, "loop", <<"ack", kind[2]>>, {})
      BY <2>1, <3>1 DEF SendAck, Acks, Kinds
    <3>3. <<"ack", kind[2]>> # <<"req", "login">>
      OBVIOUS
    <3> QED
      BY <1>2, <3>2, <3>3, KindsAre, RoutinesAre
  <2>2. CASE \/ OnReceivePublish(m)
             \/ \E v \in What : \/ OnReceiveRequest(m, v) \/ OnReceiveResponse(m, v)
                                \/ OnReceiveAck(Hub(m), v) \/ OnReceiveAck(Cli(m), v)
    BY <1>1, <2>2 DEF OnReceivePublish, OnReceiveRequest, OnReceiveResponse, OnReceiveAck, Loop
  <2> QED
    BY <1>6, <2>1, <2>2, EndsAre DEF Handle
<1>7. ASSUME NEW m \in Conns, NEW v \in What, Reply(m, v) PROVE Goal
  <2>1. Hub(m) \in Ends /\ Hub(m) # Cli(n)
    BY EndsAre
  <2>2. buffer[m][v] \in Pads /\ Send(Hub(m), v, <<"resp", v>>, buffer[m][v])
    BY <1>0, <1>7 DEF Reply, TypeOK
  <2> QED
    BY <1>2, <2>1, <2>2, KindsAre, RoutinesAre
<1>8. ASSUME NEW m \in Conns, NEW v \in What, Execute(m, v) \/ Finish(m, v) \/ GiveUp(m, v) PROVE Goal
  BY <1>1, <1>8 DEF Execute, Finish, GiveUp, endVars
<1>9. ASSUME UNCHANGED vars PROVE Goal
  BY <1>1, <1>9 DEF vars, endVars
<1>20. ASSUME NEW e1 \in Ends, Disconnect(e1) PROVE Goal
  BY <1>1, <1>20 DEF Disconnect
<1>21. ASSUME NEW n1 \in Conns, Cancel(n1) PROVE Goal
  BY <1>1, <1>21 DEF Cancel, endVars
<1> QED
  BY <1>20, <1>21, <1>3, <1>4, <1>5, <1>6, <1>7, <1>8, <1>9 DEF Next, ReadOrQueue

-----------------------------------------------------------------------------
(* The run loop of an end handles a packet that was in its rxQueue *)
LEMMA HandlesWhatCame ==
    ASSUME LoginInv, NEW n \in Conns, NEW w \in What
    PROVE  /\ OnReceiveRequest(n, w) => <<"req", w>> \in In(rx[Hub(n)])
           /\ OnReceiveResponse(n, w) => <<"resp", w>> \in In(rx[Cli(n)])
           /\ OnReceivePublish(n) => <<"pub", "app">> \in In(rx[Hub(n)])
BY EndsAre, KindsAre, LoopTyped DEF LoginInv, OnReceiveRequest, OnReceiveResponse, OnReceivePublish

LEMMA NextResponses ==
    ASSUME LoginInv, [Next]_vars
    PROVE  ResponsesAreServed'
<1> SUFFICES ASSUME NEW n \in Conns, NEW w \in What,
                    Carried(n, w)' \/ w \in results'[n] \/ job'[n][w] \in {"reply", "wait", "end"}
             PROVE  w \in served'[n]
  BY DEF ResponsesAreServed
<1>0. TypeOK /\ Cli(n) \in Ends /\ Hub(n) \in Ends /\ Peer(Cli(n)) = Hub(n)
  BY EndsAre DEF LoginInv
<1>1. w \in served[n] \/ Execute(n, w) => w \in served'[n]
  <2>1. Execute(n, w) => w \in served'[n]
    BY <1>0 DEF Execute, TypeOK
  <2> QED BY <2>1, HistoryGrows
<1>2. Carried(n, w) \/ w \in results[n] \/ job[n][w] \in {"reply", "wait", "end"} => w \in served[n]
  BY DEF LoginInv, ResponsesAreServed
<1>3. CASE Carried(n, w)'
  <2>1. ASSUME NEW m \in In(wire'[Cli(n)]), m.kind = <<"resp", w>> PROVE w \in served'[n]
    <3>1. m \in In(wire[Cli(n)]) \/ \E g \in Routines : m = out[Hub(n)][g] /\ m # Nil
      BY <1>0, WireMoves
    <3> QED BY <1>1, <1>2, <2>1, <3>1 DEF Carried
  <2>2. ASSUME <<"resp", w>> \in In(rx'[Cli(n)]) PROVE w \in served'[n]
    <3>1. <<"resp", w>> \in In(rx[Cli(n)]) \/ \E m \in In(wire[Cli(n)]) : m.kind = <<"resp", w>>
      BY <1>0, <2>2, RxMoves
    <3> QED BY <1>1, <1>2, <3>1 DEF Carried
  <2>3. ASSUME NEW g \in Routines, out'[Hub(n)][g] # Nil, out'[Hub(n)][g].kind = <<"resp", w>>
        PROVE  w \in served'[n]
    <3>1. CASE out'[Hub(n)][g] = out[Hub(n)][g]
      BY <1>1, <1>2, <2>3, <3>1 DEF Carried
    <3>2. CASE Reply(n, w)
      BY <1>1, <1>2, <3>2 DEF Reply
    <3> QED BY <2>3, <3>1, <3>2, OutMoves
  <2> QED
    BY <1>3, <2>1, <2>2, <2>3 DEF Carried, In
<1>4. CASE w \in results'[n]
  <2>1. w \in results[n] \/ <<"resp", w>> \in In(rx[Cli(n)])
    BY <1>4, JobsMove, HandlesWhatCame
  <2> QED BY <1>1, <1>2, <2>1 DEF Carried
<1>5. CASE job'[n][w] \in {"reply", "wait", "end"}
  <2>1. ASSUME OnReceiveRequest(n, w) PROVE job[n][w] \in {"reply", "wait", "end"}
    <3>1. job'[n][w] = IF job[n][w] = "none" THEN "run" ELSE job[n][w]
      BY <1>0, <2>1 DEF OnReceiveRequest, TypeOK
    <3> QED BY <1>5, <3>1
  <2>2. ASSUME Reply(n, w) \/ Finish(n, w) \/ GiveUp(n, w) PROVE job[n][w] \in {"reply", "wait", "end"}
    BY <2>2 DEF Reply, Finish, GiveUp
  <2>3. \/ job'[n][w] = job[n][w]
        \/ OnReceiveRequest(n, w) \/ Execute(n, w) \/ Reply(n, w) \/ Finish(n, w) \/ GiveUp(n, w)
    BY JobsMove
  <2> QED BY <1>1, <1>2, <1>5, <2>1, <2>2, <2>3
<1> QED
  BY <1>3, <1>4, <1>5

(* What Login of a client has seen, its result included *)
LEMMA LoginHeard ==
    ASSUME LoginInv, [Next]_vars, NEW n \in Conns
    PROVE  /\ opts.useCipher /\ (state'[Cli(n)] \in Coded \/ login'[n] \in {"exchanged", "login", "done"})
                => \/ state[Cli(n)] \in Coded \/ login[n] \in {"exchanged", "login", "done"}
                   \/ FinishExchange(n)
           /\ state'[Cli(n)] = "LOGINED" /\ opts.cliNeedLogin
                => state[Cli(n)] = "LOGINED" \/ "login" \in served[n]
           /\ FinishExchange(n) => "exchange" \in served[n]
<1>0. TypeOK /\ Cli(n) \in Ends
  BY EndsAre DEF LoginInv
<1>1. \A w \in What : w \in results[n] => w \in served[n]
  BY DEF LoginInv, ResponsesAreServed
<1>2. FinishExchange(n) => "exchange" \in served[n]
  BY <1>1, RoutinesAre DEF FinishExchange, Result
<1>3. CASE state'[Cli(n)] = state[Cli(n)] /\ login'[n] = login[n]
  BY <1>2, <1>3
<1>4. CASE StartExchange(n)
  <2>1. state'[Cli(n)] = state[Cli(n)] /\ login'[n] = "exchange"
    BY <1>0, <1>4 DEF StartExchange, TypeOK
  <2> QED BY <1>2, <2>1
<1>5. CASE FinishExchange(n)
  <2>1. state'[Cli(n)] = Exchanged(Cli(n))
    BY <1>0, <1>5 DEF FinishExchange, TypeOK
  <2>2. opts.cliNeedLogin => Exchanged(Cli(n)) = "EXCHANGED_SECRET"
    BY DEF Exchanged, NeedLogin, Cli
  <2> QED BY <1>2, <1>5, <2>1, <2>2
<1>6. CASE StartLogin(n)
  <2>1. state'[Cli(n)] = state[Cli(n)] /\ (opts.useCipher => login[n] = "exchanged")
    BY <1>0, <1>6 DEF StartLogin
  <2> QED BY <1>2, <2>1
<1>7. CASE FinishLogin(n)
  <2>1. login[n] = "login" /\ "login" \in served[n]
    BY <1>1, <1>7, RoutinesAre DEF FinishLogin, Result
  <2> QED BY <1>2, <2>1
<1>8. CASE state'[Cli(n)] = "DISCONNECT" /\ login'[n] = login[n]
  BY <1>2, <1>8 DEF Coded
<1> QED
  BY <1>3, <1>4, <1>5, <1>6, <1>7, <1>8, StatesMove DEF Login

LEMMA NextClient ==
    ASSUME LoginInv, [Next]_vars
    PROVE  ClientIsServed'
<1> SUFFICES ASSUME NEW n \in Conns
             PROVE  /\ opts'.useCipher /\ (state'[Cli(n)] \in Coded \/ login'[n] \in {"exchanged", "login", "done"})
                         => "exchange" \in served'[n]
                    /\ state'[Cli(n)] = "LOGINED" /\ opts'.cliNeedLogin => "login" \in served'[n]
  BY DEF ClientIsServed
<1>1. opts' = opts /\ served[n] \subseteq served'[n]
  BY HistoryGrows
<1>2. /\ opts.useCipher /\ (state[Cli(n)] \in Coded \/ login[n] \in {"exchanged", "login", "done"})
           => "exchange" \in served[n]
      /\ state[Cli(n)] = "LOGINED" /\ opts.cliNeedLogin => "login" \in served[n]
  BY DEF LoginInv, ClientIsServed
<1> QED
  BY <1>1, <1>2, LoginHeard

LEMMA NextKeyed ==
    ASSUME LoginInv, [Next]_vars
    PROVE  Keyed'
<1> SUFFICES ASSUME NEW n \in Conns
             PROVE  /\ opts'.useCipher /\ (state'[Cli(n)] \in Coded \/ login'[n] \in {"exchanged", "login", "done"})
                         => cipher'[Cli(n)].key \in Conns
                    /\ "exchange" \in served'[n] => cipher'[opts'.cryptoOf[n]].key \in Conns
  BY DEF Keyed
<1>0. TypeOK /\ Cli(n) \in AllCiphers /\ opts.cryptoOf[n] \in AllCiphers /\ opts' = opts
  BY CiphersAre, HistoryGrows DEF LoginInv
<1>1. /\ opts.useCipher /\ (state[Cli(n)] \in Coded \/ login[n] \in {"exchanged", "login", "done"})
           => cipher[Cli(n)].key \in Conns
      /\ "exchange" \in served[n] => cipher[opts.cryptoOf[n]].key \in Conns
  BY DEF LoginInv, Keyed
<1>2. FinishExchange(n) => cipher'[Cli(n)].key \in Conns
  BY <1>0, SecretSets DEF FinishExchange
<1>3. Execute(n, "exchange") => cipher'[opts.cryptoOf[n]].key \in Conns
  BY <1>0, SecretSets DEF Execute
<1>4. "exchange" \in served'[n] => "exchange" \in served[n] \/ Execute(n, "exchange")
  BY HistoryGrows, RoutinesAre
<1> QED
  BY <1>0, <1>1, <1>2, <1>3, <1>4, KeysStay, LoginHeard

(* What was over stays over *)
LEMMA OverStays ==
    ASSUME LoginInv, [Next]_vars, NEW n \in Conns
    PROVE  /\ ExchangeServed(n) => ExchangeServed(n)'
           /\ ExchangeOver(n) => ExchangeOver(n)'
           /\ LoginOver(n) => LoginOver(n)'
           /\ ReaderOver(n) => ReaderOver(n)'
<1>1. ReaderOver(n) => ReaderOver(n)'
  BY EndsAre, ConnMoves DEF ReaderOver
<1>2. \A w \in What : Over(n, w) => Over(n, w)'
  BY HistoryGrows DEF Over
<1> QED
  BY <1>1, <1>2, HistoryGrows, RoutinesAre DEF ExchangeServed, ExchangeOver, LoginOver

(* The hub's state lets packets through after the ack of what it waits for *)
LEMMA HubState ==
    ASSUME LoginInv, [Next]_vars, NEW n \in Conns
    PROVE  /\ state'[Hub(n)] = "DISCONNECT" => conn'[Hub(n)] # "open"
           /\ state'[Hub(n)] \in Coded => ExchangeServed(n) /\ (ExchangeOver(n) \/ ReaderOver(n))
           /\ state'[Hub(n)] = "LOGINED" => LoginOver(n)
<1>0. TypeOK /\ Hub(n) \in Ends
  BY EndsAre DEF LoginInv
<1>1. /\ state[Hub(n)] = "DISCONNECT" => conn[Hub(n)] # "open"
      /\ state[Hub(n)] \in Coded => ExchangeServed(n) /\ (ExchangeOver(n) \/ ReaderOver(n))
      /\ state[Hub(n)] = "LOGINED" => LoginOver(n)
      /\ job[n]["login"] # "none" => ExchangeServed(n) /\ (ExchangeOver(n) \/ ReaderOver(n))
  BY DEF LoginInv, HubLetsThrough
<1>2. CASE state'[Hub(n)] = state[Hub(n)]
  BY <1>0, <1>1, <1>2, ConnMoves
<1>3. CASE Disconnect(Hub(n)) /\ state'[Hub(n)] = "DISCONNECT"
  BY <1>0, <1>3, ConnMoves DEF Coded
<1>4. ASSUME NEW w \in What, Finish(n, w)
      PROVE  /\ state'[Hub(n)] \in Coded /\ ExchangeServed(n) /\ (ExchangeOver(n) \/ ReaderOver(n))
             /\ state'[Hub(n)] = "LOGINED" => LoginOver(n)
  <2>1. job[n][w] = "wait" /\ Over(n, w)
    BY <1>4 DEF Finish, AckCame, Over, LoginInv, ResponsesAreServed
  <2>2. state'[Hub(n)] = IF w = "exchange" THEN Exchanged(Hub(n)) ELSE "LOGINED"
    BY <1>0, <1>4 DEF Finish, TypeOK
  <2>3. Exchanged(Hub(n)) \in Coded /\ (opts.hubNeedLogin => Exchanged(Hub(n)) = "EXCHANGED_SECRET")
    BY DEF Exchanged, NeedLogin, Hub, Coded
  <2>4. CASE w = "exchange"
    BY <2>1, <2>2, <2>3, <2>4 DEF ExchangeServed, ExchangeOver, LoginOver, Over
  <2>5. CASE w = "login"
    BY <1>1, <2>1, <2>2, <2>5 DEF LoginOver, Coded
  <2> QED BY <2>4, <2>5 DEF What
<1>5. ASSUME NEW w \in What, Finish(n, w)
      PROVE  state'[Hub(n)] # "DISCONNECT"
  BY <1>4, <1>5 DEF Coded
<1> QED
  BY <1>2, <1>3, <1>4, <1>5, StatesMove

(* A login request, and the job for it, come after the exchange *)
LEMMA HubJob ==
    ASSUME LoginInv, [Next]_vars, NEW n \in Conns
    PROVE  /\ Asked(n)' => ExchangeServed(n)
           /\ <<"req", "login">> \in In(rx'[Hub(n)]) => ExchangeOver(n) \/ ReaderOver(n)'
           /\ job'[n]["login"] # "none" => ExchangeServed(n) /\ (ExchangeOver(n) \/ ReaderOver(n))
<1>0. TypeOK /\ Hub(n) \in Ends /\ Cli(n) \in Ends /\ Peer(Hub(n)) = Cli(n)
  BY EndsAre DEF LoginInv
<1>1. /\ state[Hub(n)] = "DISCONNECT" => conn[Hub(n)] # "open"
      /\ state[Hub(n)] \in Coded => ExchangeOver(n) \/ ReaderOver(n)
      /\ Asked(n) \/ job[n]["login"] # "none" => ExchangeServed(n)
      /\ <<"req", "login">> \in In(rx[Hub(n)]) \/ job[n]["login"] # "none" => ExchangeOver(n) \/ ReaderOver(n)
  BY DEF LoginInv, HubLetsThrough
<1>2. Asked(n)' => ExchangeServed(n)
  <2>1. StartLogin(n) => ExchangeServed(n)
    BY DEF StartLogin, ExchangeServed, LoginInv, ClientIsServed
  <2>2. ASSUME NEW g \in Routines, out'[Cli(n)][g] # Nil, out'[Cli(n)][g].kind = <<"req", "login">>
        PROVE  ExchangeServed(n)
    <3>1. CASE out'[Cli(n)][g] = out[Cli(n)][g]
      BY <1>1, <2>2, <3>1 DEF Asked
    <3>2. CASE StartLogin(n)
      BY <2>1, <3>2
    <3> QED BY <2>2, <3>1, <3>2, AsksMove
  <2>3. ASSUME NEW m \in In(wire'[Hub(n)]), m.kind = <<"req", "login">> PROVE ExchangeServed(n)
    <3>1. m \in In(wire[Hub(n)]) \/ \E g \in Routines : m = out[Cli(n)][g] /\ m # Nil
      BY <1>0, WireMoves
    <3> QED BY <1>1, <2>3, <3>1 DEF Asked
  <2>4. ASSUME <<"req", "login">> \in In(rx'[Hub(n)]) PROVE ExchangeServed(n)
    <3>1. <<"req", "login">> \in In(rx[Hub(n)]) \/ \E m \in In(wire[Hub(n)]) : m.kind = <<"req", "login">>
      BY <1>0, <2>4, RxMoves
    <3> QED BY <1>1, <3>1 DEF Asked
  <2> QED
    BY <2>2, <2>3, <2>4 DEF Asked, In
<1>3. ASSUME <<"req", "login">> \in In(rx'[Hub(n)]) PROVE ExchangeOver(n) \/ ReaderOver(n)'
  <2>1. \/ <<"req", "login">> \in In(rx[Hub(n)])
        \/ Read(Hub(n)) /\ LetThrough(state[Hub(n)], <<"req", "login">>)
    BY <1>0, <1>3, RxMoves
  <2>2. CASE <<"req", "login">> \in In(rx[Hub(n)])
    BY <1>1, <2>2, OverStays
  <2>3. CASE Read(Hub(n)) /\ LetThrough(state[Hub(n)], <<"req", "login">>)
    <3>1. state[Hub(n)] \in Coded \cup {"DISCONNECT"}
      BY <1>0, <2>3 DEF LetThrough, TypeOK, States, Coded
    <3>2. CASE state[Hub(n)] \in Coded
      BY <1>1, <3>2, OverStays
    <3>3. CASE state[Hub(n)] = "DISCONNECT"
      <4>1. conn[Hub(n)] = "closed"
        BY <1>0, <1>1, <2>3, <3>3 DEF Read, TypeOK
      <4> QED BY <1>0, <2>3, <4>1, ConnMoves DEF ReaderOver
    <3> QED BY <3>1, <3>2, <3>3
  <2> QED BY <2>1, <2>2, <2>3
<1>4. ASSUME job'[n]["login"] # "none" PROVE ExchangeServed(n) /\ (ExchangeOver(n) \/ ReaderOver(n))
  <2>1. OnReceiveRequest(n, "login") => <<"req", "login">> \in In(rx[Hub(n)])
    BY HandlesWhatCame, RoutinesAre
  <2>2. OnReceiveRequest(n, "login") => Asked(n)
    BY <2>1 DEF Asked
  <2>3. Execute(n, "login") \/ Reply(n, "login") \/ Finish(n, "login") \/ GiveUp(n, "login")
          => job[n]["login"] # "none"
    BY DEF Execute, Reply, Finish, GiveUp
  <2>4. \/ job'[n]["login"] = job[n]["login"]
        \/ OnReceiveRequest(n, "login") \/ Execute(n, "login") \/ Reply(n, "login")
        \/ Finish(n, "login") \/ GiveUp(n, "login")
    BY JobsMove, RoutinesAre
  <2> QED BY <1>1, <1>4, <2>1, <2>2, <2>3, <2>4
<1> QED
  BY <1>2, <1>3, <1>4

LEMMA NextHub ==
    ASSUME LoginInv, [Next]_vars
    PROVE  HubLetsThrough'
<1> SUFFICES ASSUME NEW n \in Conns
             PROVE  /\ state'[Hub(n)] = "DISCONNECT" => conn'[Hub(n)] # "open"
                    /\ state'[Hub(n)] \in Coded => ExchangeServed(n)' /\ (ExchangeOver(n)' \/ ReaderOver(n)')
                    /\ state'[Hub(n)] = "LOGINED" => LoginOver(n)'
                    /\ Asked(n)' \/ job'[n]["login"] # "none" => ExchangeServed(n)'
                    /\ <<"req", "login">> \in In(rx'[Hub(n)]) \/ job'[n]["login"] # "none"
                         => ExchangeOver(n)' \/ ReaderOver(n)'
                    /\ passed'[n] \in {"no", "LOGINED", "DISCONNECT"}
                    /\ passed'[n] = "LOGINED" => ExchangeOver(n)' /\ LoginOver(n)'
  BY DEF HubLetsThrough, In
<1>1. /\ passed[n] \in {"no", "LOGINED", "DISCONNECT"}
      /\ passed[n] = "LOGINED" => ExchangeOver(n) /\ LoginOver(n)
      /\ state[Hub(n)] = "LOGINED" => (ExchangeOver(n) \/ ReaderOver(n)) /\ LoginOver(n)
  BY DEF LoginInv, HubLetsThrough, Coded
<1>2. passed'[n] \in {"no", "LOGINED", "DISCONNECT"} /\ (passed'[n] = "LOGINED" => ExchangeOver(n) /\ LoginOver(n))
  <2>1. LetThrough(state[Hub(n)], <<"pub", "app">>) => state[Hub(n)] \in {"LOGINED", "DISCONNECT"}
    BY DEF LetThrough
  <2> QED BY <1>1, <2>1, PassedMoves DEF ReaderOver
<1> QED
  BY <1>2, HubState, HubJob, OverStays

LEMMA LoginAlways == Spec => []LoginInv
<1>1. LoginInv /\ [Next]_vars => LoginInv'
  BY NextTyped, NextKeyed, NextResponses, NextClient, NextHub DEF LoginInv
<1> QED
  BY <1>1, InitLogin, PTL DEF Spec

-----------------------------------------------------------------------------
(* Both ends, their queues and jobs keep their types, whoever sends what   *)
(* when; no end encodes before it has a key (client.go:264, 653-669).      *)
THEOREM Typed == Spec => []TypeOK
<1>1. LoginInv => TypeOK
  BY DEF LoginInv
<1> QED
  BY <1>1, LoginAlways, PTL

(* A client that says "login succeeded" was served by the hub (client.go:  *)
(* 280, 680-701): responses answer requests that were served, although     *)
(* they are repeated and cross each other.                                 *)
THEOREM LoginServed == Spec => []LoginedIsServed
<1>1. LoginInv => LoginedIsServed
  BY OptionsType DEF LoginInv, ClientIsServed, Coded, LoginedIsServed
<1> QED
  BY <1>1, LoginAlways, PTL

(* The hub lets no publication through before the login it needs and the   *)
(* exchange are served, and acked unless the Client is disposed (client.go:*)
(* 214-236), as long as the connection is not closed: receiveMessage reads *)
(* a state that a job has reached after SendPacketWithRetry only.          *)
THEOREM PublishedAfterLogin == Spec => []PublishAfterLogin
<1>1. LoginInv => PublishAfterLogin
  BY DEF LoginInv, HubLetsThrough, ExchangeOver, LoginOver, PublishAfterLogin
<1> QED
  BY <1>1, LoginAlways, PTL
=============================================================================
