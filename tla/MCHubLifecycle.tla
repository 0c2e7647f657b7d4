--------------------------- MODULE MCHubLifecycle ---------------------------
(* Instances of HubLifecycle for TLC: two connections, one room.  Their    *)
(* peers log in under ids of their own or under the same id, into the room *)
(* or the world; one may log in twice, as the same or as somebody else.    *)
EXTENDS HubLifecycle, TLC

CONSTANTS n1, n2, i1, i2, r1, a1, a2

InR1  == [id |-> i1, room |-> r1]
InAll == [id |-> i1, room |-> World]
Other == [id |-> i2, room |-> World]

(* The first asks for p and q, the second for r *)
Asks(p, q, r) == (n1 :> (a1 :> p @@ a2 :> q)) @@ (n2 :> (a1 :> r @@ a2 :> Nil))

Opts(asks, need, fail, publish) ==
    [login |-> asks, needLogin |-> need, mayFail |-> fail, publishing |-> publish]

AllCases == {
    Opts(Asks(InR1, Nil, Other), TRUE, {n1}, {n1}),
    Opts(Asks(InR1, Nil, InAll), TRUE, {n1}, {}),
    Opts(Asks(InR1, InR1, Nil), TRUE, {n1}, {n1}),
    Opts(Asks(InR1, Other, InR1), TRUE, {}, {}),
    Opts(Asks(InR1, Other, Nil), TRUE, {}, {n1}),
    Opts(Asks(InR1, Nil, InR1), FALSE, {n1}, {})}

SameRoom == {Opts(Asks(InR1, Nil, InR1), TRUE, {}, {})}
=============================================================================
