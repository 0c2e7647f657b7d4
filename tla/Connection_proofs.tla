-------------------------- MODULE Connection_proofs --------------------------
(***************************************************************************)
(* For queues and sockets of any size and any number of messages: only a   *)
(* connection that was accepted is registered, and it leaves (whatever the *)
(* timeout of the login check and whoever closes), and the connection is a *)
(* Channel.  The first rests on AcceptInv, the second on ChannelInv, which *)
(* says of each lane which of the messages that were accepted are on their *)
(* way, and of each buffer that it keeps their order.                      *)
(***************************************************************************)
EXTENDS Connection, TLAPS

(* What ClientsAreLive rests on: nobody but the accepting goroutine acts   *)
(* on a connection until it is started, so that it is open when it is      *)
(* registered, and it comes that far only with an accepted login.          *)
NotStarted == accept \in {"auth", "refuse", "register", "connect", "start"}

QuietBefore ==
    /\ NotStarted => reader = "none" /\ writer = "none"
    /\ accept \in {"auth", "refuse", "register", "connect"} => client = "none"
    /\ accept \in {"auth", "refuse", "register"} => closing = "open" /\ ~registered

AcceptedFirst ==
    \/ accept \in {"register", "connect", "start"} \/ client # "none"
    \/ reader # "none" \/ writer # "none" \/ registered \/ delivered["in"] # <<>>
    => auth = "ok"

AcceptInv == TypeOK /\ QuietBefore /\ AcceptedFirst /\ ClientsAreLive

-----------------------------------------------------------------------------
LEMMA TakenTyped ==
    ASSUME NEW S, NEW q \in Seq(S), q # <<>>
    PROVE  Head(q) \in S /\ Tail(q) \in Seq(S) /\ Len(q) \in Nat /\ Len(Tail(q)) = Len(q) - 1
OBVIOUS

LEMMA PutTyped ==
    ASSUME NEW S, NEW q \in Seq(S), NEW e \in S
    PROVE  Append(q, e) \in Seq(S) /\ Len(q) \in Nat /\ Len(Append(q, e)) = Len(q) + 1
OBVIOUS

LEMMA InitAccept == Init => AcceptInv
<1> SUFFICES ASSUME Init PROVE AcceptInv
  OBVIOUS
<1>1. 0 \in Msgs
  BY ConnectionAssumption DEF Msgs
<1>2. TypeOK
  <2>1. \A S : <<>> \in Seq(S)
    OBVIOUS
  <2>2. <<0>> \in Seq(Msgs)
    BY <1>1
  <2>3. wireIn \in Seq(Msgs) /\ wireOut \in Seq({"queued", "direct"} \X Msgs)
    BY <2>1, <2>2 DEF Init
  <2>4. txQueue \in Seq(Msgs) /\ rxQueue \in Seq(Msgs)
    BY <2>1 DEF Init
  <2>5. Len(wireOut) <= WireLen /\ Len(txQueue) <= TxLen /\ Len(rxQueue) <= RxLen
    BY ConnectionAssumption DEF Init
  <2>6. accepted \in [Lanes -> Seq(Msgs)] /\ delivered \in [Lanes -> Seq(Msgs)]
    BY <2>1 DEF Init
  <2>7. tries \in [Lanes -> Msgs] /\ inHand \in Msgs /\ outHand \in Msgs
    BY <1>1 DEF Init
  <2> QED BY <2>3, <2>4, <2>5, <2>6, <2>7 DEF Init, TypeOK
<1>3. QuietBefore /\ AcceptedFirst /\ ClientsAreLive
  BY DEF Init, QuietBefore, NotStarted, AcceptedFirst, ClientsAreLive, Lanes
<1> QED BY <1>2, <1>3 DEF AcceptInv

-----------------------------------------------------------------------------
(* TypeOK, action by action *)

LEMMA CloseTyped ==
    ASSUME TypeOK, Close
    PROVE  socket' \in {"up", "shut", "broken"} /\ closing' \in {"open", "listeners", "clear", "release", "closed"}
BY DEF TypeOK, Close

LEMMA AcceptTyped ==
    ASSUME TypeOK, Accept \/ Auth
    PROVE  TypeOK'
<1>1. CASE AuthEnds
  BY <1>1 DEF TypeOK, AuthEnds, app, wire, hist
<1>2. CASE Refuse
  BY <1>2, CloseTyped DEF TypeOK, Refuse, app, wire, hist
<1>3. CASE Register
  BY <1>3 DEF TypeOK, Register, app, wire, hist
<1>4. CASE Connect
  BY <1>4 DEF TypeOK, Connect, wire, hist
<1>5. CASE StartReadWrite
  BY <1>5 DEF TypeOK, StartReadWrite, app, wire, hist
<1>6. CASE AuthReads
  <2>1. wireIn' \in Seq(Msgs) /\ auth' \in {"read", "check", "ok", "bad"}
    BY <1>6, TakenTyped DEF TypeOK, AuthReads
  <2> QED BY <2>1, <1>6 DEF TypeOK, AuthReads, app, hist
<1>7. CASE AuthChecks
  BY <1>7 DEF TypeOK, AuthChecks, app, wire, hist
<1> QED BY <1>1, <1>2, <1>3, <1>4, <1>5, <1>6, <1>7 DEF Accept, Auth

LEMMA ReaderTyped ==
    ASSUME TypeOK, Reader
    PROVE  TypeOK'
<1>1. CASE ReaderLooks
  BY <1>1 DEF TypeOK, ReaderLooks, app, wire, hist
<1>2. CASE ReaderReads
  <2>1. wireIn' \in Seq(Msgs) /\ inHand' \in Msgs
    BY <1>2, TakenTyped DEF TypeOK, ReaderReads
  <2>2. reader' \in {"none", "top", "read", "hand", "close", "wait", "ended"}
    BY <1>2 DEF ReaderReads
  <2> QED BY <2>1, <2>2, <1>2 DEF TypeOK, ReaderReads, app, hist
<1>3. CASE ReaderHands
  <2>1. rxQueue' \in Seq(Msgs) /\ Len(rxQueue') <= RxLen
    BY <1>3, PutTyped, ConnectionAssumption DEF TypeOK, ReaderHands
  <2>2. delivered' \in [Lanes -> Seq(Msgs)]
    <3>1. Append(delivered["in"], inHand) \in Seq(Msgs)
      BY PutTyped DEF TypeOK, Lanes
    <3> QED BY <3>1, <1>3 DEF TypeOK, ReaderHands
  <2> QED BY <2>1, <2>2, <1>3 DEF TypeOK, ReaderHands, wire
<1>4. CASE ReaderCloses
  BY <1>4, CloseTyped DEF TypeOK, ReaderCloses, app, wire, hist
<1> QED BY <1>1, <1>2, <1>3, <1>4 DEF Reader

LEMMA WriterTyped ==
    ASSUME TypeOK, Writer
    PROVE  TypeOK'
<1>0. WriterLeaves \in {"close", "ended"}
  BY DEF WriterLeaves
<1>1. CASE WriterTakes
  <2>1. txQueue' \in Seq(Msgs) /\ outHand' \in Msgs /\ Len(txQueue') <= TxLen
    <3>1. CASE txQueue # <<>>
      <4>1. /\ Head(txQueue) \in Msgs /\ Tail(txQueue) \in Seq(Msgs)
            /\ Len(Tail(txQueue)) = Len(txQueue) - 1 /\ Len(txQueue) \in Nat
        BY <3>1, TakenTyped DEF TypeOK
      <4>2. Len(Tail(txQueue)) <= TxLen /\ txQueue \in Seq(Msgs) /\ Len(txQueue) <= TxLen
        BY <4>1, ConnectionAssumption DEF TypeOK
      <4>3. outHand \in Msgs
        BY DEF TypeOK
      <4> QED BY <4>1, <4>2, <4>3, <1>1 DEF WriterTakes
    <3>2. CASE txQueue = <<>>
      BY <3>2, <1>1 DEF TypeOK, WriterTakes
    <3> QED BY <3>1, <3>2
  <2>2. writer' \in {"none", "take", "write", "close", "wait", "ended"}
    BY <1>0, <1>1 DEF WriterTakes
  <2> QED BY <2>1, <2>2, <1>1 DEF TypeOK, WriterTakes, app, wire, hist
<1>2. CASE WriterWrites
  <2>1. <<"queued", outHand>> \in {"queued", "direct"} \X Msgs
    BY DEF TypeOK
  <2>2. wireOut' \in Seq({"queued", "direct"} \X Msgs) /\ Len(wireOut') <= WireLen
    <3>1. /\ wireOut \in Seq({"queued", "direct"} \X Msgs)
          /\ Len(wireOut) <= WireLen /\ WireLen \in Nat
      BY ConnectionAssumption DEF TypeOK
    <3>2. /\ Append(wireOut, <<"queued", outHand>>) \in Seq({"queued", "direct"} \X Msgs)
          /\ Len(wireOut) \in Nat
          /\ Len(Append(wireOut, <<"queued", outHand>>)) = Len(wireOut) + 1
      BY <2>1, <3>1, PutTyped
    <3>3. wireOut' = wireOut
          \/ (Len(wireOut) < WireLen /\ wireOut' = Append(wireOut, <<"queued", outHand>>))
      BY <1>2 DEF WriterWrites
    <3> QED BY <3>1, <3>2, <3>3
  <2>3. writer' \in {"none", "take", "write", "close", "wait", "ended"}
    BY <1>0, <1>2 DEF WriterWrites
  <2> QED BY <2>2, <2>3, <1>2 DEF TypeOK, WriterWrites, app, hist
<1>3. CASE WriterCloses
  BY <1>3, CloseTyped DEF TypeOK, WriterCloses, app, wire, hist
<1> QED BY <1>1, <1>2, <1>3 DEF Writer

LEMMA ClientTyped ==
    ASSUME TypeOK, SendMessage \/ SendMessageDirect \/ Dispose \/ Actor \/ RunLoop
    PROVE  TypeOK'
<1>1. CASE SendMessage
  <2>1. tries' \in [Lanes -> Msgs] /\ tries'["queued"] \in Msgs
    <3>1. tries["queued"] \in Msgs /\ tries["queued"] < MaxMsgs
      BY <1>1 DEF TypeOK, SendMessage, Lanes
    <3>2. tries["queued"] + 1 \in Msgs
      BY <3>1, ConnectionAssumption DEF Msgs
    <3> QED BY <3>2, <1>1 DEF TypeOK, SendMessage, Lanes
  <2>2. txQueue' \in Seq(Msgs) /\ Len(txQueue') <= TxLen
    <3>1. txQueue \in Seq(Msgs) /\ Len(txQueue) <= TxLen /\ TxLen \in Nat
      BY ConnectionAssumption DEF TypeOK
    <3>2. /\ Append(txQueue, tries'["queued"]) \in Seq(Msgs) /\ Len(txQueue) \in Nat
          /\ Len(Append(txQueue, tries'["queued"])) = Len(txQueue) + 1
      BY <2>1, <3>1, PutTyped
    <3>3. txQueue' = txQueue
          \/ (Len(txQueue) < TxLen /\ txQueue' = Append(txQueue, tries'["queued"]))
      BY <1>1 DEF SendMessage
    <3> QED BY <3>1, <3>2, <3>3
  <2>3. accepted' \in [Lanes -> Seq(Msgs)]
    <3>1. Append(accepted["queued"], tries'["queued"]) \in Seq(Msgs)
      BY <2>1, PutTyped DEF TypeOK, Lanes
    <3> QED BY <3>1, <1>1 DEF TypeOK, SendMessage
  <2> QED BY <2>1, <2>2, <2>3, <1>1 DEF TypeOK, SendMessage, app, wire
<1>2. CASE SendMessageDirect
  <2>1. tries' \in [Lanes -> Msgs] /\ tries'["direct"] \in Msgs
    <3>1. tries["direct"] \in Msgs /\ tries["direct"] < MaxMsgs
      BY <1>2 DEF TypeOK, SendMessageDirect, Lanes
    <3>2. tries["direct"] + 1 \in Msgs
      BY <3>1, ConnectionAssumption DEF Msgs
    <3> QED BY <3>2, <1>2 DEF TypeOK, SendMessageDirect, Lanes
  <2>2. <<"direct", tries'["direct"]>> \in {"queued", "direct"} \X Msgs
    BY <2>1
  <2>3. wireOut' \in Seq({"queued", "direct"} \X Msgs) /\ Len(wireOut') <= WireLen
    <3>1. /\ wireOut \in Seq({"queued", "direct"} \X Msgs)
          /\ Len(wireOut) <= WireLen /\ WireLen \in Nat
      BY ConnectionAssumption DEF TypeOK
    <3>2. /\ Append(wireOut, <<"direct", tries'["direct"]>>) \in Seq({"queued", "direct"} \X Msgs)
          /\ Len(wireOut) \in Nat
          /\ Len(Append(wireOut, <<"direct", tries'["direct"]>>)) = Len(wireOut) + 1
      BY <2>2, <3>1, PutTyped
    <3>3. wireOut' = wireOut
          \/ (Len(wireOut) < WireLen /\ wireOut' = Append(wireOut, <<"direct", tries'["direct"]>>))
      BY <1>2 DEF SendMessageDirect
    <3> QED BY <3>1, <3>2, <3>3
  <2>4. accepted' \in [Lanes -> Seq(Msgs)]
    <3>1. Append(accepted["direct"], tries'["direct"]) \in Seq(Msgs)
      BY <2>1, PutTyped DEF TypeOK, Lanes
    <3> QED BY <3>1, <1>2 DEF TypeOK, SendMessageDirect
  <2> QED BY <2>1, <2>3, <2>4, <1>2 DEF TypeOK, SendMessageDirect, app
<1>3. CASE Dispose
  <2>1. /\ client' \in {"none", "up", "clearing", "disposing", "disposed"}
        /\ clearCh' \in BOOLEAN
    BY <1>3 DEF TypeOK, Dispose
  <2>2. /\ socket' \in {"up", "shut", "broken"}
        /\ closing' \in {"open", "listeners", "clear", "release", "closed"}
    BY <1>3, CloseTyped DEF TypeOK, Dispose
  <2> QED BY <2>1, <2>2, <1>3 DEF TypeOK, Dispose, wire, hist
<1>4. CASE RunLoop
  <2>1. rxQueue' \in Seq(Msgs) /\ Len(rxQueue') <= RxLen
    BY <1>4, TakenTyped, ConnectionAssumption DEF TypeOK, RunLoop
  <2> QED BY <2>1, <1>4 DEF TypeOK, RunLoop, wire, hist
<1>5. CASE Actor
  <2>1. clearCh' \in BOOLEAN /\ actor' \in {"up", "ended"}
    BY <1>5 DEF TypeOK, Actor
  <2> QED BY <2>1, <1>5 DEF TypeOK, Actor, wire, hist
<1> QED BY <1>1, <1>2, <1>3, <1>4, <1>5

LEMMA PeerTyped ==
    ASSUME TypeOK, PeerSends \/ PeerReads \/ PeerLeaves
    PROVE  TypeOK'
<1>1. CASE PeerSends
  <2>1. tries' \in [Lanes -> Msgs] /\ tries'["in"] \in Msgs
    <3>1. tries["in"] \in Msgs /\ tries["in"] < MaxMsgs
      BY <1>1 DEF TypeOK, PeerSends, Lanes
    <3>2. tries["in"] + 1 \in Msgs
      BY <3>1, ConnectionAssumption DEF Msgs
    <3> QED BY <3>2, <1>1 DEF TypeOK, PeerSends, Lanes
  <2>2. wireIn' \in Seq(Msgs)
    BY <2>1, <1>1, PutTyped DEF TypeOK, PeerSends
  <2>3. accepted' \in [Lanes -> Seq(Msgs)]
    <3>1. Append(accepted["in"], tries'["in"]) \in Seq(Msgs)
      BY <2>1, PutTyped DEF TypeOK, Lanes
    <3> QED BY <3>1, <1>1 DEF TypeOK, PeerSends
  <2> QED BY <2>1, <2>2, <2>3, <1>1 DEF TypeOK, PeerSends, app
<1>2. CASE PeerReads
  <2>1. Head(wireOut) \in {"queued", "direct"} \X Msgs
    BY <1>2, TakenTyped DEF TypeOK, PeerReads
  <2>2. Head(wireOut)[1] \in Lanes /\ Head(wireOut)[2] \in Msgs
    BY <2>1 DEF Lanes
  <2>3. delivered' \in [Lanes -> Seq(Msgs)]
    <3>1. Append(delivered[Head(wireOut)[1]], Head(wireOut)[2]) \in Seq(Msgs)
      BY <2>2, PutTyped DEF TypeOK
    <3> QED BY <3>1, <1>2 DEF TypeOK, PeerReads
  <2>4. wireOut' \in Seq({"queued", "direct"} \X Msgs) /\ Len(wireOut') <= WireLen
    BY <1>2, TakenTyped, ConnectionAssumption DEF TypeOK, PeerReads
  <2> QED BY <2>3, <2>4, <1>2 DEF TypeOK, PeerReads, app
<1>3. CASE PeerLeaves
  <2>1. PICK i \in 0..Len(wireIn) : wireIn' = SubSeq(wireIn, 1, i)
    BY <1>3 DEF PeerLeaves
  <2>2. wireIn' \in Seq(Msgs)
    BY <2>1 DEF TypeOK
  <2> QED BY <2>2, <1>3 DEF TypeOK, PeerLeaves, app, hist
<1> QED BY <1>1, <1>2, <1>3

LEMMA NextTyped == TypeOK /\ [Next]_vars => TypeOK'
<1> SUFFICES ASSUME TypeOK, [Next]_vars PROVE TypeOK'
  OBVIOUS
<1>1. CASE Listeners
  <2>1. closing' \in {"open", "listeners", "clear", "release", "closed"}
    BY <1>1 DEF Listeners, Returned
  <2>2. registered' \in BOOLEAN
    BY <1>1 DEF Listeners
  <2> QED BY <2>1, <2>2, <1>1 DEF TypeOK, Listeners, app, wire, hist
<1>2. CASE Release
  BY <1>2 DEF TypeOK, Release, app, wire, hist
<1>3. CASE ClearTopics
  <2>1. closing' \in {"closed", "release"}
    BY <1>3 DEF ClearTopics, Returned
  <2> QED BY <2>1, <1>3 DEF TypeOK, ClearTopics, wire, hist
<1>4. CASE UNCHANGED vars
  BY <1>4 DEF TypeOK, vars
<1> QED BY <1>1, <1>2, <1>3, <1>4, AcceptTyped, ReaderTyped, WriterTyped, ClientTyped, PeerTyped DEF Next

-----------------------------------------------------------------------------
(* The rest of the invariant *)

LEMMA AcceptKeeps ==
    ASSUME AcceptInv, Accept \/ Auth
    PROVE  QuietBefore' /\ AcceptedFirst' /\ ClientsAreLive'
<1> USE DEF AcceptInv, TypeOK, QuietBefore, NotStarted, AcceptedFirst, ClientsAreLive, app, wire, hist
<1>1. CASE AuthEnds
  BY <1>1 DEF AuthEnds
<1>2. CASE Refuse
  BY <1>2 DEF Refuse, Close
<1>3. CASE Register
  BY <1>3 DEF Register
<1>4. CASE Connect
  BY <1>4 DEF Connect
<1>5. CASE StartReadWrite
  BY <1>5 DEF StartReadWrite
<1>6. CASE AuthReads
  BY <1>6 DEF AuthReads
<1>7. CASE AuthChecks
  BY <1>7 DEF AuthChecks
<1> QED BY <1>1, <1>2, <1>3, <1>4, <1>5, <1>6, <1>7 DEF Accept, Auth

LEMMA GoroutinesKeep ==
    ASSUME AcceptInv, Reader \/ Writer \/ Listeners \/ ClearTopics \/ Release
    PROVE  QuietBefore' /\ AcceptedFirst' /\ ClientsAreLive'
<1> USE DEF AcceptInv, TypeOK, QuietBefore, NotStarted, AcceptedFirst, ClientsAreLive, app, wire, hist
<1>1. CASE ReaderLooks
  BY <1>1 DEF ReaderLooks
<1>2. CASE ReaderReads
  BY <1>2 DEF ReaderReads
<1>3. CASE ReaderHands
  BY <1>3 DEF ReaderHands
<1>4. CASE ReaderCloses
  BY <1>4 DEF ReaderCloses, Close
<1>5. CASE WriterTakes
  BY <1>5 DEF WriterTakes, WriterLeaves
<1>6. CASE WriterWrites
  BY <1>6 DEF WriterWrites, WriterLeaves
<1>7. CASE WriterCloses
  BY <1>7 DEF WriterCloses, Close
<1>8. CASE Listeners
  BY <1>8 DEF Listeners, Returned
<1>9. CASE Release
  BY <1>9 DEF Release
<1>10. CASE ClearTopics
  BY <1>10 DEF ClearTopics, Returned
<1> QED BY <1>1, <1>2, <1>3, <1>4, <1>5, <1>6, <1>7, <1>8, <1>9, <1>10 DEF Reader, Writer

LEMMA OthersKeep ==
    ASSUME AcceptInv,
           \/ SendMessage \/ SendMessageDirect \/ Dispose \/ Actor \/ RunLoop
           \/ PeerSends \/ PeerReads \/ PeerLeaves \/ UNCHANGED vars
    PROVE  QuietBefore' /\ AcceptedFirst' /\ ClientsAreLive'
<1> USE DEF AcceptInv, TypeOK, QuietBefore, NotStarted, AcceptedFirst, ClientsAreLive, app, wire, hist
<1>1. CASE SendMessage
  BY <1>1 DEF SendMessage
<1>2. CASE SendMessageDirect
  BY <1>2 DEF SendMessageDirect
<1>3. CASE Dispose
  BY <1>3 DEF Dispose, Close
<1>4. CASE RunLoop
  BY <1>4 DEF RunLoop
<1>5. CASE PeerSends
  BY <1>5 DEF PeerSends
<1>6. CASE PeerReads
  <2>1. Head(wireOut)[1] # "in"
    <3>1. Head(wireOut) \in {"queued", "direct"} \X Msgs
      BY <1>6, TakenTyped DEF PeerReads
    <3> QED BY <3>1
  <2>2. delivered'["in"] = delivered["in"]
    BY <2>1, <1>6 DEF PeerReads, Lanes
  <2> QED BY <2>2, <1>6 DEF PeerReads
<1>7. CASE PeerLeaves
  BY <1>7 DEF PeerLeaves
<1>8. CASE UNCHANGED vars
  BY <1>8 DEF vars
<1>9. CASE Actor
  BY <1>9 DEF Actor
<1> QED BY <1>1, <1>2, <1>3, <1>4, <1>5, <1>6, <1>7, <1>8, <1>9

LEMMA NextAccept == AcceptInv /\ [Next]_vars => AcceptInv'
BY NextTyped, AcceptKeeps, GoroutinesKeep, OthersKeep DEF AcceptInv, Next

LEMMA AcceptAlways == Spec => []AcceptInv
BY InitAccept, NextAccept, PTL DEF Spec

-----------------------------------------------------------------------------
(* What is on its way on a lane: in a socket, in the hand of a goroutine,  *)
(* and in txQueue as long as the writer can still write.                   *)
Values(q) == {q[j] : j \in 1..Len(q)}

OfLane(w, l) == {w[j][2] : j \in {k \in 1..Len(w) : w[k][1] = l}}

HeldIn == IF reader = "hand" THEN {inHand} ELSE {}

HeldOut == IF writer = "write" THEN {outHand} ELSE {}

Transit(l) ==
    IF l = "in" THEN (Values(wireIn) \ {0}) \cup HeldIn
    ELSE IF l = "queued" /\ socket = "up" THEN OfLane(wireOut, l) \cup HeldOut \cup Values(txQueue)
    ELSE OfLane(wireOut, l)

(* A lane with the messages a accepted, d delivered and T on their way, of *)
(* the n that were tried: d is a beginning of a, and T lacks nothing that  *)
(* was accepted between d and a message of T.                              *)
After(a, d) == (Len(d) + 1)..Len(a)

Line(a, d, T, n) ==
    /\ \A i \in 1..Len(a) : 1 <= a[i] /\ a[i] <= n
    /\ \A i, j \in 1..Len(a) : i < j => a[i] < a[j]
    /\ Len(d) <= Len(a) /\ \A i \in 1..Len(d) : d[i] = a[i]
    /\ \A m \in T : \E i \in After(a, d) : a[i] = m
    /\ \A m \in T : \A i \in After(a, d) : a[i] < m => a[i] \in T

Full(a, d, T) == \A i \in After(a, d) : a[i] \in T

LaneKept(l) ==
    /\ Line(accepted[l], delivered[l], Transit(l), tries[l])
    /\ socket = "up" => Full(accepted[l], delivered[l], Transit(l))

LinesKept == \A l \in Lanes : LaneKept(l)

(* Everywhere the messages of a lane are in order; only the login message  *)
(* may stand before those of the peer, until checkConnAuth takes it.       *)
Increasing(q) == \A j, k \in 1..Len(q) : j < k => q[j] < q[k]

LanesIncrease(w) == \A j, k \in 1..Len(w) : j < k /\ w[j][1] = w[k][1] => w[j][2] < w[k][2]

InboundInOrder ==
    /\ Increasing(wireIn)
    /\ \A h \in HeldIn : h # 0 /\ \A x \in Values(wireIn) : h < x
    /\ auth = "read" => (wireIn # <<>> /\ wireIn[1] = 0) \/ (wireIn = <<>> /\ socket # "up")
    /\ auth \in {"check", "ok"} => 0 \notin Values(wireIn)

OutboundInOrder ==
    /\ LanesIncrease(wireOut)
    /\ Increasing(txQueue) /\ \A x \in Values(txQueue) : x <= tries["queued"]
    /\ socket = "up" =>
         /\ \A m \in OfLane(wireOut, "queued"), x \in HeldOut \cup Values(txQueue) : m < x
         /\ \A h \in HeldOut, x \in Values(txQueue) : h < x

ChannelInv == AcceptInv /\ InboundInOrder /\ OutboundInOrder /\ LinesKept
-----------------------------------------------------------------------------
(* One lane: a message is tried, accepted, delivered, lost *)

LEMMA LineTried ==
    ASSUME NEW a \in Seq(Nat), NEW d \in Seq(Nat), NEW T, NEW n \in Nat, Line(a, d, T, n)
    PROVE  Line(a, d, T, n + 1)
<1>1. \A i \in 1..Len(a) : a[i] \in Nat
  OBVIOUS
<1> QED BY <1>1 DEF Line

LEMMA LineAccepted ==
    ASSUME NEW a \in Seq(Nat), NEW d \in Seq(Nat), NEW T, NEW U, NEW n \in Nat, Line(a, d, T, n),
           U = T \/ (U = T \cup {n + 1} /\ Full(a, d, T))
    PROVE  /\ Line(Append(a, n + 1), d, U, n + 1)
           /\ Full(a, d, T) /\ U = T \cup {n + 1} => Full(Append(a, n + 1), d, U)
<1> DEFINE b == Append(a, n + 1)
<1>1. /\ Len(b) = Len(a) + 1 /\ Len(a) \in Nat /\ Len(d) \in Nat /\ Len(d) <= Len(a)
      /\ \A i \in 1..Len(a) : b[i] = a[i] /\ a[i] \in Nat /\ 1 <= a[i] /\ a[i] <= n
      /\ b[Len(b)] = n + 1
  BY DEF Line
<1>0. \A i \in 1..(Len(a) + 1) : i \in 1..Len(a) \/ i = Len(a) + 1
  BY <1>1
<1>2. After(b, d) = After(a, d) \cup {Len(b)} /\ After(a, d) \subseteq 1..Len(a)
  BY <1>1 DEF After
<1> HIDE DEF b
<1>3. \A i \in 1..Len(b) : 1 <= b[i] /\ b[i] <= n + 1
  <2> SUFFICES ASSUME NEW i \in 1..Len(b) PROVE 1 <= b[i] /\ b[i] <= n + 1
    OBVIOUS
  <2>1. i \in 1..Len(a) \/ i = Len(b)
    BY <1>0, <1>1
  <2>2. CASE i \in 1..Len(a)
    <3>1. b[i] \in Nat /\ 1 <= b[i] /\ b[i] <= n
      BY <2>2, <1>1
    <3> QED BY <3>1
  <2>3. CASE i = Len(b)
    <3>1. b[i] = n + 1
      BY <2>3, <1>1
    <3> QED BY <3>1
  <2> QED BY <2>1, <2>2, <2>3
<1>4. \A i, j \in 1..Len(b) : i < j => b[i] < b[j]
  <2> SUFFICES ASSUME NEW i \in 1..Len(b), NEW j \in 1..Len(b), i < j PROVE b[i] < b[j]
    OBVIOUS
  <2>1. i \in 1..Len(a) /\ (j \in 1..Len(a) \/ j = Len(b))
    <3>1. i # Len(a) + 1
      BY <1>1
    <3> QED BY <3>1, <1>0, <1>1
  <2>2. CASE j \in 1..Len(a)
    <3>1. a[i] < a[j]
      BY <2>1, <2>2 DEF Line
    <3> QED BY <3>1, <2>1, <2>2, <1>1
  <2>3. CASE j = Len(b)
    BY <2>1, <2>3, <1>1
  <2> QED BY <2>1, <2>2, <2>3
<1>5. Len(d) <= Len(b) /\ \A i \in 1..Len(d) : d[i] = b[i]
  BY <1>1 DEF Line
<1>6. \A m \in U : \E i \in After(b, d) : b[i] = m
  <2>1. \A m \in T : \E i \in After(b, d) : b[i] = m
    <3> SUFFICES ASSUME NEW m \in T PROVE \E i \in After(b, d) : b[i] = m
      OBVIOUS
    <3>1. PICK i \in After(a, d) : a[i] = m
      BY DEF Line
    <3> QED BY <3>1, <1>1, <1>2
  <2>2. \E i \in After(b, d) : b[i] = n + 1
    BY <1>1, <1>2
  <2> QED BY <2>1, <2>2
<1>7. \A m \in U : \A i \in After(b, d) : b[i] < m => b[i] \in U
  <2> SUFFICES ASSUME NEW m \in U, NEW i \in After(b, d), b[i] < m PROVE b[i] \in U
    OBVIOUS
  <2>1. m <= n + 1 /\ m \in Nat
    <3>1. PICK k \in After(b, d) : b[k] = m
      BY <1>6
    <3>2. k \in 1..Len(b)
      BY <1>1, <1>2
    <3>3. k \in 1..Len(a) \/ k = Len(b)
      BY <3>2, <1>0, <1>1
    <3>4. b[k] \in Nat
      BY <3>3, <1>1
    <3> QED BY <3>1, <3>2, <3>4, <1>3
  <2>2. i # Len(b) /\ i \in After(a, d) /\ b[i] = a[i]
    BY <2>1, <1>1, <1>2
  <2>3. CASE m \in T
    BY <2>2, <2>3 DEF Line
  <2>4. CASE m \notin T
    BY <2>2, <2>4 DEF Full
  <2> QED BY <2>3, <2>4
<1>8. Line(b, d, U, n + 1)
  BY <1>3, <1>4, <1>5, <1>6, <1>7 DEF Line
<1>9. Full(a, d, T) /\ U = T \cup {n + 1} => Full(b, d, U)
  BY <1>1, <1>2 DEF Full
<1> QED BY <1>8, <1>9 DEF b

LEMMA LineDelivered ==
    ASSUME NEW a \in Seq(Nat), NEW d \in Seq(Nat), NEW T, NEW n, Line(a, d, T, n),
           NEW m \in T, \A x \in T : ~(x < m)
    PROVE  /\ Len(d) < Len(a) /\ m = a[Len(d) + 1]
           /\ Line(a, Append(d, m), T \ {m}, n)
           /\ Full(a, d, T) => Full(a, Append(d, m), T \ {m})
<1>1. PICK i \in After(a, d) : a[i] = m
  BY DEF Line
<1>2. /\ Len(a) \in Nat /\ Len(d) \in Nat /\ Len(d) <= Len(a)
      /\ \A k \in 1..Len(a) : a[k] \in Nat
      /\ After(a, d) \subseteq 1..Len(a) /\ i \in 1..Len(a) /\ Len(d) < Len(a)
      /\ Len(d) + 1 \in After(a, d) /\ Len(d) + 1 \in 1..Len(a) /\ Len(d) + 1 <= i
  BY <1>1 DEF Line, After
<1>3. i = Len(d) + 1
  <2>1. CASE Len(d) + 1 < i
    <3>1. a[Len(d) + 1] < m
      BY <1>1, <1>2, <2>1 DEF Line
    <3>2. a[Len(d) + 1] \in T
      BY <1>2, <3>1 DEF Line
    <3> QED BY <3>1, <3>2
  <2> QED BY <2>1, <1>2
<1> DEFINE e == Append(d, m)
<1>4. /\ Len(e) = Len(d) + 1 /\ \A k \in 1..Len(d) : e[k] = d[k]
      /\ e[Len(d) + 1] = m
  OBVIOUS
<1>5. After(a, d) = After(a, e) \cup {Len(d) + 1} /\ After(a, e) \subseteq After(a, d)
  BY <1>2, <1>4 DEF After
<1>6. \A k \in After(a, e) : m < a[k]
  <2> SUFFICES ASSUME NEW k \in After(a, e) PROVE m < a[k]
    OBVIOUS
  <2>1. k \in 1..Len(a) /\ i < k
    BY <1>2, <1>3, <1>4 DEF After
  <2> QED BY <2>1, <1>1, <1>2 DEF Line
<1> HIDE DEF e
<1>7. Len(e) <= Len(a) /\ \A k \in 1..Len(e) : e[k] = a[k]
  <2> SUFFICES ASSUME NEW k \in 1..Len(e) PROVE e[k] = a[k]
    BY <1>2, <1>4
  <2>1. k \in 1..Len(d) \/ k = Len(d) + 1
    BY <1>2, <1>4
  <2>2. CASE k \in 1..Len(d)
    BY <1>4, <2>2 DEF Line
  <2>3. CASE k = Len(d) + 1
    BY <1>1, <1>3, <1>4, <2>3
  <2> QED BY <2>1, <2>2, <2>3
<1>8. \A x \in T \ {m} : \E k \in After(a, e) : a[k] = x
  <2> SUFFICES ASSUME NEW x \in T \ {m} PROVE \E k \in After(a, e) : a[k] = x
    OBVIOUS
  <2>1. PICK k \in After(a, d) : a[k] = x
    BY DEF Line
  <2>2. k # Len(d) + 1
    BY <2>1, <1>1, <1>3
  <2> QED BY <2>1, <2>2, <1>5
<1>9. \A x \in T \ {m} : \A k \in After(a, e) : a[k] < x => a[k] \in T \ {m}
  <2> SUFFICES ASSUME NEW x \in T, NEW k \in After(a, e), a[k] < x PROVE a[k] \in T \ {m}
    OBVIOUS
  <2>1. a[k] \in T
    BY <1>5 DEF Line
  <2>2. m < a[k] /\ a[k] \in Nat /\ m \in Nat
    BY <1>1, <1>2, <1>5, <1>6
  <2> QED BY <2>1, <2>2
<1>10. Line(a, e, T \ {m}, n)
  BY <1>7, <1>8, <1>9 DEF Line
<1>11. Full(a, d, T) => Full(a, e, T \ {m})
  <2> SUFFICES ASSUME Full(a, d, T), NEW k \in After(a, e) PROVE a[k] \in T \ {m}
    BY DEF Full
  <2>1. m < a[k] /\ a[k] \in Nat /\ m \in Nat
    BY <1>1, <1>2, <1>5, <1>6
  <2> QED BY <2>1, <1>5 DEF Full
<1> QED BY <1>1, <1>2, <1>3, <1>10, <1>11 DEF e

LEMMA LineLost ==
    ASSUME NEW a, NEW d, NEW T, NEW n, Line(a, d, T, n), NEW U \in SUBSET T,
           \A x \in U, y \in T : y < x => y \in U
    PROVE  Line(a, d, U, n)
BY DEF Line

-----------------------------------------------------------------------------
(* The buffers: what is taken from the front is the least, what is put at  *)
(* the end is the largest.                                                 *)

LEMMA TakeFirst ==
    ASSUME NEW q \in Seq(Nat), q # <<>>
    PROVE  /\ Values(q) = Values(Tail(q)) \cup {Head(q)} /\ Head(q) = q[1]
           /\ Increasing(q) => Increasing(Tail(q)) /\ \A x \in Values(Tail(q)) : Head(q) < x
<1>1. /\ Len(q) \in Nat /\ Len(q) >= 1 /\ Len(Tail(q)) = Len(q) - 1 /\ Head(q) = q[1]
      /\ \A j \in 1..(Len(q) - 1) : Tail(q)[j] = q[j + 1]
  OBVIOUS
<1>2. \A j \in 1..(Len(q) - 1) : j + 1 \in 1..Len(q) /\ 1 < j + 1
  BY <1>1
<1>3. \A j \in 1..Len(q) : j = 1 \/ j - 1 \in 1..(Len(q) - 1)
  BY <1>1
<1>4. Values(q) = Values(Tail(q)) \cup {Head(q)}
  <2>1. ASSUME NEW x \in Values(q) PROVE x \in Values(Tail(q)) \cup {Head(q)}
    <3>1. PICK j \in 1..Len(q) : x = q[j]
      BY DEF Values
    <3>2. CASE j = 1
      BY <3>1, <3>2, <1>1
    <3>3. CASE j # 1
      <4>1. j - 1 \in 1..(Len(q) - 1) /\ (j - 1) + 1 = j
        BY <3>3, <1>3
      <4>2. Tail(q)[j - 1] = x
        BY <3>1, <4>1, <1>1
      <4> QED BY <4>1, <4>2, <1>1 DEF Values
    <3> QED BY <3>2, <3>3
  <2>2. Values(Tail(q)) \cup {Head(q)} \subseteq Values(q)
    <3>1. 1 \in 1..Len(q)
      BY <1>1
    <3> QED BY <1>1, <1>2, <3>1 DEF Values
  <2> QED BY <2>1, <2>2
<1>5. ASSUME Increasing(q) PROVE Increasing(Tail(q)) /\ \A x \in Values(Tail(q)) : Head(q) < x
  <2>1. Increasing(Tail(q))
    <3> SUFFICES ASSUME NEW j \in 1..(Len(q) - 1), NEW k \in 1..(Len(q) - 1), j < k
                 PROVE  Tail(q)[j] < Tail(q)[k]
      BY <1>1 DEF Increasing
    <3>1. j + 1 < k + 1 /\ j + 1 \in 1..Len(q) /\ k + 1 \in 1..Len(q)
      BY <1>2
    <3>2. q[j + 1] < q[k + 1]
      BY <3>1, <1>5 DEF Increasing
    <3> QED BY <3>2, <1>1
  <2>2. ASSUME NEW x \in Values(Tail(q)) PROVE Head(q) < x
    <3>1. PICK j \in 1..(Len(q) - 1) : x = Tail(q)[j]
      BY <1>1 DEF Values
    <3>2. x = q[j + 1] /\ 1 < j + 1 /\ j + 1 \in 1..Len(q) /\ 1 \in 1..Len(q)
      BY <3>1, <1>1, <1>2
    <3> QED BY <3>2, <1>1, <1>5 DEF Increasing
  <2> QED BY <2>1, <2>2
<1> QED BY <1>1, <1>4, <1>5

LEMMA PutLast ==
    ASSUME NEW q \in Seq(Nat), NEW e \in Nat
    PROVE  /\ Values(Append(q, e)) = Values(q) \cup {e}
           /\ Increasing(q) /\ (\A x \in Values(q) : x < e) => Increasing(Append(q, e))
           /\ q # <<>> => Append(q, e)[1] = q[1]
<1> DEFINE r == Append(q, e)
<1>1. /\ Len(q) \in Nat /\ Len(r) = Len(q) + 1 /\ r[Len(q) + 1] = e
      /\ \A j \in 1..Len(q) : r[j] = q[j]
      /\ q # <<>> => 1 \in 1..Len(q)
  OBVIOUS
<1> HIDE DEF r
<1>2. \A j \in 1..(Len(q) + 1) : j \in 1..Len(q) \/ j = Len(q) + 1
  BY <1>1
<1>6. \A j \in 1..Len(q) : j \in 1..Len(r) /\ j # Len(q) + 1
  BY <1>1
<1>7. Len(q) + 1 \in 1..Len(r)
  BY <1>1
<1>3. Values(r) = Values(q) \cup {e}
  BY <1>1, <1>2, <1>6, <1>7 DEF Values
<1>4. ASSUME Increasing(q), \A x \in Values(q) : x < e PROVE Increasing(r)
  <2> SUFFICES ASSUME NEW j \in 1..Len(r), NEW k \in 1..Len(r), j < k PROVE r[j] < r[k]
    BY DEF Increasing
  <2>1. j \in 1..Len(q)
    BY <1>1
  <2>2. CASE k \in 1..Len(q)
    BY <2>1, <2>2, <1>1, <1>4 DEF Increasing
  <2>3. CASE k = Len(q) + 1
    BY <2>1, <2>3, <1>1, <1>4 DEF Values
  <2> QED BY <1>1, <1>2, <2>2, <2>3
<1> QED BY <1>1, <1>3, <1>4 DEF r

OutMessages == {"queued", "direct"} \X Nat

LEMMA TakeFirstOut ==
    ASSUME NEW w \in Seq(OutMessages), w # <<>>, LanesIncrease(w)
    PROVE  /\ \A l \in Lanes \ {Head(w)[1]} : OfLane(Tail(w), l) = OfLane(w, l)
           /\ OfLane(Tail(w), Head(w)[1]) = OfLane(w, Head(w)[1]) \ {Head(w)[2]}
           /\ Head(w)[2] \in OfLane(w, Head(w)[1])
           /\ \A x \in OfLane(Tail(w), Head(w)[1]) : Head(w)[2] < x
           /\ LanesIncrease(Tail(w))
<1>1. /\ Len(w) \in Nat /\ Len(w) >= 1 /\ Len(Tail(w)) = Len(w) - 1 /\ Head(w) = w[1]
      /\ \A j \in 1..(Len(w) - 1) : Tail(w)[j] = w[j + 1]
      /\ \A j \in 1..Len(w) : w[j] \in OutMessages
  OBVIOUS
<1>2. \A j \in 1..(Len(w) - 1) : j + 1 \in 1..Len(w) /\ 1 < j + 1
  BY <1>1
<1>3. \A j \in 1..Len(w) : j = 1 \/ (j - 1 \in 1..(Len(w) - 1) /\ (j - 1) + 1 = j)
  BY <1>1
<1>4. 1 \in 1..Len(w) /\ w[1][2] \in Nat
  BY <1>1 DEF OutMessages
<1>5. ASSUME NEW l PROVE /\ OfLane(Tail(w), l) \subseteq OfLane(w, l)
                         /\ \A x \in OfLane(w, l) : x \in OfLane(Tail(w), l) \/ (l = w[1][1] /\ x = w[1][2])
  <2>1. OfLane(Tail(w), l) \subseteq OfLane(w, l)
    BY <1>1, <1>2 DEF OfLane
  <2>2. ASSUME NEW x \in OfLane(w, l) PROVE x \in OfLane(Tail(w), l) \/ (l = w[1][1] /\ x = w[1][2])
    <3>1. PICK j \in 1..Len(w) : w[j][1] = l /\ x = w[j][2]
      BY DEF OfLane
    <3>2. CASE j = 1
      BY <3>1, <3>2
    <3>3. CASE j # 1
      <4>1. j - 1 \in 1..(Len(w) - 1) /\ Tail(w)[j - 1] = w[j]
        BY <3>3, <1>1, <1>3
      <4> QED BY <3>1, <4>1, <1>1 DEF OfLane
    <3> QED BY <3>2, <3>3
  <2> QED BY <2>1, <2>2
<1>6. ASSUME NEW x \in OfLane(Tail(w), w[1][1]) PROVE w[1][2] < x /\ x # w[1][2]
  <2>1. PICK j \in 1..(Len(w) - 1) : Tail(w)[j][1] = w[1][1] /\ x = Tail(w)[j][2]
    BY <1>1 DEF OfLane
  <2>2. w[j + 1][1] = w[1][1] /\ x = w[j + 1][2] /\ 1 < j + 1 /\ j + 1 \in 1..Len(w)
    BY <2>1, <1>1, <1>2
  <2>3. w[1][2] < x
    BY <2>2, <1>4 DEF LanesIncrease
  <2> QED BY <2>3, <1>4
<1>7. LanesIncrease(Tail(w))
  <2> SUFFICES ASSUME NEW j \in 1..(Len(w) - 1), NEW k \in 1..(Len(w) - 1), j < k,
                      Tail(w)[j][1] = Tail(w)[k][1]
               PROVE  Tail(w)[j][2] < Tail(w)[k][2]
    BY <1>1 DEF LanesIncrease
  <2>1. j + 1 < k + 1 /\ j + 1 \in 1..Len(w) /\ k + 1 \in 1..Len(w)
    BY <1>2
  <2>2. Tail(w)[j] = w[j + 1] /\ Tail(w)[k] = w[k + 1]
    BY <1>1
  <2> QED BY <2>1, <2>2 DEF LanesIncrease
<1>8. w[1][2] \in OfLane(w, w[1][1])
  BY <1>4 DEF OfLane
<1>9. \A l \in Lanes \ {w[1][1]} : OfLane(Tail(w), l) = OfLane(w, l)
  <2> SUFFICES ASSUME NEW l \in Lanes \ {w[1][1]} PROVE OfLane(Tail(w), l) = OfLane(w, l)
    OBVIOUS
  <2>1. OfLane(Tail(w), l) \subseteq OfLane(w, l)
    BY <1>5
  <2>2. ASSUME NEW x \in OfLane(w, l) PROVE x \in OfLane(Tail(w), l)
    BY <1>5
  <2> QED BY <2>1, <2>2
<1>10. OfLane(Tail(w), w[1][1]) = OfLane(w, w[1][1]) \ {w[1][2]}
  <2>1. OfLane(Tail(w), w[1][1]) \subseteq OfLane(w, w[1][1]) \ {w[1][2]}
    BY <1>5, <1>6
  <2>2. OfLane(w, w[1][1]) \ {w[1][2]} \subseteq OfLane(Tail(w), w[1][1])
    BY <1>5
  <2> QED BY <2>1, <2>2
<1>11. Head(w) = w[1]
  BY <1>1
<1>12. \A x \in OfLane(Tail(w), w[1][1]) : w[1][2] < x
  BY <1>6
<1> QED BY <1>7, <1>8, <1>9, <1>10, <1>11, <1>12

LEMMA PutLastOut ==
    ASSUME NEW w \in Seq(OutMessages), LanesIncrease(w), NEW l \in {"queued", "direct"}, NEW m \in Nat,
           \A x \in OfLane(w, l) : x < m
    PROVE  /\ LanesIncrease(Append(w, <<l, m>>))
           /\ OfLane(Append(w, <<l, m>>), l) = OfLane(w, l) \cup {m}
           /\ \A k \in Lanes \ {l} : OfLane(Append(w, <<l, m>>), k) = OfLane(w, k)
<1> DEFINE r == Append(w, <<l, m>>)
<1>1. /\ Len(w) \in Nat /\ Len(r) = Len(w) + 1 /\ r[Len(w) + 1] = <<l, m>>
      /\ \A j \in 1..Len(w) : r[j] = w[j] /\ w[j] \in OutMessages
  BY DEF OutMessages
<1> HIDE DEF r
<1>2. \A j \in 1..(Len(w) + 1) : j \in 1..Len(w) \/ j = Len(w) + 1
  BY <1>1
<1>3. \A j \in 1..Len(w) : j \in 1..Len(r)
  BY <1>1
<1>4. Len(w) + 1 \in 1..Len(r) /\ r[Len(w) + 1][1] = l /\ r[Len(w) + 1][2] = m
  BY <1>1
<1>5. LanesIncrease(r)
  <2> SUFFICES ASSUME NEW j \in 1..Len(r), NEW k \in 1..Len(r), j < k, r[j][1] = r[k][1]
               PROVE  r[j][2] < r[k][2]
    BY DEF LanesIncrease
  <2>1. j \in 1..Len(w)
    BY <1>1
  <2>2. CASE k \in 1..Len(w)
    BY <2>1, <2>2, <1>1 DEF LanesIncrease
  <2>3. CASE k = Len(w) + 1
    <3>1. w[j][1] = l /\ w[j][2] \in OfLane(w, l)
      BY <2>1, <2>3, <1>1, <1>4 DEF OfLane
    <3> QED BY <2>1, <2>3, <3>1, <1>1, <1>4
  <2> QED BY <1>1, <1>2, <2>2, <2>3
<1>6. OfLane(r, l) = OfLane(w, l) \cup {m}
  <2>1. ASSUME NEW x \in OfLane(r, l) PROVE x \in OfLane(w, l) \cup {m}
    <3>1. PICK j \in 1..Len(r) : r[j][1] = l /\ x = r[j][2]
      BY DEF OfLane
    <3> QED BY <3>1, <1>1, <1>2, <1>4 DEF OfLane
  <2>2. OfLane(w, l) \cup {m} \subseteq OfLane(r, l)
    BY <1>1, <1>3, <1>4 DEF OfLane
  <2> QED BY <2>1, <2>2
<1>7. ASSUME NEW k \in Lanes \ {l} PROVE OfLane(r, k) = OfLane(w, k)
  <2>1. ASSUME NEW x \in OfLane(r, k) PROVE x \in OfLane(w, k)
    <3>1. PICK j \in 1..Len(r) : r[j][1] = k /\ x = r[j][2]
      BY DEF OfLane
    <3>2. j # Len(w) + 1
      BY <3>1, <1>4
    <3> QED BY <3>1, <3>2, <1>1, <1>2 DEF OfLane
  <2>2. OfLane(w, k) \subseteq OfLane(r, k)
    BY <1>1, <1>3 DEF OfLane
  <2> QED BY <2>1, <2>2
<1> QED BY <1>5, <1>6, <1>7 DEF r


-----------------------------------------------------------------------------
(* The buffers and lanes of the connection *)

LEMMA Numbers ==
    ASSUME TypeOK
    PROVE  /\ wireIn \in Seq(Nat) /\ txQueue \in Seq(Nat) /\ wireOut \in Seq(OutMessages)
           /\ inHand \in Nat /\ outHand \in Nat
           /\ \A l \in Lanes : tries[l] \in Nat /\ accepted[l] \in Seq(Nat) /\ delivered[l] \in Seq(Nat)
<1>1. Msgs \subseteq Nat
  BY DEF Msgs
<1>0. ASSUME NEW S, NEW T, S \subseteq T, NEW q \in Seq(S) PROVE q \in Seq(T)
  <2>1. Len(q) \in Nat /\ q \in [1..Len(q) -> S]
    OBVIOUS
  <2>2. q \in [1..Len(q) -> T]
    BY <1>0, <2>1
  <2> QED BY <2>1, <2>2
<1>2. Seq(Msgs) \subseteq Seq(Nat)
  BY <1>0, <1>1
<1>3. Seq({"queued", "direct"} \X Msgs) \subseteq Seq(OutMessages)
  <2>1. {"queued", "direct"} \X Msgs \subseteq OutMessages
    BY <1>1 DEF OutMessages
  <2> QED BY <1>0, <2>1
<1>4. wireIn \in Seq(Nat) /\ txQueue \in Seq(Nat) /\ wireOut \in Seq(OutMessages)
  BY <1>2, <1>3 DEF TypeOK
<1>5. inHand \in Nat /\ outHand \in Nat
  BY <1>1 DEF TypeOK
<1>6. \A l \in Lanes : tries[l] \in Nat /\ accepted[l] \in Seq(Nat) /\ delivered[l] \in Seq(Nat)
  BY <1>1, <1>2 DEF TypeOK
<1> QED BY <1>4, <1>5, <1>6

(* A step that leaves a lane alone *)
SameLane(l) == accepted'[l] = accepted[l] /\ delivered'[l] = delivered[l] /\ tries'[l] = tries[l]

LEMMA LaneSame ==
    ASSUME NEW l \in Lanes, LaneKept(l), SameLane(l), Transit(l)' = Transit(l),
           socket' = "up" => socket = "up"
    PROVE  LaneKept(l)'
BY DEF LaneKept, SameLane

LEMMA LaneLost ==
    ASSUME NEW l \in Lanes, LaneKept(l), SameLane(l), socket' # "up",
           Transit(l)' \subseteq Transit(l),
           \A x \in Transit(l)', y \in Transit(l) : y < x => y \in Transit(l)'
    PROVE  LaneKept(l)'
<1>1. Line(accepted[l], delivered[l], Transit(l)', tries[l])
  BY LineLost DEF LaneKept
<1> QED BY <1>1 DEF LaneKept, SameLane

LEMMA LanesAre == Lanes = {"in", "queued", "direct"}
BY DEF Lanes

(* What txQueue and the writer have is lost when the socket goes, and that *)
(* is the end of the lane.                                                 *)
LEMMA SocketGone ==
    ASSUME ChannelInv, socket = "up", socket' # "up", wireOut' = wireOut, SameLane("queued")
    PROVE  LaneKept("queued")'
<1>1. /\ Transit("queued")' = OfLane(wireOut, "queued")
      /\ Transit("queued") = OfLane(wireOut, "queued") \cup HeldOut \cup Values(txQueue)
  BY DEF Transit, OfLane
<1>2. ASSUME NEW m \in OfLane(wireOut, "queued"), NEW x \in HeldOut \cup Values(txQueue) PROVE ~(x < m)
  <2>1. m < x
    BY DEF ChannelInv, OutboundInOrder
  <2>2. m \in Nat /\ x \in Nat
    BY Numbers DEF ChannelInv, AcceptInv, OfLane, OutMessages, Values, HeldOut
  <2> QED BY <2>1, <2>2
<1> QED BY <1>1, <1>2, LanesAre, LaneLost DEF ChannelInv, LinesKept

(* A step that moves no message *)
Calm ==
    /\ UNCHANGED <<wireIn, wireOut, inHand, outHand, txQueue, tries, accepted, delivered>>
    /\ reader' = "hand" <=> reader = "hand"
    /\ socket' = "up" => socket = "up" /\ (writer' = "write" <=> writer = "write")
    /\ auth' = "read" => auth = "read"
    /\ auth' \in {"check", "ok"} => auth \in {"check", "ok"}

Kept == InboundInOrder /\ OutboundInOrder /\ LinesKept

LEMMA CalmKeeps ==
    ASSUME ChannelInv, Calm
    PROVE  Kept'
<1>1. HeldIn' = HeldIn /\ (socket' = "up" => HeldOut' = HeldOut)
  BY DEF Calm, HeldIn, HeldOut
<1>2. InboundInOrder'
  <2> USE DEF ChannelInv, InboundInOrder, Calm
  <2>1. Increasing(wireIn)'
    BY DEF Increasing
  <2>2. \A h \in HeldIn' : h # 0 /\ \A x \in Values(wireIn)' : h < x
    BY <1>1 DEF Values
  <2>3. auth' = "read" => (wireIn' # <<>> /\ wireIn'[1] = 0) \/ (wireIn' = <<>> /\ socket' # "up")
    OBVIOUS
  <2>4. auth' \in {"check", "ok"} => 0 \notin Values(wireIn)'
    BY DEF Values
  <2> QED BY <2>1, <2>2, <2>3, <2>4
<1>3. OutboundInOrder'
  <2> USE DEF ChannelInv, OutboundInOrder, Calm
  <2>1. LanesIncrease(wireOut)' /\ Increasing(txQueue)'
    BY DEF LanesIncrease, Increasing
  <2>2. \A x \in Values(txQueue)' : x <= tries'["queued"]
    BY DEF Values
  <2>3. ASSUME socket' = "up"
        PROVE  /\ \A m \in OfLane(wireOut, "queued")', x \in HeldOut' \cup Values(txQueue)' : m < x
               /\ \A h \in HeldOut', x \in Values(txQueue)' : h < x
    BY <1>1, <2>3 DEF Values, OfLane
  <2> QED BY <2>1, <2>2, <2>3
<1>4. ASSUME NEW l \in Lanes PROVE LaneKept(l)'
  <2>1. LaneKept(l) /\ SameLane(l) /\ (socket' = "up" => socket = "up")
    BY DEF ChannelInv, LinesKept, Calm, SameLane
  <2>2. CASE socket' = "up" \/ socket # "up" \/ l # "queued"
    <3>1. Transit(l)' = Transit(l)
      BY <1>1, <2>2 DEF Transit, Calm, Values, OfLane
    <3> QED BY <2>1, <3>1, LaneSame
  <2>3. CASE socket' # "up" /\ socket = "up" /\ l = "queued"
    BY <2>1, <2>3, SocketGone DEF Calm
  <2> QED BY <2>2, <2>3
<1> QED BY <1>2, <1>3, <1>4 DEF Kept, LinesKept

LEMMA CalmSteps ==
    ASSUME AcceptInv,
           \/ Accept \/ AuthChecks \/ ReaderLooks \/ ReaderCloses \/ WriterCloses
           \/ Listeners \/ ClearTopics \/ Release \/ Dispose \/ Actor \/ RunLoop \/ UNCHANGED vars
    PROVE  Calm
<1> USE DEF Calm, wire, hist
<1>0. ASSUME Close PROVE socket' = "up" => socket = "up"
  BY <1>0 DEF Close
<1>1. CASE AuthEnds
  BY <1>1 DEF AuthEnds
<1>2. CASE Refuse
  BY <1>2, <1>0 DEF Refuse
<1>3. CASE Register
  BY <1>3 DEF Register
<1>4. CASE Connect
  BY <1>4 DEF Connect
<1>5. CASE StartReadWrite
  BY <1>5 DEF StartReadWrite, AcceptInv, QuietBefore, NotStarted
<1>6. CASE AuthChecks
  BY <1>6 DEF AuthChecks
<1>7. CASE ReaderLooks
  BY <1>7 DEF ReaderLooks
<1>8. CASE ReaderCloses
  BY <1>8, <1>0 DEF ReaderCloses
<1>9. CASE WriterCloses
  BY <1>9, <1>0 DEF WriterCloses
<1>10. CASE Listeners
  BY <1>10 DEF Listeners
<1>11. CASE Release
  BY <1>11 DEF Release
<1>12. CASE Dispose
  BY <1>12, <1>0 DEF Dispose
<1>13. CASE RunLoop
  BY <1>13 DEF RunLoop
<1>14. CASE UNCHANGED vars
  BY <1>14 DEF vars
<1>15. CASE ClearTopics
  BY <1>15 DEF ClearTopics
<1>16. CASE Actor
  BY <1>16 DEF Actor
<1> QED BY <1>1, <1>2, <1>3, <1>4, <1>5, <1>6, <1>7, <1>8, <1>9, <1>10, <1>11, <1>12, <1>13, <1>14,
           <1>15, <1>16
        DEF Accept

-----------------------------------------------------------------------------
(* The steps that move messages into the Client.  Each keeps the lanes,    *)
(* and is a step of Channel when it accepts or delivers.                   *)

LEMMA Delivered ==
    ASSUME TypeOK, NEW l \in Lanes, LaneKept(l), NEW m \in Transit(l), \A x \in Transit(l) : ~(x < m),
           Transit(l)' = Transit(l) \ {m}, socket' = socket, tries' = tries, accepted' = accepted,
           delivered' = [delivered EXCEPT ![l] = Append(@, m)]
    PROVE  /\ LaneKept(l)'
           /\ \A k \in Lanes \ {l} : SameLane(k)
           /\ Lossy!Deliver(l)
<1>1. accepted[l] \in Seq(Nat) /\ delivered[l] \in Seq(Nat)
  BY Numbers
<1>2. delivered'[l] = Append(delivered[l], m) /\ \A k \in Lanes \ {l} : delivered'[k] = delivered[k]
  BY DEF TypeOK
<1>3. /\ Len(delivered[l]) < Len(accepted[l]) /\ m = accepted[l][Len(delivered[l]) + 1]
      /\ Line(accepted[l], delivered'[l], Transit(l)', tries[l])
      /\ Full(accepted[l], delivered[l], Transit(l)) => Full(accepted[l], delivered'[l], Transit(l)')
  <2> DEFINE a == accepted[l]
             d == delivered[l]
             T == Transit(l)
             n == tries[l]
  <2>1. Line(a, d, T, n) /\ m \in T /\ \A x \in T : ~(x < m)
    BY DEF LaneKept
  <2>2. a \in Seq(Nat) /\ d \in Seq(Nat)
    BY <1>1
  <2> HIDE DEF a, d, T, n
  <2>3. /\ Len(d) < Len(a) /\ m = a[Len(d) + 1]
        /\ Line(a, Append(d, m), T \ {m}, n)
        /\ Full(a, d, T) => Full(a, Append(d, m), T \ {m})
    BY <2>1, <2>2, LineDelivered
  <2> QED BY <2>3, <1>2 DEF a, d, T, n
<1>4. LaneKept(l)'
  BY <1>3 DEF LaneKept
<1>5. Lossy!Deliver(l)
  BY <1>3 DEF Lossy!Deliver
<1> QED BY <1>2, <1>4, <1>5 DEF SameLane

LEMMA Accepted ==
    ASSUME TypeOK, NEW l \in Lanes, LaneKept(l), socket' = "up" => socket = "up", delivered' = delivered,
           tries' = [tries EXCEPT ![l] = @ + 1],
           accepted' = [accepted EXCEPT ![l] = Append(@, tries'[l])],
           tries[l] < MaxMsgs,
           (socket = "up" /\ Transit(l)' = Transit(l) \cup {tries'[l]})
             \/ (socket # "up" /\ Transit(l)' = Transit(l))
    PROVE  /\ LaneKept(l)'
           /\ \A k \in Lanes \ {l} : SameLane(k)
           /\ tries'[l] = tries[l] + 1
           /\ \E m \in Msgs : Lossy!Accept(l, m)
<1>1. accepted[l] \in Seq(Nat) /\ delivered[l] \in Seq(Nat) /\ tries[l] \in Nat
  BY Numbers
<1>2. tries'[l] = tries[l] + 1 /\ \A k \in Lanes \ {l} : tries'[k] = tries[k]
  BY DEF TypeOK
<1>3. accepted'[l] = Append(accepted[l], tries[l] + 1) /\ \A k \in Lanes \ {l} : accepted'[k] = accepted[k]
  BY <1>2 DEF TypeOK
<1>9. /\ Line(Append(accepted[l], tries[l] + 1), delivered[l], Transit(l)', tries[l] + 1)
      /\ socket = "up" => Full(Append(accepted[l], tries[l] + 1), delivered[l], Transit(l)')
  <2> DEFINE a == accepted[l]
             d == delivered[l]
             T == Transit(l)
             n == tries[l]
  <2>1. /\ Line(a, d, T, n)
        /\ socket = "up" => Full(a, d, T)
        /\ (socket = "up" /\ Transit(l)' = T \cup {n + 1}) \/ (socket # "up" /\ Transit(l)' = T)
    BY <1>2 DEF LaneKept
  <2>2. a \in Seq(Nat) /\ d \in Seq(Nat) /\ n \in Nat
    BY <1>1
  <2> HIDE DEF a, d, T, n
  <2>3. Transit(l)' = T \/ (Transit(l)' = T \cup {n + 1} /\ Full(a, d, T))
    BY <2>1
  <2>4. /\ Line(Append(a, n + 1), d, Transit(l)', n + 1)
        /\ Full(a, d, T) /\ Transit(l)' = T \cup {n + 1} => Full(Append(a, n + 1), d, Transit(l)')
    BY <2>1, <2>2, <2>3, LineAccepted
  <2> QED BY <2>1, <2>4 DEF a, d, T, n
<1>4. Line(accepted'[l], delivered[l], Transit(l)', tries[l] + 1)
  BY <1>3, <1>9
<1>5. socket' = "up" => Full(accepted'[l], delivered[l], Transit(l)')
  BY <1>3, <1>9
<1>6. LaneKept(l)'
  BY <1>2, <1>4, <1>5 DEF LaneKept
<1>7. tries'[l] \in Msgs
  BY <1>1, <1>2, ConnectionAssumption DEF Msgs
<1>8. Lossy!Accept(l, tries'[l])
  BY DEF Lossy!Accept
<1> QED BY <1>2, <1>3, <1>6, <1>7, <1>8 DEF SameLane

(* A step that leaves the way out alone *)
OutCalm == UNCHANGED <<wireOut, outHand, txQueue, writer, socket>> /\ tries'["queued"] = tries["queued"]

LEMMA OutCalmKeeps ==
    ASSUME ChannelInv, OutCalm
    PROVE  /\ OutboundInOrder'
           /\ \A l \in Lanes \ {"in"} : SameLane(l) => LaneKept(l)'
<1>1. HeldOut' = HeldOut /\ Values(txQueue)' = Values(txQueue)
  BY DEF OutCalm, HeldOut, Values
<1>2. ASSUME NEW l PROVE OfLane(wireOut, l)' = OfLane(wireOut, l)
  BY DEF OutCalm, OfLane
<1>3. OutboundInOrder'
  BY <1>1, <1>2 DEF ChannelInv, OutboundInOrder, OutCalm, LanesIncrease, Increasing
<1>4. ASSUME NEW l \in Lanes \ {"in"}, SameLane(l) PROVE LaneKept(l)'
  <2>1. Transit(l)' = Transit(l)
    BY <1>1, <1>2 DEF Transit, OutCalm
  <2> QED BY <1>4, <2>1, LaneSame DEF ChannelInv, LinesKept, OutCalm
<1> QED BY <1>3, <1>4

LEMMA AuthReadsKeeps ==
    ASSUME ChannelInv, AuthReads
    PROVE  Kept' /\ UNCHANGED <<accepted, delivered>>
<1> USE DEF app, wire, hist
<1>1. CASE socket # "shut" /\ wireIn # <<>> /\ wireIn' = Tail(wireIn) /\ auth' = "check"
  <2>1. Head(wireIn) = 0
    BY <1>1, Numbers, TakeFirst DEF ChannelInv, AcceptInv, InboundInOrder, AuthReads
  <2>2. /\ Values(wireIn) = Values(wireIn)' \cup {0} /\ Increasing(wireIn)'
        /\ \A x \in Values(wireIn)' : 0 < x
    <3>1. /\ Values(wireIn) = Values(Tail(wireIn)) \cup {0} /\ Increasing(Tail(wireIn))
          /\ \A x \in Values(Tail(wireIn)) : 0 < x
      BY <1>1, <2>1, Numbers, TakeFirst DEF ChannelInv, AcceptInv, InboundInOrder
    <3> QED BY <1>1, <3>1 DEF Increasing, Values
  <2>3. HeldIn' = HeldIn
    BY DEF AuthReads, HeldIn
  <2>4. InboundInOrder'
    BY <1>1, <2>2, <2>3 DEF ChannelInv, InboundInOrder
  <2>5. OutCalm /\ \A l \in Lanes : SameLane(l)
    BY DEF AuthReads, OutCalm, SameLane
  <2>6. Transit("in")' = Transit("in")
    BY <2>2, <2>3 DEF Transit
  <2>7. LaneKept("in")'
    BY <2>5, <2>6, LaneSame DEF ChannelInv, LinesKept, OutCalm, Lanes
  <2> QED BY <2>4, <2>5, <2>7, OutCalmKeeps DEF Kept, LinesKept, AuthReads
<1>2. CASE auth' = "bad" /\ UNCHANGED wireIn
  <2>1. Calm
    BY <1>2 DEF AuthReads, Calm
  <2> QED BY <2>1, CalmKeeps DEF Calm
<1> QED BY <1>1, <1>2 DEF AuthReads

LEMMA ReaderReadsKeeps ==
    ASSUME ChannelInv, ReaderReads
    PROVE  Kept' /\ UNCHANGED <<accepted, delivered>>
<1> USE DEF app, hist
<1>1. CASE wireIn # <<>> /\ inHand' = Head(wireIn) /\ wireIn' = Tail(wireIn) /\ reader' = "hand"
  <2>1. auth = "ok" /\ 0 \notin Values(wireIn)
    BY DEF ChannelInv, AcceptInv, AcceptedFirst, InboundInOrder, ReaderReads
  <2>2. /\ Values(wireIn) = Values(wireIn)' \cup {Head(wireIn)} /\ Increasing(wireIn)'
        /\ \A x \in Values(wireIn)' : Head(wireIn) < x
    <3>1. /\ Values(wireIn) = Values(Tail(wireIn)) \cup {Head(wireIn)} /\ Increasing(Tail(wireIn))
          /\ \A x \in Values(Tail(wireIn)) : Head(wireIn) < x
      BY <1>1, Numbers, TakeFirst DEF ChannelInv, AcceptInv, InboundInOrder
    <3> QED BY <1>1, <3>1 DEF Increasing, Values
  <2>3. HeldIn' = {Head(wireIn)} /\ HeldIn = {}
    BY <1>1 DEF ReaderReads, HeldIn
  <2>4. InboundInOrder'
    BY <2>1, <2>2, <2>3 DEF ReaderReads, InboundInOrder
  <2>5. OutCalm /\ \A l \in Lanes : SameLane(l)
    BY DEF ReaderReads, OutCalm, SameLane
  <2>6. Transit("in")' = Transit("in")
    BY <2>1, <2>2, <2>3 DEF Transit
  <2>7. LaneKept("in")'
    BY <2>5, <2>6, LaneSame DEF ChannelInv, LinesKept, OutCalm, Lanes
  <2> QED BY <2>4, <2>5, <2>7, OutCalmKeeps DEF Kept, LinesKept, ReaderReads
<1>2. CASE reader' = "close" /\ UNCHANGED <<inHand, wireIn>>
  <2>1. Calm
    BY <1>2 DEF ReaderReads, Calm
  <2> QED BY <2>1, CalmKeeps DEF Calm
<1> QED BY <1>1, <1>2 DEF ReaderReads

LEMMA ReaderHandsKeeps ==
    ASSUME ChannelInv, ReaderHands
    PROVE  Kept' /\ Lossy!Deliver("in")
<1> USE DEF app, wire
<1>1. HeldIn = {inHand} /\ HeldIn' = {} /\ Values(wireIn)' = Values(wireIn)
  BY DEF ReaderHands, HeldIn, Values
<1>2. inHand # 0 /\ (\A x \in Values(wireIn) : inHand < x) /\ auth = "ok"
  BY <1>1 DEF ChannelInv, AcceptInv, AcceptedFirst, InboundInOrder, ReaderHands
<1>3. \A x \in Values(wireIn) : x \in Nat
  BY Numbers DEF ChannelInv, AcceptInv, Values
<1>4. inHand \in Nat
  BY Numbers DEF ChannelInv, AcceptInv
<1>5. inHand \in Transit("in") /\ \A x \in Transit("in") : ~(x < inHand)
  BY <1>1, <1>2, <1>3, <1>4 DEF Transit
<1>6. Transit("in")' = Transit("in") \ {inHand}
  <2>1. inHand \notin Values(wireIn)
    BY <1>2, <1>4
  <2> QED BY <1>1, <2>1 DEF Transit
<1>7. /\ LaneKept("in")' /\ Lossy!Deliver("in")
      /\ \A k \in Lanes \ {"in"} : SameLane(k)
  BY <1>5, <1>6, LanesAre, Delivered DEF ChannelInv, AcceptInv, LinesKept, ReaderHands
<1>8. InboundInOrder'
  BY <1>1 DEF ChannelInv, InboundInOrder, ReaderHands, Increasing
<1>9. OutCalm
  BY DEF ReaderHands, OutCalm
<1> QED BY <1>7, <1>8, <1>9, OutCalmKeeps DEF Kept, LinesKept

LEMMA PeerSendsKeeps ==
    ASSUME ChannelInv, PeerSends
    PROVE  Kept' /\ \E m \in Msgs : Lossy!Accept("in", m)
<1> USE DEF app
<1> DEFINE n == tries["in"] + 1
<1>1. tries["in"] \in Nat /\ n \in Nat /\ wireIn \in Seq(Nat) /\ inHand \in Nat
  BY Numbers, LanesAre DEF ChannelInv, AcceptInv
<1>2. tries'["in"] = n
  BY LanesAre DEF ChannelInv, AcceptInv, TypeOK, PeerSends
<1>3. \A x \in Values(wireIn) \cup HeldIn : x < n
  <2>1. ASSUME NEW x \in Transit("in") PROVE x < n
    <3>1. PICK i \in After(accepted["in"], delivered["in"]) : accepted["in"][i] = x
      BY LanesAre DEF ChannelInv, LinesKept, LaneKept, Line
    <3>2. accepted["in"] \in Seq(Nat) /\ delivered["in"] \in Seq(Nat)
      BY Numbers, LanesAre DEF ChannelInv, AcceptInv
    <3>3. i \in 1..Len(accepted["in"])
      BY <3>1, <3>2 DEF After
    <3>4. accepted["in"][i] \in Nat /\ accepted["in"][i] <= tries["in"]
      BY <3>2, <3>3, LanesAre DEF ChannelInv, LinesKept, LaneKept, Line
    <3> QED BY <1>1, <3>1, <3>4
  <2> QED BY <2>1, <1>1 DEF Transit
<1>4. /\ Values(wireIn)' = Values(wireIn) \cup {n} /\ Increasing(wireIn)'
      /\ wireIn # <<>> => wireIn'[1] = wireIn[1]
      /\ wireIn' # <<>>
  <2>1. wireIn' = Append(wireIn, n)
    BY <1>2 DEF PeerSends
  <2>2. /\ Values(Append(wireIn, n)) = Values(wireIn) \cup {n} /\ Increasing(Append(wireIn, n))
        /\ wireIn # <<>> => Append(wireIn, n)[1] = wireIn[1]
        /\ Append(wireIn, n) # <<>>
    <3>1. \A x \in Values(wireIn) : x < n
      BY <1>3
    <3>2. Append(wireIn, n) # <<>>
      BY <1>1
    <3>3. Increasing(wireIn)
      BY DEF ChannelInv, InboundInOrder
    <3> HIDE DEF n
    <3> QED BY <1>1, <3>1, <3>2, <3>3, PutLast
  <2> QED BY <2>1, <2>2 DEF Values, Increasing
<1>5. HeldIn' = HeldIn
  BY DEF PeerSends, HeldIn
<1>6. InboundInOrder'
  <2>1. n # 0
    BY <1>1
  <2> QED BY <1>3, <1>4, <1>5, <2>1 DEF ChannelInv, InboundInOrder, PeerSends
<1>7. Transit("in")' = Transit("in") \cup {tries'["in"]}
  BY <1>1, <1>2, <1>4, <1>5 DEF Transit
<1>8. /\ LaneKept("in")' /\ \E m \in Msgs : Lossy!Accept("in", m)
      /\ \A k \in Lanes \ {"in"} : SameLane(k)
  BY <1>7, LanesAre, Accepted DEF ChannelInv, AcceptInv, LinesKept, PeerSends
<1>9. OutCalm
  BY <1>8, LanesAre DEF PeerSends, OutCalm, SameLane
<1> QED BY <1>6, <1>8, <1>9, OutCalmKeeps DEF Kept, LinesKept

-----------------------------------------------------------------------------
(* The steps that move messages out of the Client *)

(* A step that leaves the way in alone *)
InCalm == UNCHANGED <<wireIn, inHand, reader, auth, socket>>

LEMMA InCalmKeeps ==
    ASSUME ChannelInv, InCalm
    PROVE  InboundInOrder' /\ (SameLane("in") => LaneKept("in")')
<1>1. HeldIn' = HeldIn /\ Values(wireIn)' = Values(wireIn)
  BY DEF InCalm, HeldIn, Values
<1>2. InboundInOrder'
  BY <1>1 DEF ChannelInv, InboundInOrder, InCalm, Increasing
<1>3. Transit("in")' = Transit("in")
  BY <1>1 DEF Transit
<1> QED BY <1>2, <1>3, LaneSame, LanesAre DEF ChannelInv, LinesKept, InCalm

LEMMA OutNumbers ==
    ASSUME ChannelInv
    PROVE  /\ \A l, x : x \in OfLane(wireOut, l) => x \in Nat
           /\ \A x \in HeldOut \cup Values(txQueue) : x \in Nat
           /\ \A l \in Lanes : \A x \in Transit(l) : x <= tries[l]
<1>1. \A l, x : x \in OfLane(wireOut, l) => x \in Nat
  BY Numbers DEF ChannelInv, AcceptInv, OfLane, OutMessages
<1>2. \A x \in HeldOut \cup Values(txQueue) : x \in Nat
  BY Numbers DEF ChannelInv, AcceptInv, HeldOut, Values
<1>3. ASSUME NEW l \in Lanes, NEW x \in Transit(l) PROVE x <= tries[l]
  <2>1. PICK i \in After(accepted[l], delivered[l]) : accepted[l][i] = x
    BY DEF ChannelInv, LinesKept, LaneKept, Line
  <2>2. accepted[l] \in Seq(Nat) /\ delivered[l] \in Seq(Nat)
    BY Numbers DEF ChannelInv, AcceptInv
  <2>3. i \in 1..Len(accepted[l])
    BY <2>1, <2>2 DEF After
  <2>4. accepted[l][i] <= tries[l]
    BY <2>3 DEF ChannelInv, LinesKept, LaneKept, Line
  <2> QED BY <2>1, <2>4
<1> QED BY <1>1, <1>2, <1>3

LEMMA WriterTakesKeeps ==
    ASSUME ChannelInv, WriterTakes
    PROVE  Kept' /\ UNCHANGED <<accepted, delivered>>
<1> USE DEF app, wire, hist
<1>1. CASE txQueue # <<>> /\ outHand' = Head(txQueue) /\ txQueue' = Tail(txQueue) /\ writer' = "write"
  <2>1. /\ Values(txQueue) = Values(txQueue)' \cup {Head(txQueue)} /\ Increasing(txQueue)'
        /\ \A x \in Values(txQueue)' : Head(txQueue) < x
    <3>1. /\ Values(txQueue) = Values(Tail(txQueue)) \cup {Head(txQueue)} /\ Increasing(Tail(txQueue))
          /\ \A x \in Values(Tail(txQueue)) : Head(txQueue) < x
      BY <1>1, Numbers, TakeFirst DEF ChannelInv, AcceptInv, OutboundInOrder
    <3> QED BY <1>1, <3>1 DEF Increasing, Values
  <2>2. HeldOut' = {Head(txQueue)} /\ HeldOut = {}
    BY <1>1 DEF WriterTakes, HeldOut
  <2>3. ASSUME NEW l PROVE OfLane(wireOut, l)' = OfLane(wireOut, l)
    BY DEF WriterTakes, OfLane
  <2>4. OutboundInOrder'
    BY <2>1, <2>2, <2>3 DEF ChannelInv, OutboundInOrder, WriterTakes, LanesIncrease
  <2>5. InCalm /\ \A l \in Lanes : SameLane(l)
    BY DEF WriterTakes, InCalm, SameLane
  <2>6. ASSUME NEW l \in {"queued", "direct"} PROVE LaneKept(l)'
    <3>1. Transit(l)' = Transit(l)
      BY <2>1, <2>2, <2>3 DEF Transit, WriterTakes
    <3> QED BY <3>1, <2>5, LanesAre, LaneSame DEF ChannelInv, LinesKept, InCalm
  <2> QED BY <2>4, <2>5, <2>6, InCalmKeeps, LanesAre DEF Kept, LinesKept, WriterTakes
<1>2. CASE writer' = WriterLeaves /\ UNCHANGED <<outHand, txQueue>>
  <2>1. Calm
    BY <1>2 DEF WriterTakes, WriterLeaves, Calm
  <2> QED BY <2>1, CalmKeeps DEF Calm
<1> QED BY <1>1, <1>2 DEF WriterTakes

LEMMA WriterWritesKeeps ==
    ASSUME ChannelInv, WriterWrites
    PROVE  Kept' /\ UNCHANGED <<accepted, delivered>>
<1> USE DEF app, hist
<1>1. CASE socket = "up" /\ wireOut' = Append(wireOut, <<"queued", outHand>>) /\ writer' = "take"
  <2>1. HeldOut = {outHand} /\ HeldOut' = {} /\ Values(txQueue)' = Values(txQueue)
    BY <1>1 DEF WriterWrites, HeldOut, Values
  <2>2. /\ LanesIncrease(wireOut)'
        /\ OfLane(wireOut, "queued")' = OfLane(wireOut, "queued") \cup {outHand}
        /\ OfLane(wireOut, "direct")' = OfLane(wireOut, "direct")
    <3>1. \A x \in OfLane(wireOut, "queued") : x < outHand
      BY <1>1, <2>1 DEF ChannelInv, OutboundInOrder
    <3>2. wireOut \in Seq(OutMessages) /\ outHand \in Nat /\ LanesIncrease(wireOut)
      BY Numbers DEF ChannelInv, AcceptInv, OutboundInOrder
    <3> DEFINE w == Append(wireOut, <<"queued", outHand>>)
    <3>3. /\ LanesIncrease(w)
          /\ OfLane(w, "queued") = OfLane(wireOut, "queued") \cup {outHand}
          /\ OfLane(w, "direct") = OfLane(wireOut, "direct")
      BY <3>1, <3>2, LanesAre, PutLastOut
    <3>4. wireOut' = w
      BY <1>1
    <3> HIDE DEF w
    <3> QED BY <3>3, <3>4 DEF LanesIncrease, OfLane
  <2>3. OutboundInOrder'
    BY <1>1, <2>1, <2>2 DEF ChannelInv, OutboundInOrder, WriterWrites, Increasing
  <2>4. InCalm /\ \A l \in Lanes : SameLane(l)
    BY DEF WriterWrites, InCalm, SameLane
  <2>5. ASSUME NEW l \in {"queued", "direct"} PROVE LaneKept(l)'
    <3>1. Transit(l)' = Transit(l)
      BY <1>1, <2>1, <2>2 DEF Transit, WriterWrites
    <3> QED BY <3>1, <2>4, LanesAre, LaneSame DEF ChannelInv, LinesKept, InCalm
  <2> QED BY <2>3, <2>4, <2>5, InCalmKeeps, LanesAre DEF Kept, LinesKept, WriterWrites
<1>2. CASE socket # "up" /\ UNCHANGED wireOut
  <2>1. Calm
    BY <1>2 DEF WriterWrites, WriterLeaves, Calm
  <2> QED BY <2>1, CalmKeeps DEF Calm
<1> QED BY <1>1, <1>2 DEF WriterWrites

LEMMA SendMessageKeeps ==
    ASSUME ChannelInv, SendMessage
    PROVE  Kept' /\ (UNCHANGED <<accepted, delivered>> \/ \E m \in Msgs : Lossy!Accept("queued", m))
<1> USE DEF app, wire
<1> DEFINE n == tries["queued"] + 1
<1>1. tries["queued"] \in Nat /\ n \in Nat /\ txQueue \in Seq(Nat)
  BY Numbers, LanesAre DEF ChannelInv, AcceptInv
<1>2. tries'["queued"] = n /\ tries'["direct"] = tries["direct"] /\ tries'["in"] = tries["in"]
  BY LanesAre DEF ChannelInv, AcceptInv, TypeOK, SendMessage
<1>3. \A x \in Values(txQueue) : x < n
  BY <1>1, OutNumbers DEF ChannelInv, OutboundInOrder
<1>4. HeldOut' = HeldOut /\ \A l : OfLane(wireOut, l)' = OfLane(wireOut, l)
  BY DEF SendMessage, HeldOut, OfLane
<1>5. InCalm
  BY DEF SendMessage, InCalm
<1>6. CASE txQueue' = Append(txQueue, n) /\ accepted' = [accepted EXCEPT !["queued"] = Append(@, n)]
  <2>1. Values(txQueue)' = Values(txQueue) \cup {n} /\ Increasing(txQueue)'
    <3>1. Increasing(txQueue)
      BY DEF ChannelInv, OutboundInOrder
    <3> HIDE DEF n
    <3>2. Values(Append(txQueue, n)) = Values(txQueue) \cup {n} /\ Increasing(Append(txQueue, n))
      BY <1>1, <1>3, <3>1, PutLast
    <3> QED BY <1>6, <3>2 DEF Values, Increasing
  <2>2. OutboundInOrder'
    <3>1. \A x \in Values(txQueue)' : x <= tries'["queued"]
      BY <1>1, <1>2, <1>3, <2>1, OutNumbers
    <3>2. ASSUME socket = "up"
          PROVE  \A m \in OfLane(wireOut, "queued") \cup HeldOut : m < n
      <4>1. ASSUME NEW m \in OfLane(wireOut, "queued") \cup HeldOut PROVE m <= tries["queued"] /\ m \in Nat
        BY <3>2, OutNumbers, LanesAre DEF Transit
      <4> QED BY <4>1, <1>1
    <3> QED BY <3>1, <3>2, <1>4, <2>1 DEF ChannelInv, OutboundInOrder, SendMessage, LanesIncrease
  <2>3. (socket = "up" /\ Transit("queued")' = Transit("queued") \cup {tries'["queued"]})
          \/ (socket # "up" /\ Transit("queued")' = Transit("queued"))
    BY <1>2, <1>4, <2>1 DEF Transit, SendMessage
  <2>4. /\ LaneKept("queued")' /\ \E m \in Msgs : Lossy!Accept("queued", m)
        /\ \A k \in Lanes \ {"queued"} : SameLane(k)
    BY <1>2, <1>6, <2>3, LanesAre, Accepted DEF ChannelInv, AcceptInv, LinesKept, SendMessage
  <2>5. LaneKept("direct")'
    <3>1. Transit("direct")' = Transit("direct")
      BY <1>4 DEF Transit
    <3> QED BY <3>1, <2>4, LanesAre, LaneSame DEF ChannelInv, LinesKept, SendMessage
  <2> QED BY <1>5, <2>2, <2>4, <2>5, InCalmKeeps, LanesAre DEF Kept, LinesKept
<1>7. CASE UNCHANGED <<txQueue, accepted>>
  <2>1. Values(txQueue)' = Values(txQueue)
    BY <1>7 DEF Values
  <2>2. OutboundInOrder'
    <3>1. \A x \in Values(txQueue)' : x <= tries'["queued"]
      BY <1>1, <1>2, <1>3, <2>1, OutNumbers
    <3> QED BY <1>4, <1>7, <2>1, <3>1 DEF ChannelInv, OutboundInOrder, SendMessage, LanesIncrease, Increasing
  <2>3. ASSUME NEW l \in Lanes PROVE LaneKept(l)'
    <3>1. CASE l = "queued"
      <4>1. Transit("queued")' = Transit("queued")
        BY <1>4, <2>1 DEF Transit, SendMessage
      <4>2. accepted["queued"] \in Seq(Nat) /\ delivered["queued"] \in Seq(Nat)
        BY Numbers, LanesAre DEF ChannelInv, AcceptInv
      <4>3. /\ Line(accepted["queued"], delivered["queued"], Transit("queued"), tries["queued"])
            /\ socket = "up" => Full(accepted["queued"], delivered["queued"], Transit("queued"))
        BY LanesAre DEF ChannelInv, LinesKept, LaneKept
      <4>4. Line(accepted["queued"], delivered["queued"], Transit("queued"), n)
        BY <1>1, <4>2, <4>3, LineTried
      <4>5. LaneKept("queued")'
        BY <1>2, <1>7, <4>1, <4>3, <4>4 DEF LaneKept, SendMessage
      <4> QED BY <3>1, <4>5
    <3>2. CASE l = "direct"
      <4>1. Transit(l)' = Transit(l)
        BY <1>4, <3>2 DEF Transit
      <4>2. SameLane(l)
        BY <1>2, <1>7, <3>2 DEF SameLane, SendMessage
      <4> QED BY <4>1, <4>2, LaneSame DEF ChannelInv, LinesKept, SendMessage
    <3>3. CASE l = "in"
      <4>1. SameLane("in")
        BY <1>2, <1>7 DEF SameLane, SendMessage
      <4> QED BY <3>3, <4>1, <1>5, InCalmKeeps
    <3> QED BY <3>1, <3>2, <3>3, LanesAre
  <2> QED BY <1>5, <1>7, <2>2, <2>3, InCalmKeeps DEF Kept, LinesKept, SendMessage
<1> QED BY <1>2, <1>6, <1>7 DEF SendMessage

LEMMA SendMessageDirectKeeps ==
    ASSUME ChannelInv, SendMessageDirect
    PROVE  Kept' /\ (UNCHANGED <<accepted, delivered>> \/ \E m \in Msgs : Lossy!Accept("direct", m))
<1> USE DEF app
<1> DEFINE n == tries["direct"] + 1
<1>1. tries["direct"] \in Nat /\ n \in Nat /\ wireOut \in Seq(OutMessages)
  BY Numbers, LanesAre DEF ChannelInv, AcceptInv
<1>2. tries'["direct"] = n /\ tries'["queued"] = tries["queued"] /\ tries'["in"] = tries["in"]
  BY LanesAre DEF ChannelInv, AcceptInv, TypeOK, SendMessageDirect
<1>3. HeldOut' = HeldOut /\ Values(txQueue)' = Values(txQueue)
  BY DEF SendMessageDirect, HeldOut, Values
<1>4. InCalm
  BY DEF SendMessageDirect, InCalm
<1>5. CASE /\ socket = "up" /\ wireOut' = Append(wireOut, <<"direct", n>>)
           /\ accepted' = [accepted EXCEPT !["direct"] = Append(@, n)]
  <2>1. /\ LanesIncrease(wireOut)'
        /\ OfLane(wireOut, "direct")' = OfLane(wireOut, "direct") \cup {n}
        /\ OfLane(wireOut, "queued")' = OfLane(wireOut, "queued")
    <3>1. \A x \in OfLane(wireOut, "direct") : x < n
      <4>1. \A x \in OfLane(wireOut, "direct") : x <= tries["direct"] /\ x \in Nat
        BY OutNumbers, LanesAre DEF Transit
      <4> QED BY <4>1, <1>1
    <3>2. LanesIncrease(wireOut)
      BY DEF ChannelInv, OutboundInOrder
    <3> DEFINE w == Append(wireOut, <<"direct", n>>)
    <3>3. wireOut' = w
      BY <1>5
    <3>4. /\ LanesIncrease(w)
          /\ OfLane(w, "direct") = OfLane(wireOut, "direct") \cup {n}
          /\ OfLane(w, "queued") = OfLane(wireOut, "queued")
      <4> HIDE DEF n
      <4> QED BY <1>1, <3>1, <3>2, LanesAre, PutLastOut
    <3> HIDE DEF w
    <3> QED BY <3>3, <3>4 DEF LanesIncrease, OfLane
  <2>2. OutboundInOrder'
    BY <1>2, <1>3, <2>1 DEF ChannelInv, OutboundInOrder, SendMessageDirect, Increasing
  <2>3. Transit("direct")' = Transit("direct") \cup {tries'["direct"]}
    BY <1>2, <2>1 DEF Transit
  <2>4. /\ LaneKept("direct")' /\ \E m \in Msgs : Lossy!Accept("direct", m)
        /\ \A k \in Lanes \ {"direct"} : SameLane(k)
    BY <1>2, <1>5, <2>3, LanesAre, Accepted DEF ChannelInv, AcceptInv, LinesKept, SendMessageDirect
  <2>5. LaneKept("queued")'
    <3>1. Transit("queued")' = Transit("queued")
      BY <1>3, <2>1 DEF Transit, SendMessageDirect
    <3> QED BY <3>1, <2>4, LanesAre, LaneSame DEF ChannelInv, LinesKept, SendMessageDirect
  <2> QED BY <1>4, <2>2, <2>4, <2>5, InCalmKeeps, LanesAre DEF Kept, LinesKept
<1>6. CASE socket # "up" /\ UNCHANGED <<wireOut, accepted>>
  <2>1. ASSUME NEW l PROVE OfLane(wireOut, l)' = OfLane(wireOut, l)
    BY <1>6 DEF OfLane
  <2>2. OutboundInOrder'
    BY <1>2, <1>3, <1>6, <2>1 DEF ChannelInv, OutboundInOrder, SendMessageDirect, LanesIncrease, Increasing
  <2>3. ASSUME NEW l \in Lanes PROVE LaneKept(l)'
    <3>1. CASE l = "direct"
      <4>1. Transit("direct")' = Transit("direct")
        BY <2>1 DEF Transit
      <4>2. accepted["direct"] \in Seq(Nat) /\ delivered["direct"] \in Seq(Nat)
        BY Numbers, LanesAre DEF ChannelInv, AcceptInv
      <4>3. Line(accepted["direct"], delivered["direct"], Transit("direct"), tries["direct"])
        BY LanesAre DEF ChannelInv, LinesKept, LaneKept
      <4>4. Line(accepted["direct"], delivered["direct"], Transit("direct"), n)
        BY <1>1, <4>2, <4>3, LineTried
      <4>5. LaneKept("direct")'
        BY <1>2, <1>6, <4>1, <4>4 DEF LaneKept, SendMessageDirect
      <4> QED BY <3>1, <4>5
    <3>2. CASE l = "queued"
      <4>1. Transit("queued")' = Transit("queued")
        BY <1>3, <2>1 DEF Transit, SendMessageDirect
      <4>2. SameLane(l)
        BY <1>2, <1>6, <3>2 DEF SameLane, SendMessageDirect
      <4> QED BY <4>1, <4>2, <3>2, LaneSame DEF ChannelInv, LinesKept, SendMessageDirect
    <3>3. CASE l = "in"
      <4>1. SameLane("in")
        BY <1>2, <1>6 DEF SameLane, SendMessageDirect
      <4> QED BY <3>3, <4>1, <1>4, InCalmKeeps
    <3> QED BY <3>1, <3>2, <3>3, LanesAre
  <2> QED BY <1>4, <1>6, <2>2, <2>3, InCalmKeeps DEF Kept, LinesKept, SendMessageDirect
<1> QED BY <1>2, <1>5, <1>6 DEF SendMessageDirect

LEMMA PeerReadsKeeps ==
    ASSUME ChannelInv, PeerReads
    PROVE  Kept' /\ \E l \in Lanes : Lossy!Deliver(l)
<1> USE DEF app
<1>1. wireOut \in Seq(OutMessages) /\ wireOut # <<>> /\ LanesIncrease(wireOut)
  BY Numbers DEF ChannelInv, AcceptInv, OutboundInOrder, PeerReads
<1>0. PICK l \in {"queued", "direct"}, m \in Nat : l = Head(wireOut)[1] /\ m = Head(wireOut)[2]
  <2>1. Head(wireOut) \in OutMessages
    BY <1>1, TakenTyped
  <2> QED BY <2>1 DEF OutMessages
<1>2. l \in {"queued", "direct"} /\ m \in Nat /\ l \in Lanes
  BY LanesAre
<1>3. /\ LanesIncrease(wireOut)'
      /\ \A k \in Lanes \ {l} : OfLane(wireOut, k)' = OfLane(wireOut, k)
      /\ OfLane(wireOut, l)' = OfLane(wireOut, l) \ {m}
      /\ m \in OfLane(wireOut, l)
      /\ \A x \in OfLane(wireOut, l)' : m < x
  <2> DEFINE w == Tail(wireOut)
  <2>1. wireOut' = w
    BY DEF PeerReads
  <2>2. /\ LanesIncrease(w)
        /\ \A k \in Lanes \ {l} : OfLane(w, k) = OfLane(wireOut, k)
        /\ OfLane(w, l) = OfLane(wireOut, l) \ {m}
        /\ m \in OfLane(wireOut, l)
        /\ \A x \in OfLane(w, l) : m < x
    BY <1>0, <1>1, TakeFirstOut
  <2> HIDE DEF w
  <2>3. \A k : OfLane(wireOut, k)' = OfLane(w, k)
    BY <2>1 DEF OfLane
  <2>4. LanesIncrease(wireOut)'
    BY <2>1, <2>2 DEF LanesIncrease
  <2> QED BY <2>2, <2>3, <2>4
<1>4. HeldOut' = HeldOut /\ Values(txQueue)' = Values(txQueue)
  BY DEF PeerReads, HeldOut, Values
<1>5. UNCHANGED <<socket, txQueue, tries, accepted>> /\ InCalm
      /\ delivered' = [delivered EXCEPT ![l] = Append(@, m)]
  BY <1>0 DEF PeerReads, InCalm
<1>6. OfLane(wireOut, "queued")' \subseteq OfLane(wireOut, "queued")
  BY <1>2, <1>3, LanesAre
<1>7. OutboundInOrder'
  BY <1>3, <1>4, <1>5, <1>6 DEF ChannelInv, OutboundInOrder, Increasing
<1>8. m \in Transit(l) /\ (\A x \in Transit(l) : ~(x < m)) /\ Transit(l)' = Transit(l) \ {m}
  <2>1. CASE l = "queued" /\ socket = "up"
    <3>1. \A x \in HeldOut \cup Values(txQueue) : m < x /\ x \in Nat
      BY <2>1, <1>3, OutNumbers DEF ChannelInv, OutboundInOrder
    <3>2. \A x \in OfLane(wireOut, l) : x \in Nat /\ (x = m \/ m < x)
      BY <1>3, OutNumbers
    <3>3. /\ Transit(l) = OfLane(wireOut, l) \cup HeldOut \cup Values(txQueue)
          /\ Transit(l)' = OfLane(wireOut, l)' \cup HeldOut \cup Values(txQueue)
      BY <2>1, <1>4, <1>5 DEF Transit
    <3>4. \A x \in Transit(l) : ~(x < m)
      BY <1>2, <3>1, <3>2, <3>3
    <3>5. m \notin HeldOut \cup Values(txQueue)
      BY <1>2, <3>1
    <3> QED BY <1>3, <3>3, <3>4, <3>5
  <2>2. CASE ~(l = "queued" /\ socket = "up")
    <3>1. Transit(l) = OfLane(wireOut, l) /\ Transit(l)' = OfLane(wireOut, l)'
      BY <2>2, <1>2, <1>5 DEF Transit
    <3>2. \A x \in OfLane(wireOut, l) : x \in Nat /\ (x = m \/ m < x)
      BY <1>3, OutNumbers
    <3>3. \A x \in OfLane(wireOut, l) : ~(x < m)
      BY <1>2, <3>2
    <3> QED BY <1>3, <3>1, <3>3
  <2> QED BY <2>1, <2>2
<1>9. /\ LaneKept(l)' /\ Lossy!Deliver(l)
      /\ \A k \in Lanes \ {l} : SameLane(k)
  BY <1>2, <1>5, <1>8, Delivered DEF ChannelInv, AcceptInv, LinesKept
<1>10. ASSUME NEW k \in {"queued", "direct"} \ {l} PROVE LaneKept(k)'
  <2>1. Transit(k)' = Transit(k)
    BY <1>3, <1>4, <1>5, LanesAre DEF Transit
  <2> QED BY <2>1, <1>5, <1>9, LanesAre, LaneSame DEF ChannelInv, LinesKept
<1>11. LaneKept("in")'
  BY <1>2, <1>5, <1>9, LanesAre, InCalmKeeps
<1> QED BY <1>2, <1>5, <1>7, <1>9, <1>10, <1>11, LanesAre, InCalmKeeps DEF Kept, LinesKept

LEMMA PeerLeavesKeeps ==
    ASSUME ChannelInv, PeerLeaves
    PROVE  Kept' /\ UNCHANGED <<accepted, delivered>>
<1> USE DEF app, hist
<1>1. PICK i \in 0..Len(wireIn) : wireIn' = SubSeq(wireIn, 1, i)
  BY DEF PeerLeaves
<1>2. wireIn \in Seq(Nat)
  BY Numbers DEF ChannelInv, AcceptInv
<1>3. /\ Len(wireIn) \in Nat /\ i \in Nat /\ i <= Len(wireIn) /\ Len(wireIn') = i
      /\ \A j \in 1..i : wireIn'[j] = wireIn[j] /\ j \in 1..Len(wireIn)
      /\ \A j \in 1..Len(wireIn) : wireIn[j] \in Nat
  BY <1>1, <1>2
<1>4. Values(wireIn)' \subseteq Values(wireIn)
  BY <1>3 DEF Values
<1>5. ASSUME NEW x \in Values(wireIn)', NEW y \in Values(wireIn), y < x PROVE y \in Values(wireIn)'
  <2>1. PICK j \in 1..i : x = wireIn[j]
    BY <1>3 DEF Values
  <2>2. PICK k \in 1..Len(wireIn) : y = wireIn[k]
    BY DEF Values
  <2>3. ~(j < k) /\ j # k
    BY <2>1, <2>2, <1>3, <1>5 DEF ChannelInv, InboundInOrder, Increasing
  <2>4. k \in 1..i
    BY <2>3, <1>3
  <2> QED BY <2>2, <2>4, <1>3 DEF Values
<1>6. HeldIn' = HeldIn
  BY DEF PeerLeaves, HeldIn
<1>7. InboundInOrder'
  <2>1. Increasing(wireIn)'
    BY <1>3 DEF ChannelInv, InboundInOrder, Increasing
  <2>2. ASSUME auth' = "read" PROVE (wireIn' # <<>> /\ wireIn'[1] = 0) \/ wireIn' = <<>>
    <3>1. CASE i = 0
      BY <3>1, <1>1, <1>2
    <3>2. CASE i # 0
      <4>1. 1 \in 1..i /\ wireIn' # <<>>
        BY <3>2, <1>3
      <4>2. wireIn # <<>> /\ wireIn[1] = 0
        BY <2>2, <1>3, <3>2 DEF ChannelInv, InboundInOrder, PeerLeaves
      <4> QED BY <4>1, <4>2, <1>3
    <3> QED BY <3>1, <3>2
  <2> QED BY <2>1, <2>2, <1>4, <1>6 DEF ChannelInv, InboundInOrder, PeerLeaves
<1>8. OutboundInOrder'
  <2>1. Values(txQueue)' = Values(txQueue)
    BY DEF PeerLeaves, Values
  <2> QED BY <2>1 DEF ChannelInv, OutboundInOrder, PeerLeaves, LanesIncrease, Increasing
<1>9. socket = "up" /\ socket' # "up" /\ wireOut' = wireOut /\ \A l \in Lanes : SameLane(l)
  BY DEF PeerLeaves, SameLane
<1>10. LaneKept("queued")'
  BY <1>9, LanesAre, SocketGone
<1>11. LaneKept("direct")'
  <2>1. Transit("direct")' = Transit("direct")
    BY <1>9 DEF Transit, OfLane
  <2> QED BY <2>1, <1>9, LanesAre, LaneSame DEF ChannelInv, LinesKept
<1>12. LaneKept("in")'
  <2>1. /\ Transit("in") = (Values(wireIn) \ {0}) \cup HeldIn
        /\ Transit("in")' = (Values(wireIn)' \ {0}) \cup HeldIn
    BY <1>6 DEF Transit
  <2>2. ASSUME NEW x \in HeldIn, NEW y \in Values(wireIn) PROVE ~(y < x)
    <3>1. x < y
      BY DEF ChannelInv, InboundInOrder
    <3>2. x \in Nat /\ y \in Nat
      BY Numbers DEF ChannelInv, AcceptInv, HeldIn, Values
    <3> QED BY <3>1, <3>2
  <2>3. \A x \in Transit("in")', y \in Transit("in") : y < x => y \in Transit("in")'
    BY <2>1, <2>2, <1>5
  <2> QED BY <2>1, <2>3, <1>4, <1>9, LanesAre, LaneLost DEF ChannelInv, LinesKept
<1> QED BY <1>7, <1>8, <1>10, <1>11, <1>12, LanesAre DEF Kept, LinesKept, PeerLeaves

-----------------------------------------------------------------------------
LEMMA InitChannel == Init => ChannelInv /\ Lossy!Init
<1> SUFFICES ASSUME Init PROVE ChannelInv /\ Lossy!Init
  OBVIOUS
<1>1. AcceptInv
  BY InitAccept
<1>2. Len(<<>>) = 0 /\ Len(<<0>>) = 1 /\ <<0>>[1] = 0 /\ <<0>> # <<>>
  OBVIOUS
<1>3. Values(<<>>) = {} /\ \A l : OfLane(<<>>, l) = {}
  BY <1>2 DEF Values, OfLane
<1>4. HeldIn = {} /\ HeldOut = {}
  BY DEF Init, HeldIn, HeldOut
<1>5. InboundInOrder
  <2>1. Increasing(wireIn)
    BY <1>2 DEF Init, Increasing
  <2> QED BY <2>1, <1>2, <1>3, <1>4 DEF InboundInOrder, Init
<1>6. OutboundInOrder
  BY <1>2, <1>3, <1>4 DEF OutboundInOrder, Init, LanesIncrease, Increasing
<1>7. ASSUME NEW l \in Lanes PROVE LaneKept(l)
  <2>1. Values(wireIn) \ {0} = {}
    BY <1>2, <1>3 DEF Init, Values
  <2>2. Transit(l) = {}
    BY <2>1, <1>3, <1>4 DEF Transit, Init
  <2>3. accepted[l] = <<>> /\ delivered[l] = <<>>
    BY DEF Init
  <2>4. After(<<>>, <<>>) = {}
    BY <1>2 DEF After
  <2> QED BY <2>2, <2>3, <2>4, <1>2 DEF LaneKept, Line, Full
<1> QED BY <1>1, <1>5, <1>6, <1>7 DEF ChannelInv, LinesKept, Init, Lossy!Init

LEMMA NextChannel ==
    ASSUME ChannelInv, [Next]_vars
    PROVE  ChannelInv' /\ [Lossy!Next]_<<accepted, delivered>>
<1>1. AcceptInv /\ AcceptInv'
  BY NextAccept DEF ChannelInv
<1>2. ASSUME \/ Accept \/ AuthChecks \/ ReaderLooks \/ ReaderCloses \/ WriterCloses
             \/ Listeners \/ ClearTopics \/ Release \/ Dispose \/ Actor \/ RunLoop \/ UNCHANGED vars
      PROVE  Kept' /\ UNCHANGED <<accepted, delivered>>
  BY <1>1, <1>2, CalmSteps, CalmKeeps DEF Calm
<1>3. ASSUME NEW l \in Lanes, Lossy!Deliver(l) \/ \E m \in Msgs : Lossy!Accept(l, m)
      PROVE  Lossy!Next
  BY <1>3 DEF Lossy!Next
<1>4. Kept' /\ [Lossy!Next]_<<accepted, delivered>>
  <2>1. CASE AuthReads
    BY <2>1, AuthReadsKeeps
  <2>2. CASE ReaderReads
    BY <2>2, ReaderReadsKeeps
  <2>3. CASE ReaderHands
    BY <2>3, <1>3, LanesAre, ReaderHandsKeeps
  <2>4. CASE WriterTakes
    BY <2>4, WriterTakesKeeps
  <2>5. CASE WriterWrites
    BY <2>5, WriterWritesKeeps
  <2>6. CASE SendMessage
    BY <2>6, <1>3, LanesAre, SendMessageKeeps
  <2>7. CASE SendMessageDirect
    BY <2>7, <1>3, LanesAre, SendMessageDirectKeeps
  <2>8. CASE PeerSends
    BY <2>8, <1>3, LanesAre, PeerSendsKeeps
  <2>9. CASE PeerReads
    BY <2>9, <1>3, PeerReadsKeeps
  <2>10. CASE PeerLeaves
    BY <2>10, PeerLeavesKeeps
  <2> QED BY <1>2, <2>1, <2>2, <2>3, <2>4, <2>5, <2>6, <2>7, <2>8, <2>9, <2>10
          DEF Next, Auth, Reader, Writer
<1> QED BY <1>1, <1>4 DEF ChannelInv, Kept

LEMMA ChannelAlways == Spec => []ChannelInv
<1>1. Init => ChannelInv
  BY InitChannel
<1>2. ChannelInv /\ [Next]_vars => ChannelInv'
  BY NextChannel
<1> QED BY <1>1, <1>2, PTL DEF Spec
-----------------------------------------------------------------------------
(* Goroutines and queues keep their types, txQueue, rxQueue and the socket *)
(* their bounds (tcp_conn.go:50-68, client.go:107).                        *)
THEOREM Typed == Spec => []TypeOK
<1>1. AcceptInv => TypeOK
  BY DEF AcceptInv
<1> QED BY AcceptAlways, <1>1, PTL

(* The server's clients holds a connection only after its login was        *)
(* accepted and never after its OnDisconnect (tcp_server.go:123-167), and  *)
(* no message reaches a Client of a connection that was not accepted.      *)
THEOREM AcceptedAreLive == Spec => []ClientsAreLive
<1>1. AcceptInv => ClientsAreLive
  BY DEF AcceptInv
<1> QED BY AcceptAlways, <1>1, PTL

(* The connection is a Channel (iconn.go): on each lane messages come out  *)
(* in the order in which they were accepted, without a repetition and      *)
(* without a gap (tcp_conn.go:57-170, websocket_conn.go:59-156), although  *)
(* two goroutines read the socket one after the other, SendMessageDirect   *)
(* writes past txQueue and anybody may close in between.                   *)
THEOREM ImplementsTheChannel == Spec => ImplementsChannel
<1>1. Init => Lossy!Init
  BY InitChannel
<1>2. ChannelInv /\ [Next]_vars => [Lossy!Next]_<<accepted, delivered>>
  BY NextChannel
<1> QED BY <1>1, <1>2, ChannelAlways, PTL DEF Spec, ImplementsChannel, Lossy!Spec
=============================================================================
