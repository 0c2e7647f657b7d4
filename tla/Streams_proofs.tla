--------------------------- MODULE Streams_proofs ---------------------------
(***************************************************************************)
(* EntryIsServed and InOrder for any number of streams, any capacity and   *)
(* any number of requests: the map handlingStream and the goroutines that  *)
(* read its Streams agree, and a Stream is given its packets in order,     *)
(* whatever the two run loops and the application do.                      *)
(***************************************************************************)
EXTENDS Streams, SequenceTheorems, TLAPS

(* What EntryIsServed rests on: a Stream that was not created yet is not   *)
(* served, the map holds Streams of its own end under their own ids, and a *)
(* run loop holds a packet for a Stream of its own end, that is started    *)
(* exactly when this is its first packet.                                  *)
NotMadeYet ==
    \A o \in Objects : o[3] > made[EndOf(o)][IdOf(o)] => serve[o] = "none"

HeldIsOwn ==
    \A e \in Ends : loop[e] # Nil =>
        /\ EndOf(loop[e].to) = e
        /\ loop[e].to[3] <= made[e][IdOf(loop[e].to)]
        /\ loop[e].start <=> serve[loop[e].to] = "none"

EntryIsOwn ==
    \A e \in Ends, s \in Ids : handlingStream[e][s] # Nil =>
        EndOf(handlingStream[e][s]) = e /\ IdOf(handlingStream[e][s]) = s

EntryInv == TypeOK /\ NotMadeYet /\ EntryIsOwn /\ HeldIsOwn /\ EntryIsServed

-----------------------------------------------------------------------------
LEMMA ObjectFacts ==
    ASSUME NEW o \in Objects
    PROVE  /\ EndOf(o) \in Ends /\ IdOf(o) \in Ids /\ o[3] \in Nat
           /\ o = <<EndOf(o), IdOf(o), o[3]>>
           /\ o # Nil
BY StreamsAssumption, NilAssumption DEF Objects, Ends, EndOf, IdOf

LEMMA WriteTyped ==
    ASSUME TypeOK, NEW e \in Ends, NEW k \in Kinds, NEW s \in Ids, Write(e, k, s)
    PROVE  wire' \in [Ends -> Seq(Packets)] /\ out' \in [Ends -> [Ids -> Nat]]
<1>1. CASE lost
  BY <1>1 DEF Write, TypeOK
<1>2. CASE ~lost
  <2>1. [kind |-> k, id |-> s, n |-> out[e][s] + 1] \in Packets
    BY DEF TypeOK, Packets
  <2>2. Peer(e) \in Ends
    BY DEF Peer, Ends
  <2>3. wire[Peer(e)] \in Seq(Packets) /\ out[e][s] \in Nat
    BY <2>2 DEF TypeOK
  <2>4. Append(wire[Peer(e)], [kind |-> k, id |-> s, n |-> out[e][s] + 1]) \in Seq(Packets)
    BY <2>1, <2>3
  <2>5. wire' = [wire EXCEPT ![Peer(e)] =
                   Append(wire[Peer(e)], [kind |-> k, id |-> s, n |-> out[e][s] + 1])]
    BY <1>2 DEF Write
  <2>6. out' = [out EXCEPT ![e][s] = out[e][s] + 1]
    BY <1>2 DEF Write
  <2>7. wire' \in [Ends -> Seq(Packets)]
    BY <2>2, <2>4, <2>5 DEF TypeOK
  <2>8. out' \in [Ends -> [Ids -> Nat]]
    BY <2>3, <2>6 DEF TypeOK
  <2> QED BY <2>7, <2>8
<1> QED BY <1>1, <1>2 DEF TypeOK

(* The initial state, in which nobody has opened a stream *)
LEMMA InitEntry == Init => EntryInv
<1> SUFFICES ASSUME Init PROVE EntryInv
  OBVIOUS
<1>1. TypeOK
  <2>1. /\ wire \in [Ends -> Seq(Packets)]
        /\ OnRev \in [Objects -> Seq(Packets)] /\ heard \in [Objects -> Seq(Packets)]
    BY DEF Init
  <2>2. \A o \in Objects : Len(OnRev[o]) <= OnRevLen
    BY StreamsAssumption DEF Init
  <2>3. /\ handlingStream \in [Ends -> [Ids -> Objects \cup {Nil}]]
        /\ made \in [Ends -> [Ids -> 0..Sends]]
        /\ out \in [Ends -> [Ids -> Nat]]
        /\ loop \in [Ends -> Held \cup {Nil}]
    BY StreamsAssumption DEF Init
  <2>5. opts \in Options /\ lost \in BOOLEAN
    BY DEF Init
  <2>4. /\ serve \in [Objects -> {"none", "ask", "run", "ended", "closing", "done"}]
        /\ sent \in [Ids -> 0..(Sends + 1)]
        /\ replies \in [Objects -> Nat] /\ strays \in [Ends -> Nat]
    BY StreamsAssumption DEF Init
  <2> QED BY <2>1, <2>2, <2>3, <2>4, <2>5 DEF TypeOK
<1>2. NotMadeYet /\ HeldIsOwn /\ EntryIsOwn
  BY DEF Init, NotMadeYet, HeldIsOwn, EntryIsOwn
<1>3. EntryIsServed
  BY ObjectFacts DEF Init, EntryIsServed, Live
<1> QED BY <1>1, <1>2, <1>3 DEF EntryInv

-----------------------------------------------------------------------------
(* StreamRequest stores a Stream that was not there: the id is new *)
LEMMA StreamRequestStep ==
    ASSUME EntryInv, NEW s \in Ids, StreamRequest(s)
    PROVE  EntryInv'
<1> DEFINE o == <<"client", s, 1>>
<1>1. o \in Objects /\ "client" \in Ends /\ EndOf(o) = "client" /\ IdOf(o) = s
  BY DEF Objects, Ends, EndOf, IdOf
<1>2. made["client"][s] = 0 /\ serve[o] = "none"
  BY <1>1 DEF StreamRequest, EntryInv, NotMadeYet
<1>3. TypeOK'
  <2>1. 1 \in 0..Sends
    BY StreamsAssumption
  <2>2. made' \in [Ends -> [Ids -> 0..Sends]]
    BY <2>1 DEF StreamRequest, EntryInv, TypeOK
  <2>3. handlingStream' \in [Ends -> [Ids -> Objects \cup {Nil}]]
    BY <1>1 DEF StreamRequest, EntryInv, TypeOK
  <2>4. serve' \in [Objects -> {"none", "ask", "run", "ended", "closing", "done"}]
    BY DEF StreamRequest, EntryInv, TypeOK
  <2>5. UNCHANGED <<opts, lost, wire, OnRev, loop, sent, replies, strays, out, heard>>
    BY DEF StreamRequest
  <2> QED BY <2>2, <2>3, <2>4, <2>5 DEF EntryInv, TypeOK
<1>4. \A p \in Objects : EndOf(p) = "client" /\ IdOf(p) = s => p = o
  BY DEF Objects, EndOf, IdOf
<1>9. \A e \in Ends, t \in Ids : made[e][t] \in Nat /\ made'[e][t] \in Nat
                                  /\ made'[e][t] >= made[e][t]
  <2> SUFFICES ASSUME NEW e \in Ends, NEW t \in Ids
               PROVE  /\ made[e][t] \in Nat /\ made'[e][t] \in Nat
                      /\ made'[e][t] >= made[e][t]
    OBVIOUS
  <2>1. made[e][t] \in Nat
    BY StreamsAssumption DEF EntryInv, TypeOK
  <2>2. made'[e][t] = IF e = "client" /\ t = s THEN 1 ELSE made[e][t]
    BY DEF StreamRequest, EntryInv, TypeOK
  <2> QED BY <2>1, <2>2, <1>2
<1>10. made'["client"][s] = 1 /\ o[3] = 1
  BY <1>1 DEF StreamRequest, EntryInv, TypeOK
<1>11. \A p \in Objects : p # o => serve'[p] = serve[p]
  BY <1>1 DEF StreamRequest, EntryInv, TypeOK
<1>5. NotMadeYet'
  <2> SUFFICES ASSUME NEW p \in Objects, p[3] > made'[EndOf(p)][IdOf(p)]
               PROVE  serve'[p] = "none"
    BY DEF NotMadeYet
  <2>1. p # o
    BY <1>1, <1>10
  <2>2. p[3] > made[EndOf(p)][IdOf(p)]
    BY <1>9, ObjectFacts
  <2> QED BY <2>1, <2>2, <1>11 DEF EntryInv, NotMadeYet
<1>6. ASSUME NEW e \in Ends, loop[e] # Nil
      PROVE  loop[e].to \in Objects /\ loop[e].to # o
  <2>1. loop[e] \in Held
    BY <1>6 DEF EntryInv, TypeOK
  <2>2. loop[e].to \in Objects
    BY <2>1 DEF Held
  <2>3. loop[e].to[3] <= made[e][IdOf(loop[e].to)] /\ EndOf(loop[e].to) = e
    BY <1>6 DEF EntryInv, HeldIsOwn
  <2> QED BY <2>2, <2>3, <1>1, <1>2, <1>10
<1>7. HeldIsOwn'
  <2> SUFFICES ASSUME NEW e \in Ends, loop'[e] # Nil
               PROVE  /\ EndOf(loop'[e].to) = e
                      /\ loop'[e].to[3] <= made'[e][IdOf(loop'[e].to)]
                      /\ loop'[e].start <=> serve'[loop'[e].to] = "none"
    BY DEF HeldIsOwn
  <2>1. loop' = loop
    BY DEF StreamRequest
  <2>2. loop[e].to \in Objects /\ loop[e].to # o
    BY <1>6, <2>1
  <2>3. serve'[loop[e].to] = serve[loop[e].to]
    BY <2>2, <1>11
  <2>4. loop[e].to[3] \in Nat /\ IdOf(loop[e].to) \in Ids
    BY <2>2, ObjectFacts
  <2> QED BY <2>1, <2>3, <2>4, <1>9 DEF EntryInv, HeldIsOwn
<1>8. EntryIsServed'
  <2> SUFFICES ASSUME NEW p \in Objects
               PROVE  (Live(p) <=> handlingStream[EndOf(p)][IdOf(p)] = p)'
    BY DEF EntryIsServed
  <2>1. EndOf(p) \in Ends /\ IdOf(p) \in Ids
    BY ObjectFacts
  <2>2. CASE p = o
    BY <2>2, <1>1 DEF StreamRequest, EntryInv, TypeOK, Live
  <2>3. CASE p # o
    <3>1. handlingStream'[EndOf(p)][IdOf(p)] = handlingStream[EndOf(p)][IdOf(p)]
      BY <2>1, <2>3, <1>4 DEF StreamRequest, EntryInv, TypeOK
    <3>2. serve'[p] = serve[p] /\ loop' = loop
      BY <2>3, <1>1 DEF StreamRequest, EntryInv, TypeOK
    <3> QED BY <3>1, <3>2 DEF EntryInv, EntryIsServed, Live
  <2> QED BY <2>2, <2>3
<1>12. EntryIsOwn'
  BY <1>1 DEF StreamRequest, EntryInv, TypeOK, EntryIsOwn
<1> QED BY <1>3, <1>5, <1>7, <1>8, <1>12 DEF EntryInv

-----------------------------------------------------------------------------
Served == {"ask", "run", "ended"}

(* A step that neither begins nor ends the service of a Stream, and leaves *)
(* the map and the run loops alone, keeps the other parts.                 *)
LEMMA KeptWhenServedSame ==
    ASSUME EntryInv, made' = made, handlingStream' = handlingStream, loop' = loop,
           \A o \in Objects : /\ serve'[o] = "none" <=> serve[o] = "none"
                              /\ serve'[o] \in Served <=> serve[o] \in Served
    PROVE  NotMadeYet' /\ EntryIsOwn' /\ HeldIsOwn' /\ EntryIsServed'
<1>1. NotMadeYet'
  <2> SUFFICES ASSUME NEW o \in Objects, o[3] > made'[EndOf(o)][IdOf(o)]
               PROVE  serve'[o] = "none"
    BY DEF NotMadeYet
  <2>1. serve[o] = "none"
    BY DEF EntryInv, NotMadeYet
  <2> QED BY <2>1
<1>2. ASSUME NEW e \in Ends, loop[e] # Nil
      PROVE  loop[e].to \in Objects
  <2>1. loop[e] \in Held
    BY <1>2 DEF EntryInv, TypeOK
  <2> QED BY <2>1 DEF Held
<1>3. HeldIsOwn'
  <2> SUFFICES ASSUME NEW e \in Ends, loop'[e] # Nil
               PROVE  /\ EndOf(loop'[e].to) = e
                      /\ loop'[e].to[3] <= made'[e][IdOf(loop'[e].to)]
                      /\ loop'[e].start <=> serve'[loop'[e].to] = "none"
    BY DEF HeldIsOwn
  <2>1. loop[e] # Nil /\ loop[e].to \in Objects
    BY <1>2
  <2>2. serve'[loop[e].to] = "none" <=> serve[loop[e].to] = "none"
    BY <2>1
  <2>3. /\ EndOf(loop[e].to) = e
        /\ loop[e].to[3] <= made[e][IdOf(loop[e].to)]
        /\ loop[e].start <=> serve[loop[e].to] = "none"
    BY <2>1 DEF EntryInv, HeldIsOwn
  <2>4. /\ EndOf(loop'[e].to) = e
        /\ loop'[e].to[3] <= made'[e][IdOf(loop'[e].to)]
    BY <2>3
  <2>5. loop'[e].start <=> serve'[loop'[e].to] = "none"
    BY <2>2, <2>3
  <2> QED BY <2>4, <2>5
<1>4. EntryIsServed'
  <2> SUFFICES ASSUME NEW o \in Objects
               PROVE  (Live(o) <=> handlingStream[EndOf(o)][IdOf(o)] = o)'
    BY DEF EntryIsServed
  <2>1. /\ serve'[o] = "none" <=> serve[o] = "none"
        /\ serve'[o] \in {"ask", "run", "ended"} <=> serve[o] \in {"ask", "run", "ended"}
    BY DEF Served
  <2>2. Live(o)' <=> Live(o)
    BY <2>1 DEF Live
  <2> QED BY <2>2 DEF EntryInv, EntryIsServed
<1>5. EntryIsOwn'
  BY DEF EntryInv, EntryIsOwn
<1> QED BY <1>1, <1>3, <1>4, <1>5

LEMMA ServeStep ==
    ASSUME EntryInv, NEW o \in Objects, NEW l \in {"ask", "run", "ended", "closing", "done"},
           serve' = [serve EXCEPT ![o] = l], serve[o] # "none",
           serve[o] \in Served <=> l \in Served
    PROVE  \A p \in Objects : /\ serve'[p] = "none" <=> serve[p] = "none"
                              /\ serve'[p] \in Served <=> serve[p] \in Served
BY DEF EntryInv, TypeOK

LEMMA AskedStep ==
    ASSUME EntryInv, NEW s \in Ids, Asked(s)
    PROVE  EntryInv'
<1> DEFINE o == <<"client", s, 1>>
<1>1. o \in Objects
  BY DEF Objects
<1>2. TypeOK'
  BY <1>1 DEF EntryInv, TypeOK, Asked
<1>3. \A p \in Objects : /\ serve'[p] = "none" <=> serve[p] = "none"
                         /\ serve'[p] \in Served <=> serve[p] \in Served
  BY <1>1, ServeStep DEF Asked, Served
<1> QED BY <1>2, <1>3, KeptWhenServedSame DEF EntryInv, Asked

LEMMA ClientSendsStep ==
    ASSUME EntryInv, NEW s \in Ids, ClientSends(s)
    PROVE  EntryInv'
<1>1. wire' \in [Ends -> Seq(Packets)] /\ out' \in [Ends -> [Ids -> Nat]]
  <2>1. (IF sent[s] < Sends THEN "req" ELSE "close") \in Kinds /\ "client" \in Ends
    BY DEF Kinds, Ends
  <2> QED BY <2>1, WriteTyped DEF ClientSends, EntryInv
<1>2. sent' \in [Ids -> 0..(Sends + 1)]
  BY StreamsAssumption DEF ClientSends, EntryInv, TypeOK
<1>3. TypeOK'
  BY <1>1, <1>2 DEF ClientSends, EntryInv, TypeOK
<1> QED BY <1>3, KeptWhenServedSame DEF EntryInv, ClientSends

LEMMA RefuseStep ==
    ASSUME EntryInv, NEW e \in Ends, Refuse(e)
    PROVE  EntryInv'
<1>1. wire' \in [Ends -> Seq(Packets)]
  <2>1. [kind |-> "close", id |-> Nil, n |-> 0] \in Packets /\ Peer(e) \in Ends
    BY DEF Packets, Kinds, Peer, Ends
  <2>2. wire[Peer(e)] \in Seq(Packets)
    BY <2>1 DEF EntryInv, TypeOK
  <2>3. Append(wire[Peer(e)], [kind |-> "close", id |-> Nil, n |-> 0]) \in Seq(Packets)
    BY <2>1, <2>2
  <2> QED BY <2>1, <2>3 DEF Refuse, EntryInv, TypeOK
<1>2. strays' \in [Ends -> Nat]
  <2>1. strays[e] - 1 \in Nat
    BY DEF Refuse, EntryInv, TypeOK
  <2> QED BY <2>1 DEF Refuse, EntryInv, TypeOK
<1>3. TypeOK'
  BY <1>1, <1>2 DEF Refuse, EntryInv, TypeOK
<1> QED BY <1>3, KeptWhenServedSame DEF EntryInv, Refuse

LEMMA AnswerStep ==
    ASSUME EntryInv, NEW o \in Objects, Answer(o)
    PROVE  EntryInv'
<1>1. wire' \in [Ends -> Seq(Packets)] /\ out' \in [Ends -> [Ids -> Nat]]
  <2>1. opts.reply \in Kinds
    BY StreamsAssumption DEF EntryInv, TypeOK, OptionRecords, Kinds
  <2>2. EndOf(o) \in Ends /\ IdOf(o) \in Ids
    BY ObjectFacts
  <2> QED BY <2>1, <2>2, WriteTyped DEF Answer, EntryInv
<1>2. replies' \in [Objects -> Nat]
  <2>1. replies[o] - 1 \in Nat
    BY DEF Answer, EntryInv, TypeOK
  <2> QED BY <2>1 DEF Answer, EntryInv, TypeOK
<1>3. TypeOK'
  BY <1>1, <1>2 DEF Answer, EntryInv, TypeOK
<1> QED BY <1>3, KeptWhenServedSame DEF EntryInv, Answer

LEMMA LoseStep ==
    ASSUME EntryInv, Lose
    PROVE  EntryInv'
<1>1. wire' \in [Ends -> Seq(Packets)]
  BY DEF Lose
<1>2. TypeOK'
  BY <1>1 DEF Lose, EntryInv, TypeOK
<1> QED BY <1>2, KeptWhenServedSame DEF EntryInv, Lose

LEMMA EndEarlyStep ==
    ASSUME EntryInv, NEW o \in Objects, EndEarly(o)
    PROVE  EntryInv'
<1>1. TypeOK'
  BY DEF EntryInv, TypeOK, EndEarly
<1>2. \A p \in Objects : /\ serve'[p] = "none" <=> serve[p] = "none"
                         /\ serve'[p] \in Served <=> serve[p] \in Served
  BY ServeStep DEF EndEarly, Served
<1> QED BY <1>1, <1>2, KeptWhenServedSame DEF EntryInv, EndEarly

LEMMA SendCloseStep ==
    ASSUME EntryInv, NEW o \in Objects, SendClose(o)
    PROVE  EntryInv'
<1>1. wire' \in [Ends -> Seq(Packets)] /\ out' \in [Ends -> [Ids -> Nat]]
  <2>1. "close" \in Kinds /\ EndOf(o) \in Ends /\ IdOf(o) \in Ids
    BY ObjectFacts DEF Kinds
  <2> QED BY <2>1, WriteTyped DEF SendClose, EntryInv
<1>2. TypeOK'
  BY <1>1 DEF EntryInv, TypeOK, SendClose
<1>3. \A p \in Objects : /\ serve'[p] = "none" <=> serve[p] = "none"
                         /\ serve'[p] \in Served <=> serve[p] \in Served
  BY ServeStep DEF SendClose, Served
<1> QED BY <1>2, <1>3, KeptWhenServedSame DEF EntryInv, SendClose

LEMMA ReadStep ==
    ASSUME EntryInv, NEW o \in Objects, Read(o)
    PROVE  EntryInv'
<1>1. OnRev[o] \in Seq(Packets) /\ OnRev[o] # <<>> /\ heard[o] \in Seq(Packets)
  BY DEF Read, EntryInv, TypeOK
<1>2. /\ Head(OnRev[o]) \in Packets /\ Tail(OnRev[o]) \in Seq(Packets)
      /\ Len(Tail(OnRev[o])) = Len(OnRev[o]) - 1 /\ Len(OnRev[o]) \in Nat
  BY <1>1
<1>3. Append(heard[o], Head(OnRev[o])) \in Seq(Packets)
  BY <1>1, <1>2
<1>4. OnRev' \in [Objects -> Seq(Packets)] /\ heard' \in [Objects -> Seq(Packets)]
  BY <1>2, <1>3 DEF Read, EntryInv, TypeOK
<1>5. \A p \in Objects : Len(OnRev'[p]) <= OnRevLen
  BY <1>2, StreamsAssumption DEF Read, EntryInv, TypeOK
<1>6. replies' \in [Objects -> Nat]
  BY DEF Read, EntryInv, TypeOK
<1>7. serve' = serve \/ serve' = [serve EXCEPT ![o] = "ended"]
  BY DEF Read
<1>8. TypeOK'
  BY <1>4, <1>5, <1>6, <1>7 DEF Read, EntryInv, TypeOK
<1>9. \A p \in Objects : /\ serve'[p] = "none" <=> serve[p] = "none"
                         /\ serve'[p] \in Served <=> serve[p] \in Served
  BY <1>7, ServeStep DEF Read, Served
<1> QED BY <1>8, <1>9, KeptWhenServedSame DEF EntryInv, Read

-----------------------------------------------------------------------------
(* execute returned: the entry of the Stream that ended was its own *)
LEMMA FinishStep ==
    ASSUME EntryInv, NEW o \in Objects, Finish(o)
    PROVE  EntryInv'
<1> DEFINE e == EndOf(o)
           s == IdOf(o)
<1>1. e \in Ends /\ s \in Ids /\ o # Nil
  BY ObjectFacts
<1>2. serve[o] = "ended" /\ handlingStream[e][s] = o
  BY DEF Finish, EntryInv, EntryIsServed, Live
<1>3. /\ serve' = [serve EXCEPT ![o] = "closing"]
      /\ handlingStream' = [handlingStream EXCEPT ![e][s] = Nil]
      /\ made' = made /\ loop' = loop
  BY <1>1, <1>2 DEF Finish
<1>4. /\ \A p \in Objects : serve'[p] = IF p = o THEN "closing" ELSE serve[p]
      /\ \A d \in Ends, t \in Ids :
           handlingStream'[d][t] = IF d = e /\ t = s THEN Nil ELSE handlingStream[d][t]
  BY <1>1, <1>3 DEF EntryInv, TypeOK
<1>5. TypeOK'
  BY <1>1, <1>3 DEF Finish, EntryInv, TypeOK
<1>6. NotMadeYet'
  <2> SUFFICES ASSUME NEW p \in Objects, p[3] > made'[EndOf(p)][IdOf(p)]
               PROVE  serve'[p] = "none"
    BY DEF NotMadeYet
  <2>1. serve[p] = "none"
    BY <1>3 DEF EntryInv, NotMadeYet
  <2> QED BY <2>1, <1>2, <1>4
<1>7. EntryIsOwn'
  BY <1>4 DEF EntryInv, EntryIsOwn
<1>8. HeldIsOwn'
  <2> SUFFICES ASSUME NEW d \in Ends, loop'[d] # Nil
               PROVE  /\ EndOf(loop'[d].to) = d
                      /\ loop'[d].to[3] <= made'[d][IdOf(loop'[d].to)]
                      /\ loop'[d].start <=> serve'[loop'[d].to] = "none"
    BY DEF HeldIsOwn
  <2>1. loop[d] # Nil /\ loop[d].to \in Objects
    BY <1>3 DEF EntryInv, TypeOK, Held
  <2>2. serve'[loop[d].to] = "none" <=> serve[loop[d].to] = "none"
    BY <2>1, <1>2, <1>4
  <2> QED BY <2>1, <2>2, <1>3 DEF EntryInv, HeldIsOwn
<1>9. EntryIsServed'
  <2> SUFFICES ASSUME NEW p \in Objects
               PROVE  (Live(p) <=> handlingStream[EndOf(p)][IdOf(p)] = p)'
    BY DEF EntryIsServed
  <2>1. EndOf(p) \in Ends /\ IdOf(p) \in Ids /\ p # Nil
    BY ObjectFacts
  <2>2. CASE p = o
    BY <2>1, <2>2, <1>4 DEF Live
  <2>3. CASE p # o
    <3>1. Live(p)' <=> Live(p)
      BY <2>3, <1>3, <1>4 DEF Live
    <3>2. Live(p) <=> handlingStream[EndOf(p)][IdOf(p)] = p
      BY DEF EntryInv, EntryIsServed
    <3>3. handlingStream'[EndOf(p)][IdOf(p)] = p <=> handlingStream[EndOf(p)][IdOf(p)] = p
      BY <2>1, <2>3, <1>2, <1>4
    <3> QED BY <3>1, <3>2, <3>3
  <2> QED BY <2>2, <2>3
<1> QED BY <1>5, <1>6, <1>7, <1>8, <1>9 DEF EntryInv

-----------------------------------------------------------------------------
(* The held packet goes into OnRev; if it is the first one, the Stream is  *)
(* served from here on, and was only about to be before.                   *)
LEMMA DeliverStep ==
    ASSUME EntryInv, NEW e \in Ends, Deliver(e)
    PROVE  EntryInv'
<1> DEFINE h == loop[e]
           o == h.to
<1>1. h # Nil /\ h \in Held /\ o \in Objects /\ h.pkt \in Packets
  BY DEF Deliver, EntryInv, TypeOK, Held
<1>2. EndOf(o) = e /\ (h.start <=> serve[o] = "none") /\ o[3] <= made[e][IdOf(o)]
  BY <1>1 DEF EntryInv, HeldIsOwn
<1>3. /\ loop' = [loop EXCEPT ![e] = Nil]
      /\ serve' = IF h.start THEN [serve EXCEPT ![o] = "run"] ELSE serve
      /\ made' = made /\ handlingStream' = handlingStream
  BY DEF Deliver
<1>4. /\ \A p \in Objects : p # o => serve'[p] = serve[p]
      /\ serve[o] = "none" => serve'[o] = "run"
      /\ serve[o] # "none" => serve'[o] = serve[o]
      /\ loop'[e] = Nil
      /\ \A d \in Ends : d # e => loop'[d] = loop[d]
  BY <1>1, <1>2, <1>3 DEF EntryInv, TypeOK
<1>5. TypeOK'
  <2>1. OnRev[o] \in Seq(Packets) /\ Len(OnRev[o]) < OnRevLen
    BY <1>1 DEF Deliver, HasRoom, EntryInv, TypeOK
  <2>2. /\ Append(OnRev[o], h.pkt) \in Seq(Packets)
        /\ Len(Append(OnRev[o], h.pkt)) = Len(OnRev[o]) + 1 /\ Len(OnRev[o]) \in Nat
    BY <2>1, <1>1
  <2>3. OnRev' = [OnRev EXCEPT ![o] = Append(OnRev[o], h.pkt)]
    BY DEF Deliver
  <2>4. OnRev' \in [Objects -> Seq(Packets)]
    BY <1>1, <2>2, <2>3 DEF EntryInv, TypeOK
  <2>5. \A p \in Objects : Len(OnRev'[p]) <= OnRevLen
    BY <1>1, <2>1, <2>2, <2>3, StreamsAssumption DEF EntryInv, TypeOK
  <2>6. loop' \in [Ends -> Held \cup {Nil}]
    BY <1>3 DEF EntryInv, TypeOK
  <2>7. serve' \in [Objects -> {"none", "ask", "run", "ended", "closing", "done"}]
    BY <1>1, <1>3 DEF EntryInv, TypeOK
  <2> QED BY <2>4, <2>5, <2>6, <2>7 DEF Deliver, EntryInv, TypeOK
<1>6. NotMadeYet'
  <2> SUFFICES ASSUME NEW p \in Objects, p[3] > made'[EndOf(p)][IdOf(p)]
               PROVE  serve'[p] = "none"
    BY DEF NotMadeYet
  <2>1. serve[p] = "none"
    BY <1>3 DEF EntryInv, NotMadeYet
  <2>2. p # o
    <3>1. o[3] \in Nat /\ made[e][IdOf(o)] \in Nat
      <4>1. o[3] \in Nat /\ IdOf(o) \in Ids
        BY <1>1, ObjectFacts
      <4>2. made[e][IdOf(o)] \in 0..Sends
        BY <4>1 DEF EntryInv, TypeOK
      <4> QED BY <4>1, <4>2
    <3> QED BY <3>1, <1>2, <1>3
  <2> QED BY <2>1, <2>2, <1>4
<1>7. EntryIsOwn'
  BY <1>3 DEF EntryInv, EntryIsOwn
<1>8. HeldIsOwn'
  <2> SUFFICES ASSUME NEW d \in Ends, loop'[d] # Nil
               PROVE  /\ EndOf(loop'[d].to) = d
                      /\ loop'[d].to[3] <= made'[d][IdOf(loop'[d].to)]
                      /\ loop'[d].start <=> serve'[loop'[d].to] = "none"
    BY DEF HeldIsOwn
  <2>1. d # e /\ loop'[d] = loop[d]
    BY <1>4
  <2>2. loop[d] # Nil /\ loop[d].to \in Objects
    BY <2>1 DEF EntryInv, TypeOK, Held
  <2>3. EndOf(loop[d].to) = d
    BY <2>2 DEF EntryInv, HeldIsOwn
  <2>4. serve'[loop[d].to] = serve[loop[d].to]
    BY <2>1, <2>2, <2>3, <1>2, <1>4
  <2> QED BY <2>1, <2>2, <2>4, <1>3 DEF EntryInv, HeldIsOwn
<1>9. EntryIsServed'
  <2> SUFFICES ASSUME NEW p \in Objects
               PROVE  (Live(p) <=> handlingStream[EndOf(p)][IdOf(p)] = p)'
    BY DEF EntryIsServed
  <2>1. EndOf(p) \in Ends
    BY ObjectFacts
  <2>2. Live(p)' <=> Live(p)
    <3>1. CASE p = o
      BY <3>1, <1>1, <1>2, <1>4 DEF Live
    <3>2. CASE p # o
      BY <3>2, <2>1, <1>4 DEF Live
    <3> QED BY <3>1, <3>2
  <2> QED BY <2>2, <1>3 DEF EntryInv, EntryIsServed
<1> QED BY <1>5, <1>6, <1>7, <1>8, <1>9 DEF EntryInv

-----------------------------------------------------------------------------
(* The run loop takes a packet: it holds it for a Stream it finds, creates *)
(* a Stream for it, or has nobody to give it to.                           *)
LEMMA ReceiveTyped ==
    ASSUME EntryInv, NEW e \in Ends, Receive(e)
    PROVE  /\ Head(wire[e]) \in Packets
           /\ wire' \in [Ends -> Seq(Packets)]
<1>1. wire[e] \in Seq(Packets) /\ wire[e] # <<>>
  BY DEF Receive, EntryInv, TypeOK
<1>2. Head(wire[e]) \in Packets /\ Tail(wire[e]) \in Seq(Packets)
  BY <1>1
<1> QED BY <1>2 DEF Receive, EntryInv, TypeOK

LEMMA KnownStep ==
    ASSUME EntryInv, NEW e \in Ends, Receive(e), NEW pkt \in Packets, pkt = Head(wire[e]),
           OnReceiveKnown(e, pkt)
    PROVE  EntryInv'
<1> DEFINE o == handlingStream[e][pkt.id]
           h == [to |-> o, pkt |-> pkt, start |-> FALSE]
<1>1. pkt.id \in Ids /\ o # Nil
  BY DEF OnReceiveKnown, Known, Packets
<1>2. o \in Objects /\ EndOf(o) = e /\ IdOf(o) = pkt.id
  BY <1>1 DEF EntryInv, TypeOK, EntryIsOwn
<1>3. h \in Held
  BY <1>2 DEF Held
<1>12. h # Nil
  BY <1>3, NilAssumption
<1>4. /\ loop[e] = Nil /\ loop' = [loop EXCEPT ![e] = h]
      /\ made' = made /\ handlingStream' = handlingStream /\ serve' = serve /\ strays' = strays
  BY DEF Receive, OnReceiveKnown
<1>5. /\ loop'[e] = h /\ h.to = o /\ h.start = FALSE
      /\ \A d \in Ends : d # e => loop'[d] = loop[d]
  BY <1>4 DEF EntryInv, TypeOK
<1>6. serve[o] \in {"ask", "run", "ended"}
  BY <1>2, <1>4 DEF EntryInv, EntryIsServed, Live
<1>7. o[3] <= made[e][pkt.id]
  <2>1. o[3] \in Nat /\ made[e][pkt.id] \in Nat
    BY <1>1, <1>2, ObjectFacts, StreamsAssumption DEF EntryInv, TypeOK
  <2>2. ~(o[3] > made[e][pkt.id])
    BY <1>2, <1>6 DEF EntryInv, NotMadeYet
  <2> QED BY <2>1, <2>2
<1>8. TypeOK'
  <2>1. loop' \in [Ends -> Held \cup {Nil}]
    BY <1>3, <1>4 DEF EntryInv, TypeOK
  <2> QED BY <2>1, <1>4, ReceiveTyped DEF Receive, EntryInv, TypeOK
<1>9. NotMadeYet' /\ EntryIsOwn'
  <2>1. NotMadeYet'
    <3> SUFFICES ASSUME NEW p \in Objects, p[3] > made'[EndOf(p)][IdOf(p)]
                 PROVE  serve'[p] = "none"
      BY DEF NotMadeYet
    <3> QED BY <1>4 DEF EntryInv, NotMadeYet
  <2>2. EntryIsOwn'
    BY <1>4 DEF EntryInv, EntryIsOwn
  <2> QED BY <2>1, <2>2
<1>10. HeldIsOwn'
  <2> SUFFICES ASSUME NEW d \in Ends, loop'[d] # Nil
               PROVE  /\ EndOf(loop'[d].to) = d
                      /\ loop'[d].to[3] <= made'[d][IdOf(loop'[d].to)]
                      /\ loop'[d].start <=> serve'[loop'[d].to] = "none"
    BY DEF HeldIsOwn
  <2>1. CASE d = e
    BY <2>1, <1>2, <1>4, <1>5, <1>6, <1>7
  <2>2. CASE d # e
    BY <2>2, <1>4, <1>5 DEF EntryInv, HeldIsOwn
  <2> QED BY <2>1, <2>2
<1>11. EntryIsServed'
  <2> SUFFICES ASSUME NEW p \in Objects
               PROVE  (Live(p) <=> handlingStream[EndOf(p)][IdOf(p)] = p)'
    BY DEF EntryIsServed
  <2>1. EndOf(p) \in Ends
    BY ObjectFacts
  <2>2. Live(p)' <=> Live(p)
    <3>1. CASE EndOf(p) = e
      BY <3>1, <1>4, <1>5, <1>6 DEF Live
    <3>2. CASE EndOf(p) # e
      BY <3>2, <2>1, <1>4, <1>5 DEF Live
    <3> QED BY <3>1, <3>2
  <2> QED BY <2>2, <1>4 DEF EntryInv, EntryIsServed
<1> QED BY <1>8, <1>9, <1>10, <1>11 DEF EntryInv

LEMMA FirstStep ==
    ASSUME EntryInv, NEW e \in Ends, Receive(e), NEW pkt \in Packets, pkt = Head(wire[e]),
           OnReceiveFirst(e, pkt)
    PROVE  EntryInv'
<1> DEFINE s == pkt.id
           o == <<e, s, made[e][s] + 1>>
           h == [to |-> o, pkt |-> pkt, start |-> TRUE]
<1>1. s \in Ids /\ s # Nil /\ handlingStream[e][s] = Nil
  BY NilAssumption DEF OnReceiveFirst, Known, Packets
<1>2. made[e][s] \in 0..Sends /\ made[e][s] < Sends /\ e = "hub"
  BY <1>1 DEF OnReceiveFirst, EntryInv, TypeOK
<1>3. /\ o \in Objects /\ EndOf(o) = e /\ IdOf(o) = s /\ o[3] = made[e][s] + 1
      /\ made[e][s] + 1 \in 0..Sends /\ made[e][s] \in Nat /\ o[3] \in Nat
  BY <1>1, <1>2, StreamsAssumption DEF Objects, EndOf, IdOf
<1>4. h \in Held
  BY <1>3 DEF Held
<1>13. h # Nil /\ o # Nil
  BY <1>3, <1>4, NilAssumption
<1>5. /\ loop[e] = Nil /\ loop' = [loop EXCEPT ![e] = h]
      /\ made' = [made EXCEPT ![e][s] = made[e][s] + 1]
      /\ handlingStream' = [handlingStream EXCEPT ![e][s] = o]
      /\ serve' = serve /\ strays' = strays
  BY DEF Receive, OnReceiveFirst
<1>6. /\ loop'[e] = h /\ h.to = o /\ h.start = TRUE
      /\ \A d \in Ends : d # e => loop'[d] = loop[d]
      /\ \A d \in Ends, t \in Ids :
           handlingStream'[d][t] = IF d = e /\ t = s THEN o ELSE handlingStream[d][t]
      /\ \A d \in Ends, t \in Ids :
           made'[d][t] = IF d = e /\ t = s THEN made[e][s] + 1 ELSE made[d][t]
  BY <1>1, <1>5 DEF EntryInv, TypeOK
<1>7. serve[o] = "none"
  BY <1>3 DEF EntryInv, NotMadeYet
<1>8. TypeOK'
  <2>1. loop' \in [Ends -> Held \cup {Nil}]
    BY <1>4, <1>5 DEF EntryInv, TypeOK
  <2>2. handlingStream' \in [Ends -> [Ids -> Objects \cup {Nil}]]
    BY <1>1, <1>3, <1>5 DEF EntryInv, TypeOK
  <2>3. made' \in [Ends -> [Ids -> 0..Sends]]
    BY <1>1, <1>3, <1>5 DEF EntryInv, TypeOK
  <2> QED BY <2>1, <2>2, <2>3, <1>5, ReceiveTyped DEF Receive, EntryInv, TypeOK
<1>9. NotMadeYet'
  <2> SUFFICES ASSUME NEW p \in Objects, p[3] > made'[EndOf(p)][IdOf(p)]
               PROVE  serve'[p] = "none"
    BY DEF NotMadeYet
  <2>1. p[3] \in Nat /\ EndOf(p) \in Ends /\ IdOf(p) \in Ids
    BY ObjectFacts
  <2>2. p[3] > made[EndOf(p)][IdOf(p)]
    <3>1. CASE EndOf(p) = e /\ IdOf(p) = s
      <4>1. made'[e][s] = made[e][s] + 1
        BY <1>1, <1>6
      <4> QED BY <2>1, <3>1, <4>1, <1>3
    <3>2. CASE ~(EndOf(p) = e /\ IdOf(p) = s)
      <4>1. made'[EndOf(p)][IdOf(p)] = made[EndOf(p)][IdOf(p)]
        BY <2>1, <3>2, <1>6
      <4> QED BY <4>1
    <3> QED BY <3>1, <3>2
  <2> QED BY <2>2, <1>5 DEF EntryInv, NotMadeYet
<1>10. EntryIsOwn'
  <2> SUFFICES ASSUME NEW d \in Ends, NEW t \in Ids, handlingStream'[d][t] # Nil
               PROVE  /\ EndOf(handlingStream'[d][t]) = d
                      /\ IdOf(handlingStream'[d][t]) = t
    BY DEF EntryIsOwn
  <2>1. CASE d = e /\ t = s
    <3>1. handlingStream'[d][t] = o
      BY <2>1, <1>6
    <3> QED BY <2>1, <3>1, <1>3
  <2>2. CASE ~(d = e /\ t = s)
    <3>1. handlingStream'[d][t] = handlingStream[d][t]
      BY <2>2, <1>6
    <3> QED BY <3>1 DEF EntryInv, EntryIsOwn
  <2> QED BY <2>1, <2>2
<1>11. HeldIsOwn'
  <2> SUFFICES ASSUME NEW d \in Ends, loop'[d] # Nil
               PROVE  /\ EndOf(loop'[d].to) = d
                      /\ loop'[d].to[3] <= made'[d][IdOf(loop'[d].to)]
                      /\ loop'[d].start <=> serve'[loop'[d].to] = "none"
    BY DEF HeldIsOwn
  <2>1. CASE d = e
    <3>1. made'[e][s] = made[e][s] + 1
      BY <1>1, <1>6
    <3>2. loop'[d].to = o /\ loop'[d].start = TRUE /\ serve'[o] = "none"
      BY <2>1, <1>5, <1>6, <1>7
    <3>3. o[3] <= made'[e][s]
      BY <3>1, <1>3
    <3> QED BY <2>1, <3>2, <3>3, <1>3
  <2>2. CASE d # e
    <3>1. loop[d] # Nil /\ loop'[d] = loop[d] /\ loop[d].to \in Objects
      BY <2>2, <1>6 DEF EntryInv, TypeOK, Held
    <3>2. made'[d][IdOf(loop[d].to)] = made[d][IdOf(loop[d].to)]
      BY <2>2, <3>1, <1>6, ObjectFacts
    <3> QED BY <3>1, <3>2, <1>5 DEF EntryInv, HeldIsOwn
  <2> QED BY <2>1, <2>2
<1>12. EntryIsServed'
  <2> SUFFICES ASSUME NEW p \in Objects
               PROVE  (Live(p) <=> handlingStream[EndOf(p)][IdOf(p)] = p)'
    BY DEF EntryIsServed
  <2>1. EndOf(p) \in Ends /\ IdOf(p) \in Ids /\ p # Nil
    BY ObjectFacts
  <2>2. Live(p) <=> handlingStream[EndOf(p)][IdOf(p)] = p
    BY DEF EntryInv, EntryIsServed
  <2>3. CASE p = o
    <3>1. serve'[p] = "none" /\ loop'[EndOf(p)] = h /\ h.to = p
      <4>1. EndOf(o) = e /\ loop'[e] = h /\ h.to = o
        BY <1>3, <1>6
      <4>2. serve'[o] = "none"
        BY <1>5, <1>7
      <4> HIDE DEF o, h
      <4> QED BY <2>3, <4>1, <4>2
    <3>2. Live(p)'
      BY <3>1, <1>13 DEF Live
    <3>3. handlingStream'[EndOf(p)][IdOf(p)] = p
      <4>1. handlingStream'[e][s] = o /\ EndOf(o) = e /\ IdOf(o) = s
        BY <1>1, <1>3, <1>6
      <4> HIDE DEF o, s
      <4> QED BY <2>3, <4>1
    <3> QED BY <3>2, <3>3
  <2>4. CASE p # o
    <3>1. Live(p)' <=> Live(p)
      <4>1. CASE EndOf(p) = e
        BY <4>1, <2>4, <1>5, <1>6 DEF Live
      <4>2. CASE EndOf(p) # e
        BY <4>2, <2>1, <1>5, <1>6 DEF Live
      <4> QED BY <4>1, <4>2
    <3>2. handlingStream'[EndOf(p)][IdOf(p)] = p <=> handlingStream[EndOf(p)][IdOf(p)] = p
      BY <2>1, <2>4, <1>1, <1>6
    <3> QED BY <2>2, <3>1, <3>2
  <2> QED BY <2>3, <2>4
<1> QED BY <1>8, <1>9, <1>10, <1>11, <1>12 DEF EntryInv

LEMMA ReceiveStep ==
    ASSUME EntryInv, NEW e \in Ends, Receive(e)
    PROVE  EntryInv'
<1> DEFINE pkt == Head(wire[e])
<1>1. pkt \in Packets
  BY ReceiveTyped
<1>2. CASE OnReceiveKnown(e, pkt)
  BY <1>1, <1>2, KnownStep
<1>3. CASE OnReceiveFirst(e, pkt)
  BY <1>1, <1>3, FirstStep
<1>4. CASE OnReceiveRefused(e, pkt) \/ OnReceiveLate(e, pkt)
  <2>5. strays' = strays \/ strays' = [strays EXCEPT ![e] = strays[e] + 1]
    BY <1>4 DEF OnReceiveRefused, OnReceiveLate
  <2>6. strays \in [Ends -> Nat] /\ strays[e] + 1 \in Nat
    BY DEF EntryInv, TypeOK
  <2>1. strays' \in [Ends -> Nat]
    BY <2>5, <2>6
  <2>2. handlingStream' = handlingStream /\ made' = made /\ loop' = loop
    BY <1>4 DEF OnReceiveRefused, OnReceiveLate
  <2>3. serve' = serve
    BY DEF Receive
  <2>4. TypeOK'
    BY <2>1, <2>2, ReceiveTyped DEF Receive, EntryInv, TypeOK
  <2> QED BY <2>2, <2>3, <2>4, KeptWhenServedSame DEF EntryInv
<1> QED BY <1>2, <1>3, <1>4 DEF Receive

-----------------------------------------------------------------------------
LEMMA EntryInductive == EntryInv /\ [Next]_vars => EntryInv'
<1> SUFFICES ASSUME EntryInv, [Next]_vars
             PROVE  EntryInv'
  OBVIOUS
<1>1. CASE UNCHANGED vars
  <2>1. TypeOK'
    BY <1>1 DEF vars, EntryInv, TypeOK
  <2> QED BY <1>1, <2>1, KeptWhenServedSame DEF vars, EntryInv
<1>2. CASE \E s \in Ids : StreamRequest(s) \/ Asked(s) \/ ClientSends(s)
  BY <1>2, StreamRequestStep, AskedStep, ClientSendsStep
<1>3. CASE \E e \in Ends : Receive(e) \/ Deliver(e) \/ Refuse(e)
  BY <1>3, ReceiveStep, DeliverStep, RefuseStep
<1>4. CASE \E o \in Objects : Serve(o) \/ EndEarly(o) \/ Answer(o)
  BY <1>4, ReadStep, FinishStep, SendCloseStep, EndEarlyStep, AnswerStep DEF Serve
<1>5. CASE Lose
  BY <1>5, LoseStep
<1> QED BY <1>1, <1>2, <1>3, <1>4, <1>5 DEF Next

LEMMA AlwaysEntryInv == Spec => []EntryInv
BY InitEntry, EntryInductive, PTL DEF Spec

(* Every OnRev of a Stream (stream.go:13) keeps within its capacity, and   *)
(* every variable its type, for any number of streams.                     *)
THEOREM Typed == Spec => []TypeOK
<1>1. EntryInv => TypeOK
  BY DEF EntryInv
<1> QED BY <1>1, AlwaysEntryInv, PTL

(* handlingStream holds a Stream if and only if a goroutine serves it or   *)
(* is about to (client.go:433-447, 635-642), for any number of streams,    *)
(* requests and places in OnRev, with a connection that may be lost.       *)
THEOREM EntriesServed == Spec => []EntryIsServed
<1>1. EntryInv => EntryIsServed
  BY DEF EntryInv
<1> QED BY <1>1, AlwaysEntryInv, PTL

-----------------------------------------------------------------------------
(* The order of the packets.  For each end e and stream s there is a       *)
(* number c, that of the last packet of s that the run loop of e took: the *)
(* packets c + 1, c + 2 and so on up to the last one written are in the    *)
(* socket, in order, and the Stream that the map has for s was given all   *)
(* packets of s since its first, up to c.                                  *)

(* The packets of stream s in w are those from lo to hi, in order; none of *)
(* them is missing if sure.                                                *)
Carries(w, s, lo, hi, sure) ==
    /\ \A i \in 1..Len(w) : w[i].id = s => w[i].n \in lo..hi
    /\ \A i, j \in 1..Len(w) : i < j /\ w[i].id = s /\ w[j].id = s => w[i].n < w[j].n
    /\ sure => \A n \in lo..hi : \E i \in 1..Len(w) : w[i].id = s /\ w[i].n = n

Consecutive(g) == \A i \in 1..(Len(g) - 1) : g[i + 1].n = g[i].n + 1

Last(o) == Got(o)[Len(Got(o))].n

Holds(e, s) == loop[e] # Nil /\ loop[e].pkt.id = s

OnWire(e, s, c) == c <= out[Peer(e)][s] /\ Carries(wire[e], s, c + 1, out[Peer(e)][s], ~lost)

Reached(e, s, c) ==
    /\ Holds(e, s) => loop[e].pkt.n = c
    /\ \A o \in Objects : EndOf(o) = e /\ IdOf(o) = s =>
         /\ \A i \in 1..Len(Got(o)) : Got(o)[i].n <= c /\ (Holds(e, s) => Got(o)[i].n < c)
         /\ Got(o) # <<>> /\ Holds(e, s) /\ loop[e].to = o => Last(o) + 1 = c
         /\ Got(o) # <<>> /\ ~Holds(e, s) /\ handlingStream[e][s] = o => Last(o) = c

Counted == \A e \in Ends, s \in Ids : \E c \in Nat : OnWire(e, s, c) /\ Reached(e, s, c)

Newest ==
    /\ \A e \in Ends, s \in Ids : handlingStream[e][s] # Nil => handlingStream[e][s][3] = made[e][s]
    /\ \A e \in Ends : loop[e] # Nil =>
         loop[e].pkt.id = IdOf(loop[e].to) /\ loop[e].to[3] = made[e][IdOf(loop[e].to)]
    /\ \A o \in Objects : Got(o) # <<>> => o[3] <= made[EndOf(o)][IdOf(o)]

LostIsEmpty == lost => \A e \in Ends : wire[e] = <<>>

OrderInv == EntryInv /\ Newest /\ LostIsEmpty /\ Counted /\ InOrder

LEMMA PacketFacts ==
    ASSUME NEW pkt \in Packets
    PROVE  pkt.n \in Nat /\ pkt.id \in Ids \cup {Nil} /\ Nil \notin Ids
BY NilAssumption DEF Packets

LEMMA CarriesAppend ==
    ASSUME NEW w \in Seq(Packets), NEW s \in Ids, NEW lo \in Nat, NEW hi \in Nat, NEW sure \in BOOLEAN,
           Carries(w, s, lo, hi, sure), NEW pkt \in Packets
    PROVE  /\ pkt.id # s => Carries(Append(w, pkt), s, lo, hi, sure)
           /\ pkt.id = s /\ pkt.n = hi + 1 /\ lo <= hi + 1 => Carries(Append(w, pkt), s, lo, hi + 1, sure)
<1> DEFINE v == Append(w, pkt)
<1>1. /\ Len(w) \in Nat /\ Len(v) = Len(w) + 1 /\ v[Len(w) + 1] = pkt
      /\ \A i \in 1..Len(w) : v[i] = w[i] /\ w[i] \in Packets
  OBVIOUS
<1> HIDE DEF v
<1>2. \A i \in 1..Len(w) : w[i].n \in Nat
  BY <1>1, PacketFacts
<1>3. ASSUME pkt.id # s PROVE Carries(v, s, lo, hi, sure)
  <2>1. \A i \in 1..Len(v) : v[i].id = s => i \in 1..Len(w) /\ v[i] = w[i]
    BY <1>1, <1>3
  <2>2. \A i \in 1..Len(v) : v[i].id = s => v[i].n \in lo..hi
    BY <2>1 DEF Carries
  <2>3. \A i, j \in 1..Len(v) : i < j /\ v[i].id = s /\ v[j].id = s => v[i].n < v[j].n
    BY <2>1 DEF Carries
  <2>4. sure => \A n \in lo..hi : \E i \in 1..Len(v) : v[i].id = s /\ v[i].n = n
    BY <1>1 DEF Carries
  <2> QED BY <2>2, <2>3, <2>4 DEF Carries
<1>4. ASSUME pkt.id = s, pkt.n = hi + 1, lo <= hi + 1 PROVE Carries(v, s, lo, hi + 1, sure)
  <2>1. \A i \in 1..Len(v) : i = Len(w) + 1 \/ (i \in 1..Len(w) /\ v[i] = w[i])
    BY <1>1
  <2>2. \A i \in 1..Len(v) : v[i].id = s => v[i].n \in lo..(hi + 1)
    BY <1>1, <1>4, <2>1 DEF Carries
  <2>3. ASSUME NEW i \in 1..Len(v), NEW j \in 1..Len(v), i < j, v[i].id = s, v[j].id = s PROVE v[i].n < v[j].n
    <3>1. i \in 1..Len(w) /\ v[i] = w[i]
      BY <1>1, <2>1, <2>3
    <3>2. CASE j = Len(w) + 1
      <4>1. v[i].n \in lo..hi
        BY <2>3, <3>1 DEF Carries
      <4> QED BY <1>1, <1>4, <3>2, <4>1
    <3>3. CASE j # Len(w) + 1
      BY <2>1, <2>3, <3>1, <3>3 DEF Carries
    <3> QED BY <3>2, <3>3
  <2>4. ASSUME sure, NEW n \in lo..(hi + 1) PROVE \E i \in 1..Len(v) : v[i].id = s /\ v[i].n = n
    <3>1. CASE n = hi + 1
      <4>1. Len(w) + 1 \in 1..Len(v)
        BY <1>1
      <4> QED BY <1>1, <1>4, <3>1, <4>1
    <3>2. CASE n \in lo..hi
      <4>1. PICK i \in 1..Len(w) : w[i].id = s /\ w[i].n = n
        BY <2>4, <3>2 DEF Carries
      <4> QED BY <1>1, <4>1
    <3> QED BY <3>1, <3>2
  <2> QED BY <2>2, <2>3, <2>4 DEF Carries
<1> QED BY <1>3, <1>4 DEF v

LEMMA CarriesTail ==
    ASSUME NEW w \in Seq(Packets), w # <<>>, NEW s \in Ids, NEW lo \in Nat, NEW hi \in Nat,
           Carries(w, s, lo, hi, TRUE)
    PROVE  /\ Head(w).id # s => Carries(Tail(w), s, lo, hi, TRUE)
           /\ Head(w).id = s => Head(w).n = lo /\ lo <= hi /\ Carries(Tail(w), s, lo + 1, hi, TRUE)
<1> DEFINE v == Tail(w)
<1>1. /\ Len(w) \in Nat /\ Len(w) >= 1 /\ Len(v) = Len(w) - 1 /\ Head(w) = w[1]
      /\ \A i \in 1..Len(v) : v[i] = w[i + 1] /\ i + 1 \in 1..Len(w)
      /\ \A i \in 1..Len(w) : w[i] \in Packets
  OBVIOUS
<1> HIDE DEF v
<1>2. \A i \in 1..Len(w) : w[i].n \in Nat
  BY <1>1, PacketFacts
<1>3. \A i, j \in 1..Len(v) : i < j /\ v[i].id = s /\ v[j].id = s => v[i].n < v[j].n
  <2> SUFFICES ASSUME NEW i \in 1..Len(v), NEW j \in 1..Len(v), i < j, v[i].id = s, v[j].id = s
               PROVE  v[i].n < v[j].n
    OBVIOUS
  <2>1. i + 1 \in 1..Len(w) /\ j + 1 \in 1..Len(w) /\ i + 1 < j + 1
    BY <1>1
  <2>2. v[i] = w[i + 1] /\ v[j] = w[j + 1]
    BY <1>1
  <2>3. w[i + 1].n < w[j + 1].n
    BY <2>1, <2>2 DEF Carries
  <2> QED BY <2>2, <2>3
<1>4. ASSUME NEW n \in lo..hi, Head(w).id # s \/ Head(w).n # n
      PROVE  \E i \in 1..Len(v) : v[i].id = s /\ v[i].n = n
  <2>1. PICK i \in 1..Len(w) : w[i].id = s /\ w[i].n = n
    BY <1>4 DEF Carries
  <2>2. i # 1
    BY <1>1, <1>4, <2>1
  <2>3. i - 1 \in 1..Len(v) /\ v[i - 1] = w[i]
    BY <1>1, <2>2
  <2> QED BY <2>1, <2>3
<1>5. ASSUME Head(w).id # s PROVE Carries(v, s, lo, hi, TRUE)
  <2>1. \A i \in 1..Len(v) : v[i].id = s => v[i].n \in lo..hi
    BY <1>1 DEF Carries
  <2> QED BY <1>3, <1>4, <1>5, <2>1 DEF Carries
<1>6. ASSUME Head(w).id = s
      PROVE  Head(w).n = lo /\ lo <= hi /\ Carries(v, s, lo + 1, hi, TRUE)
  <2>1. 1 \in 1..Len(w) /\ w[1].id = s /\ w[1].n \in lo..hi
    BY <1>1, <1>6 DEF Carries
  <2>2. lo <= hi /\ lo \in lo..hi
    BY <2>1
  <2>3. PICK i \in 1..Len(w) : w[i].id = s /\ w[i].n = lo
    BY <2>2 DEF Carries
  <2>4. w[1].n = lo
    <3>1. CASE i = 1
      BY <2>3, <3>1
    <3>2. CASE i # 1
      <4>1. 1 < i
        BY <3>2
      <4>2. w[1].n < lo
        BY <2>1, <2>3, <4>1 DEF Carries
      <4> QED BY <2>1, <4>2
    <3> QED BY <3>1, <3>2
  <2>5. ASSUME NEW k \in 1..Len(v), v[k].id = s PROVE v[k].n \in (lo + 1)..hi
    <3>1. v[k] = w[k + 1] /\ k + 1 \in 1..Len(w) /\ 1 < k + 1
      BY <1>1
    <3>2. w[k + 1].n \in lo..hi /\ w[1].n < w[k + 1].n
      BY <2>1, <2>5, <3>1 DEF Carries
    <3> QED BY <2>4, <3>1, <3>2
  <2>6. \A n \in (lo + 1)..hi : \E k \in 1..Len(v) : v[k].id = s /\ v[k].n = n
    <3> SUFFICES ASSUME NEW n \in (lo + 1)..hi PROVE \E k \in 1..Len(v) : v[k].id = s /\ v[k].n = n
      OBVIOUS
    <3>1. n \in lo..hi /\ Head(w).n # n
      BY <1>1, <2>4
    <3> QED BY <3>1, <1>4
  <2> QED BY <1>1, <1>3, <2>2, <2>4, <2>5, <2>6 DEF Carries
<1> QED BY <1>5, <1>6 DEF v

-----------------------------------------------------------------------------
LEMMA GotTyped ==
    ASSUME TypeOK, NEW o \in Objects
    PROVE  /\ Got(o) \in Seq(Packets)
           /\ heard[o] \in Seq(Packets) /\ OnRev[o] \in Seq(Packets)
           /\ Len(Got(o)) \in Nat
           /\ \A i \in 1..Len(Got(o)) : Got(o)[i] \in Packets /\ Got(o)[i].n \in Nat
<1>1. heard[o] \in Seq(Packets) /\ OnRev[o] \in Seq(Packets)
  BY DEF TypeOK
<1>2. Got(o) \in Seq(Packets)
  BY <1>1, ConcatProperties DEF Got
<1>3. Len(Got(o)) \in Nat /\ \A i \in 1..Len(Got(o)) : Got(o)[i] \in Packets
  BY <1>2
<1> QED BY <1>1, <1>2, <1>3, PacketFacts

LEMMA NumbersTyped ==
    ASSUME TypeOK, NEW e \in Ends, NEW s \in Ids
    PROVE  /\ Peer(e) \in Ends /\ Peer(Peer(e)) = e /\ (\A d \in Ends : Peer(d) = e <=> d = Peer(e))
           /\ wire[e] \in Seq(Packets) /\ out[Peer(e)][s] \in Nat /\ made[e][s] \in Nat
<1>1. /\ Peer(e) \in Ends /\ Peer(Peer(e)) = e
      /\ \A d \in Ends : Peer(d) = e <=> d = Peer(e)
  BY DEF Peer, Ends
<1> QED BY <1>1, StreamsAssumption DEF TypeOK

(* A step that leaves the sockets alone *)
LEMMA SameWire ==
    ASSUME UNCHANGED <<wire, out, lost>>, NEW e \in Ends, NEW s \in Ids, NEW c \in Nat, OnWire(e, s, c)
    PROVE  OnWire(e, s, c)'
BY DEF OnWire

(* A packet that is written is the next one of its stream *)
LEMMA WrittenNext ==
    ASSUME TypeOK, NEW d \in Ends, NEW k \in Kinds, NEW t \in Ids, Write(d, k, t), UNCHANGED lost,
           NEW e \in Ends, NEW s \in Ids, NEW c \in Nat, OnWire(e, s, c)
    PROVE  OnWire(e, s, c)'
<1>1. CASE lost
  BY <1>1, SameWire DEF Write
<1>2. CASE ~lost
  <2> DEFINE pkt == [kind |-> k, id |-> t, n |-> out[d][t] + 1]
  <2>1. /\ out[d][t] \in Nat /\ Peer(d) \in Ends
        /\ Peer(e) \in Ends /\ (Peer(d) = e <=> d = Peer(e))
        /\ wire[e] \in Seq(Packets) /\ out[Peer(e)][s] \in Nat
    BY NumbersTyped DEF TypeOK
  <2>2. pkt \in Packets /\ pkt.id = t /\ pkt.n = out[d][t] + 1
    BY <2>1 DEF Packets
  <2>3. /\ wire' = [wire EXCEPT ![Peer(d)] = Append(wire[Peer(d)], pkt)]
        /\ out' = [out EXCEPT ![d][t] = out[d][t] + 1]
    BY <1>2 DEF Write
  <2> HIDE DEF pkt
  <2>4. CASE d # Peer(e)
    <3>1. wire'[e] = wire[e] /\ out'[Peer(e)][s] = out[Peer(e)][s]
      BY <2>1, <2>3, <2>4 DEF TypeOK
    <3> QED BY <3>1 DEF OnWire
  <2>5. CASE d = Peer(e)
    <3>1. wire'[e] = Append(wire[e], pkt) /\ out'[Peer(e)][s] = (IF s = t THEN out[d][t] + 1 ELSE out[Peer(e)][s])
      BY <2>1, <2>3, <2>5 DEF TypeOK
    <3>2. c + 1 \in Nat /\ c <= out[Peer(e)][s] /\ (~lost) \in BOOLEAN
          /\ Carries(wire[e], s, c + 1, out[Peer(e)][s], ~lost)
      BY DEF OnWire
    <3>3. CASE s = t
      <4>1. Carries(Append(wire[e], pkt), s, c + 1, out[Peer(e)][s] + 1, ~lost)
        <5>1. pkt.id = s /\ pkt.n = out[Peer(e)][s] + 1 /\ c + 1 <= out[Peer(e)][s] + 1
          BY <2>1, <2>2, <2>5, <3>2, <3>3
        <5> QED BY <2>1, <2>2, <3>2, <5>1, CarriesAppend
      <4> QED BY <2>1, <2>5, <3>1, <3>2, <3>3, <4>1 DEF OnWire
    <3>4. CASE s # t
      <4>1. Carries(Append(wire[e], pkt), s, c + 1, out[Peer(e)][s], ~lost)
        BY <2>1, <2>2, <3>2, <3>4, CarriesAppend
      <4> QED BY <3>1, <3>2, <3>4, <4>1 DEF OnWire
    <3> QED BY <3>3, <3>4
  <2> QED BY <2>4, <2>5
<1> QED BY <1>1, <1>2

(* The close packet of a refused request is of no stream *)
LEMMA RefuseWire ==
    ASSUME TypeOK, NEW d \in Ends, Refuse(d), NEW e \in Ends, NEW s \in Ids, NEW c \in Nat, OnWire(e, s, c)
    PROVE  OnWire(e, s, c)'
<1> DEFINE pkt == [kind |-> "close", id |-> Nil, n |-> 0]
<1>1. pkt \in Packets /\ pkt.id # s
  BY NilAssumption DEF Packets
<1>2. wire'[e] = wire[e] \/ wire'[e] = Append(wire[e], pkt)
  BY NumbersTyped DEF Refuse, TypeOK
<1>3. UNCHANGED <<out, lost>>
  BY DEF Refuse
<1>4. wire[e] \in Seq(Packets) /\ out[Peer(e)][s] \in Nat /\ c + 1 \in Nat /\ (~lost) \in BOOLEAN
  BY NumbersTyped
<1> HIDE DEF pkt
<1>5. Carries(Append(wire[e], pkt), s, c + 1, out[Peer(e)][s], ~lost)
  BY <1>1, <1>4, CarriesAppend DEF OnWire
<1> QED BY <1>2, <1>3, <1>5 DEF OnWire

LEMMA LoseWire ==
    ASSUME TypeOK, Lose, NEW e \in Ends, NEW s \in Ids, NEW c \in Nat, OnWire(e, s, c)
    PROVE  OnWire(e, s, c)'
<1>1. wire'[e] = <<>> /\ out' = out /\ lost' = TRUE
  BY DEF Lose
<1>2. Carries(<<>>, s, c + 1, out[Peer(e)][s], FALSE)
  BY DEF Carries
<1>3. (~lost)' = FALSE
  BY <1>1
<1> QED BY <1>1, <1>2, <1>3 DEF OnWire

(* The packet the run loop takes is the next one, or of another stream *)
LEMMA TakenNext ==
    ASSUME TypeOK, LostIsEmpty, NEW d \in Ends, Receive(d),
           NEW e \in Ends, NEW s \in Ids, NEW c \in Nat, OnWire(e, s, c)
    PROVE  /\ e # d \/ Head(wire[d]).id # s => OnWire(e, s, c)'
           /\ e = d /\ Head(wire[d]).id = s => Head(wire[d]).n = c + 1 /\ OnWire(e, s, c + 1)'
<1>1. wire[d] # <<>> /\ wire' = [wire EXCEPT ![d] = Tail(wire[d])] /\ UNCHANGED <<out, lost>> /\ ~lost
  BY DEF Receive, LostIsEmpty
<1>2. CASE e # d
  <2>1. wire'[e] = wire[e]
    BY <1>1, <1>2 DEF TypeOK
  <2> QED BY <1>1, <1>2, <2>1 DEF OnWire
<1>3. CASE e = d
  <2>1. wire[e] \in Seq(Packets) /\ out[Peer(e)][s] \in Nat /\ c + 1 \in Nat
    BY NumbersTyped
  <2>2. wire'[e] = Tail(wire[e]) /\ wire[e] # <<>>
    BY <1>1, <1>3 DEF TypeOK
  <2>3. c <= out[Peer(e)][s] /\ Carries(wire[e], s, c + 1, out[Peer(e)][s], TRUE)
    BY <1>1 DEF OnWire
  <2>4. Head(wire[e]).id # s => Carries(Tail(wire[e]), s, c + 1, out[Peer(e)][s], TRUE)
    BY <2>1, <2>2, <2>3, CarriesTail
  <2>5. Head(wire[e]).id = s => /\ Head(wire[e]).n = c + 1 /\ c + 1 <= out[Peer(e)][s]
                               /\ Carries(Tail(wire[e]), s, (c + 1) + 1, out[Peer(e)][s], TRUE)
    BY <2>1, <2>2, <2>3, CarriesTail
  <2>6. (~lost)' = TRUE
    BY <1>1
  <2> QED BY <1>1, <1>3, <2>2, <2>3, <2>4, <2>5, <2>6 DEF OnWire
<1> QED BY <1>2, <1>3

-----------------------------------------------------------------------------
(* A step in which no Stream is given a packet.  The map may lose entries, *)
(* or get one whose Stream has not been given a packet yet.                *)
LEMMA NobodyIsGiven ==
    ASSUME OrderInv, loop' = loop, \A o \in Objects : Got(o)' = Got(o),
           \A e \in Ends, s \in Ids :
             \/ handlingStream'[e][s] \in {handlingStream[e][s], Nil}
             \/ Got(handlingStream'[e][s]) = <<>>
    PROVE  /\ \A e \in Ends, s \in Ids : \A c \in Nat : Reached(e, s, c) => Reached(e, s, c)'
           /\ InOrder'
<1>1. InOrder'
  BY DEF OrderInv, InOrder
<1>2. ASSUME NEW e \in Ends, NEW s \in Ids, NEW c \in Nat, Reached(e, s, c) PROVE Reached(e, s, c)'
  <2>1. Holds(e, s)' <=> Holds(e, s)
    BY DEF Holds
  <2>2. Holds(e, s)' => loop'[e].pkt.n = c
    BY <1>2, <2>1 DEF Reached
  <2>3. ASSUME NEW o \in Objects, EndOf(o) = e, IdOf(o) = s
        PROVE  /\ \A i \in 1..Len(Got(o)') : Got(o)'[i].n <= c /\ (Holds(e, s)' => Got(o)'[i].n < c)
               /\ Got(o)' # <<>> /\ Holds(e, s)' /\ loop'[e].to = o => Last(o)' + 1 = c
               /\ Got(o)' # <<>> /\ ~Holds(e, s)' /\ handlingStream'[e][s] = o => Last(o)' = c
    <3>1. Got(o)' = Got(o) /\ Last(o)' = Last(o) /\ o # Nil
      BY ObjectFacts DEF Last
    <3>2. Got(o) # <<>> /\ handlingStream'[e][s] = o => handlingStream[e][s] = o
      BY <3>1
    <3> QED BY <1>2, <2>1, <2>3, <3>1, <3>2 DEF Reached
  <2> QED BY <2>2, <2>3 DEF Reached
<1> QED BY <1>1, <1>2

LEMMA NewestKept ==
    ASSUME OrderInv, loop' = loop, made' = made, \A o \in Objects : Got(o)' = Got(o),
           \A e \in Ends, s \in Ids : handlingStream'[e][s] \in {handlingStream[e][s], Nil}
    PROVE  Newest'
BY DEF OrderInv, Newest

(* The steps of everybody but the run loops *)
LEMMA QuietOrder ==
    ASSUME OrderInv, EntryInv', loop' = loop, made' = made, LostIsEmpty',
           \A o \in Objects : Got(o)' = Got(o),
           \A e \in Ends, s \in Ids : handlingStream'[e][s] \in {handlingStream[e][s], Nil},
           \A e \in Ends, s \in Ids : \A c \in Nat : OnWire(e, s, c) => OnWire(e, s, c)'
    PROVE  OrderInv'
<1>1. InOrder' /\ Newest'
  BY NobodyIsGiven, NewestKept
<1>2. Counted'
  <2> SUFFICES ASSUME NEW e \in Ends, NEW s \in Ids PROVE \E c \in Nat : OnWire(e, s, c)' /\ Reached(e, s, c)'
    BY DEF Counted
  <2>1. PICK c \in Nat : OnWire(e, s, c) /\ Reached(e, s, c)
    BY DEF OrderInv, Counted
  <2>2. OnWire(e, s, c)'
    BY <2>1
  <2>3. Reached(e, s, c)'
    BY <2>1, NobodyIsGiven
  <2> QED BY <2>2, <2>3
<1> QED BY <1>1, <1>2 DEF OrderInv

LEMMA WriteLost ==
    ASSUME LostIsEmpty, NEW d, NEW k, NEW t, Write(d, k, t), UNCHANGED lost
    PROVE  LostIsEmpty'
BY DEF Write, LostIsEmpty

(* Reading takes the first of OnRev and puts it behind what was heard *)
LEMMA ReadKeepsGot ==
    ASSUME TypeOK, NEW o \in Objects, Read(o), NEW p \in Objects
    PROVE  Got(p)' = Got(p)
<1>1. /\ heard[p] \in Seq(Packets) /\ OnRev[p] \in Seq(Packets) /\ OnRev[o] # <<>>
      /\ OnRev' = [OnRev EXCEPT ![o] = Tail(OnRev[o])]
      /\ heard' = [heard EXCEPT ![o] = Append(heard[o], Head(OnRev[o]))]
  BY DEF Read, TypeOK
<1>2. CASE p # o
  BY <1>1, <1>2 DEF TypeOK, Got
<1>3. CASE p = o
  <2> DEFINE a == heard[o]
             b == OnRev[o]
  <2>1. heard'[o] = Append(a, Head(b)) /\ OnRev'[o] = Tail(b)
    BY <1>1 DEF TypeOK
  <2>2. a \in Seq(Packets) /\ b \in Seq(Packets) /\ b # <<>>
    BY <1>1, <1>3
  <2> HIDE DEF a, b
  <2>3. Append(a, Head(b)) \o Tail(b) = a \o b
    <3> DEFINE u == Append(a, Head(b)) \o Tail(b)
               v == a \o b
    <3>1. /\ Len(a) \in Nat /\ Len(b) \in Nat /\ Len(b) >= 1 /\ Len(Tail(b)) = Len(b) - 1
          /\ Head(b) = b[1] /\ Head(b) \in Packets /\ Tail(b) \in Seq(Packets)
          /\ \A i \in 1..(Len(b) - 1) : Tail(b)[i] = b[i + 1]
      BY <2>2
    <3>2. /\ Append(a, Head(b)) \in Seq(Packets) /\ Len(Append(a, Head(b))) = Len(a) + 1
          /\ \A i \in 1..Len(a) : Append(a, Head(b))[i] = a[i]
          /\ Append(a, Head(b))[Len(a) + 1] = b[1]
      BY <2>2, <3>1
    <3>3. /\ u \in Seq(Packets) /\ v \in Seq(Packets) /\ Len(u) = Len(a) + Len(b) /\ Len(v) = Len(a) + Len(b)
      BY <2>2, <3>1, <3>2, ConcatProperties
    <3>4. ASSUME NEW i \in 1..Len(u) PROVE u[i] = v[i]
      <4>1. u[i] = IF i <= Len(a) + 1 THEN Append(a, Head(b))[i] ELSE Tail(b)[i - (Len(a) + 1)]
        BY <2>2, <3>1, <3>2, <3>3, ConcatProperties
      <4>2. v[i] = IF i <= Len(a) THEN a[i] ELSE b[i - Len(a)]
        BY <2>2, <3>1, <3>3, ConcatProperties
      <4>3. CASE i <= Len(a)
        BY <3>1, <3>2, <4>1, <4>2, <4>3
      <4>4. CASE i = Len(a) + 1
        BY <3>1, <3>2, <4>1, <4>2, <4>4
      <4>5. CASE i > Len(a) + 1
        <5>1. i - (Len(a) + 1) \in 1..(Len(b) - 1) /\ (i - (Len(a) + 1)) + 1 = i - Len(a)
          BY <3>1, <3>3, <4>5
        <5> QED BY <3>1, <4>1, <4>2, <4>5, <5>1
      <4> QED BY <3>1, <3>3, <4>3, <4>4, <4>5
    <3> HIDE DEF u, v
    <3>5. u = v
      BY <3>3, <3>4, SeqEqual
    <3> QED BY <3>5 DEF u, v
  <2> QED BY <1>3, <2>1, <2>3 DEF Got, a, b
<1> QED BY <1>2, <1>3

(* The Stream of a StreamRequest is new: nothing was given to it *)
LEMMA StreamRequestOrder ==
    ASSUME OrderInv, EntryInv', NEW t \in Ids, StreamRequest(t)
    PROVE  OrderInv'
<1> DEFINE o == <<"client", t, 1>>
<1>1. /\ o \in Objects /\ EndOf(o) = "client" /\ IdOf(o) = t /\ o[3] = 1 /\ "client" \in Ends
      /\ \A p \in Objects : EndOf(p) = "client" => p[3] = 1
  BY DEF Objects, EndOf, IdOf, Ends
<1>2. /\ made["client"][t] = 0 /\ made' = [made EXCEPT !["client"][t] = 1]
      /\ handlingStream' = [handlingStream EXCEPT !["client"][t] = o]
      /\ UNCHANGED <<lost, wire, out, loop, OnRev, heard>>
  BY DEF StreamRequest
<1> HIDE DEF o
<1>3. \A e \in Ends, s \in Ids : /\ made[e][s] \in Nat /\ made'[e][s] \in Nat /\ made[e][s] <= made'[e][s]
                                 /\ e # "client" \/ s # t => /\ made'[e][s] = made[e][s]
                                                            /\ handlingStream'[e][s] = handlingStream[e][s]
  <2> SUFFICES ASSUME NEW e \in Ends, NEW s \in Ids
               PROVE  /\ made[e][s] \in Nat /\ made'[e][s] \in Nat /\ made[e][s] <= made'[e][s]
                      /\ e # "client" \/ s # t => /\ made'[e][s] = made[e][s]
                                                 /\ handlingStream'[e][s] = handlingStream[e][s]
    OBVIOUS
  <2>1. made[e][s] \in Nat
    BY NumbersTyped DEF OrderInv, EntryInv
  <2>2. made'[e][s] = IF e = "client" /\ s = t THEN 1 ELSE made[e][s]
    <3>1. made \in [Ends -> [Ids -> 0..Sends]]
      BY DEF OrderInv, EntryInv, TypeOK
    <3>2. e # "client" => made'[e] = made[e]
      BY <1>2, <3>1
    <3>3. made'["client"] = [made["client"] EXCEPT ![t] = 1]
      BY <1>1, <1>2, <3>1
    <3>4. made'["client"][s] = IF s = t THEN 1 ELSE made["client"][s]
      BY <1>1, <3>1, <3>3
    <3> QED BY <3>2, <3>4
  <2>3. e # "client" \/ s # t => handlingStream'[e][s] = handlingStream[e][s]
    <3>1. handlingStream \in [Ends -> [Ids -> Objects \cup {Nil}]]
      BY DEF OrderInv, EntryInv, TypeOK
    <3>2. e # "client" => handlingStream'[e] = handlingStream[e]
      BY <1>2, <3>1
    <3>3. handlingStream'["client"] = [handlingStream["client"] EXCEPT ![t] = o]
      BY <1>1, <1>2, <3>1
    <3>4. s # t => handlingStream'["client"][s] = handlingStream["client"][s]
      BY <1>1, <3>1, <3>3
    <3> QED BY <3>2, <3>4
  <2> QED BY <1>2, <2>1, <2>2, <2>3
<1>4. made'["client"][t] = 1 /\ handlingStream'["client"][t] = o
  <2>1. made["client"] \in [Ids -> 0..Sends] /\ handlingStream["client"] \in [Ids -> Objects \cup {Nil}]
    BY <1>1 DEF OrderInv, EntryInv, TypeOK
  <2>2. made'["client"] = [made["client"] EXCEPT ![t] = 1]
    BY <1>1, <1>2 DEF OrderInv, EntryInv, TypeOK
  <2>3. handlingStream'["client"] = [handlingStream["client"] EXCEPT ![t] = o]
    BY <1>1, <1>2 DEF OrderInv, EntryInv, TypeOK
  <2> QED BY <2>1, <2>2, <2>3
<1>5. \A p \in Objects : Got(p)' = Got(p)
  BY <1>2 DEF Got
<1>6. Got(o) = <<>>
  BY <1>1, <1>2 DEF OrderInv, Newest
<1>7. Newest'
  <2>1. ASSUME NEW e \in Ends, NEW s \in Ids, handlingStream'[e][s] # Nil
        PROVE  handlingStream'[e][s][3] = made'[e][s]
    BY <1>1, <1>3, <1>4, <2>1 DEF OrderInv, Newest
  <2>2. ASSUME NEW e \in Ends, loop'[e] # Nil
        PROVE  loop'[e].pkt.id = IdOf(loop'[e].to) /\ loop'[e].to[3] = made'[e][IdOf(loop'[e].to)]
    <3>1. /\ loop[e].to \in Objects /\ EndOf(loop[e].to) = e /\ IdOf(loop[e].to) \in Ids
          /\ loop'[e] = loop[e]
      BY <1>2, <2>2, ObjectFacts DEF OrderInv, EntryInv, TypeOK, HeldIsOwn, Held
    <3>2. loop[e].pkt.id = IdOf(loop[e].to) /\ loop[e].to[3] = made[e][IdOf(loop[e].to)]
      BY <2>2, <3>1 DEF OrderInv, Newest
    <3>3. e # "client" \/ IdOf(loop[e].to) # t
      BY <1>1, <1>2, <3>1, <3>2
    <3> QED BY <1>3, <3>1, <3>2, <3>3
  <2>3. ASSUME NEW p \in Objects, Got(p)' # <<>> PROVE p[3] <= made'[EndOf(p)][IdOf(p)]
    <3>1. p[3] <= made[EndOf(p)][IdOf(p)] /\ p[3] \in Nat /\ EndOf(p) \in Ends /\ IdOf(p) \in Ids
      BY <1>5, <2>3, ObjectFacts DEF OrderInv, Newest
    <3>2. /\ made[EndOf(p)][IdOf(p)] <= made'[EndOf(p)][IdOf(p)]
          /\ made[EndOf(p)][IdOf(p)] \in Nat /\ made'[EndOf(p)][IdOf(p)] \in Nat
      BY <1>3, <3>1
    <3> QED BY <3>1, <3>2
  <2> QED BY <2>1, <2>2, <2>3 DEF Newest
<1>8. \A e \in Ends, s \in Ids : \/ handlingStream'[e][s] \in {handlingStream[e][s], Nil}
                                 \/ Got(handlingStream'[e][s]) = <<>>
  BY <1>3, <1>4, <1>6
<1>9. InOrder' /\ \A e \in Ends, s \in Ids : \A c \in Nat : Reached(e, s, c) => Reached(e, s, c)'
  BY <1>2, <1>5, <1>8, NobodyIsGiven
<1>10. Counted'
  <2> SUFFICES ASSUME NEW e \in Ends, NEW s \in Ids PROVE \E c \in Nat : OnWire(e, s, c)' /\ Reached(e, s, c)'
    BY DEF Counted
  <2>1. PICK c \in Nat : OnWire(e, s, c) /\ Reached(e, s, c)
    BY DEF OrderInv, Counted
  <2>2. OnWire(e, s, c)'
    BY <1>2, <2>1, SameWire
  <2> QED BY <1>9, <2>1, <2>2
<1>11. LostIsEmpty'
  BY <1>2 DEF OrderInv, LostIsEmpty
<1> QED BY <1>7, <1>9, <1>10, <1>11 DEF OrderInv

-----------------------------------------------------------------------------
(* What the run loop holds after it took a packet *)
LEMMA TakenBy ==
    ASSUME OrderInv, NEW d \in Ends, Receive(d), NEW pkt, pkt = Head(wire[d])
    PROVE  /\ pkt \in Packets /\ loop[d] = Nil
           /\ \A e \in Ends : e # d => loop'[e] = loop[e] /\ handlingStream'[e] = handlingStream[e] /\ made'[e] = made[e]
           /\ \A s \in Ids : s # pkt.id => handlingStream'[d][s] = handlingStream[d][s] /\ made'[d][s] = made[d][s]
           /\ \/ /\ OnReceiveKnown(d, pkt) /\ pkt.id \in Ids
                 /\ handlingStream[d][pkt.id] \in Objects
                 /\ EndOf(handlingStream[d][pkt.id]) = d /\ IdOf(handlingStream[d][pkt.id]) = pkt.id
                 /\ loop'[d] # Nil /\ loop'[d].pkt = pkt /\ loop'[d].to = handlingStream[d][pkt.id]
                 /\ UNCHANGED <<handlingStream, made>>
              \/ \E o \in Objects :
                 /\ OnReceiveFirst(d, pkt) /\ pkt.id \in Ids
                 /\ EndOf(o) = d /\ IdOf(o) = pkt.id /\ o[3] = made[d][pkt.id] + 1 /\ Got(o) = <<>>
                 /\ loop'[d] # Nil /\ loop'[d].pkt = pkt /\ loop'[d].to = o
                 /\ handlingStream'[d][pkt.id] = o /\ made'[d][pkt.id] = made[d][pkt.id] + 1
              \/ /\ pkt.id \in Ids => handlingStream[d][pkt.id] = Nil
                 /\ UNCHANGED <<handlingStream, made, loop>>
<1> USE DEF OrderInv, EntryInv, TypeOK
<1>1. pkt \in Packets /\ loop[d] = Nil
  BY ReceiveTyped DEF Receive
<1>2. pkt.id \in Ids \cup {Nil} /\ Nil \notin Ids
  BY <1>1, PacketFacts
<1>3. CASE OnReceiveKnown(d, pkt)
  <2> DEFINE o == handlingStream[d][pkt.id]
             h == [to |-> o, pkt |-> pkt, start |-> FALSE]
  <2>1. pkt.id \in Ids /\ o # Nil
    BY <1>2, <1>3 DEF OnReceiveKnown, Known
  <2>2. o \in Objects /\ EndOf(o) = d /\ IdOf(o) = pkt.id
    BY <2>1 DEF EntryIsOwn
  <2>3. h \in Held /\ h # Nil
    <3>1. h \in Held
      BY <1>1, <2>2, SMT DEF Held
    <3> QED BY <3>1, NilAssumption
  <2>4. loop' = [loop EXCEPT ![d] = h] /\ UNCHANGED <<handlingStream, made>>
    BY <1>3 DEF OnReceiveKnown
  <2>5. loop'[d] = h /\ h.pkt = pkt /\ h.to = o /\ \A e \in Ends : e # d => loop'[e] = loop[e]
    BY <2>4
  <2> QED BY <1>1, <1>3, <2>1, <2>2, <2>3, <2>4, <2>5
<1>4. CASE OnReceiveFirst(d, pkt)
  <2> DEFINE s == pkt.id
             o == <<d, s, made[d][s] + 1>>
             h == [to |-> o, pkt |-> pkt, start |-> TRUE]
  <2>1. s \in Ids
    <3>1. pkt.kind = "req"
      BY <1>4 DEF OnReceiveFirst
    <3> QED BY <1>1, <3>1 DEF Packets
  <2>2. made[d][s] \in 0..Sends /\ made[d][s] < Sends /\ d = "hub" /\ made[d][s] \in Nat
    BY <1>4, <2>1, StreamsAssumption DEF OnReceiveFirst
  <2>3. /\ o \in Objects /\ EndOf(o) = d /\ IdOf(o) = s /\ o[3] = made[d][s] + 1
        /\ o[3] > made[d][s]
    BY <2>1, <2>2, StreamsAssumption DEF Objects, EndOf, IdOf
  <2>4. Got(o) = <<>>
    BY <2>2, <2>3 DEF Newest
  <2>5. h \in Held /\ h # Nil
    <3>1. h \in Held
      BY <1>1, <2>3, SMT DEF Held
    <3> QED BY <3>1, NilAssumption
  <2>6. /\ made' = [made EXCEPT ![d][s] = made[d][s] + 1]
        /\ handlingStream' = [handlingStream EXCEPT ![d][s] = o]
        /\ loop' = [loop EXCEPT ![d] = h]
    BY <1>4 DEF OnReceiveFirst
  <2>7. h.pkt = pkt /\ h.to = o
    OBVIOUS
  <2> HIDE DEF o, h
  <2>8. /\ loop'[d] = h /\ \A e \in Ends : e # d => loop'[e] = loop[e]
    BY <2>6
  <2>9. /\ handlingStream'[d][s] = o /\ made'[d][s] = made[d][s] + 1
        /\ \A e \in Ends : e # d => handlingStream'[e] = handlingStream[e] /\ made'[e] = made[e]
        /\ \A t \in Ids : t # s => handlingStream'[d][t] = handlingStream[d][t] /\ made'[d][t] = made[d][t]
    BY <2>1, <2>6
  <2> QED BY <1>1, <1>4, <2>1, <2>3, <2>4, <2>5, <2>7, <2>8, <2>9
<1>5. CASE OnReceiveRefused(d, pkt) \/ OnReceiveLate(d, pkt)
  <2>1. UNCHANGED <<handlingStream, made, loop>> /\ ~Known(d, pkt)
    BY <1>5 DEF OnReceiveRefused, OnReceiveLate
  <2>2. pkt.id \in Ids => handlingStream[d][pkt.id] = Nil
    BY <1>2, <2>1 DEF Known
  <2> QED BY <1>1, <2>1, <2>2
<1> QED BY <1>3, <1>4, <1>5 DEF Receive

LEMMA ReceiveOrder ==
    ASSUME OrderInv, EntryInv', NEW d \in Ends, Receive(d)
    PROVE  OrderInv'
<1>1. PICK pkt : pkt = Head(wire[d])
  OBVIOUS
<1>2. UNCHANGED <<lost, out, OnRev, heard>> /\ \A o \in Objects : Got(o)' = Got(o)
  BY DEF Receive, Got
<1>3. InOrder'
  BY <1>2 DEF OrderInv, InOrder
<1>4. LostIsEmpty'
  BY DEF Receive, OrderInv, LostIsEmpty, EntryInv, TypeOK
<1>5. Newest'
  <2>1. \A e \in Ends, s \in Ids : /\ made[e][s] \in Nat /\ made[e][s] <= made'[e][s] /\ made'[e][s] \in Nat
    <3> SUFFICES ASSUME NEW e \in Ends, NEW s \in Ids
                 PROVE  made[e][s] \in Nat /\ made[e][s] <= made'[e][s] /\ made'[e][s] \in Nat
      OBVIOUS
    <3>1. made[e][s] \in Nat
      BY NumbersTyped DEF OrderInv, EntryInv
    <3>2. made'[e][s] \in {made[e][s], made[e][s] + 1}
      BY <1>1, TakenBy
    <3> QED BY <3>1, <3>2
  <2>2. ASSUME NEW e \in Ends, NEW s \in Ids, handlingStream'[e][s] # Nil
        PROVE  handlingStream'[e][s][3] = made'[e][s]
    <3>1. CASE handlingStream'[e][s] = handlingStream[e][s] /\ made'[e][s] = made[e][s]
      BY <2>2, <3>1 DEF OrderInv, Newest
    <3>2. CASE e = d /\ s = pkt.id /\ ~(handlingStream'[e][s] = handlingStream[e][s] /\ made'[e][s] = made[e][s])
      BY <1>1, <3>2, TakenBy
    <3> QED BY <1>1, <3>1, <3>2, TakenBy
  <2>3. ASSUME NEW e \in Ends, loop'[e] # Nil
        PROVE  loop'[e].pkt.id = IdOf(loop'[e].to) /\ loop'[e].to[3] = made'[e][IdOf(loop'[e].to)]
    <3>1. CASE e # d
      BY <1>1, <2>3, <3>1, TakenBy DEF OrderInv, Newest
    <3>2. CASE e = d
      BY <1>1, <2>3, <3>2, TakenBy, ObjectFacts DEF OrderInv, Newest
    <3> QED BY <3>1, <3>2
  <2>4. ASSUME NEW p \in Objects, Got(p)' # <<>> PROVE p[3] <= made'[EndOf(p)][IdOf(p)]
    <3>1. p[3] <= made[EndOf(p)][IdOf(p)] /\ p[3] \in Nat /\ EndOf(p) \in Ends /\ IdOf(p) \in Ids
      BY <1>2, <2>4, ObjectFacts DEF OrderInv, Newest
    <3>2. /\ made[EndOf(p)][IdOf(p)] <= made'[EndOf(p)][IdOf(p)]
          /\ made[EndOf(p)][IdOf(p)] \in Nat /\ made'[EndOf(p)][IdOf(p)] \in Nat
      BY <2>1, <3>1
    <3> QED BY <3>1, <3>2
  <2> QED BY <2>2, <2>3, <2>4 DEF Newest
<1>6. Counted'
  <2> SUFFICES ASSUME NEW e \in Ends, NEW s \in Ids PROVE \E c \in Nat : OnWire(e, s, c)' /\ Reached(e, s, c)'
    BY DEF Counted
  <2>1. PICK c \in Nat : OnWire(e, s, c) /\ Reached(e, s, c)
    BY DEF OrderInv, Counted
  <2>2. /\ e # d \/ pkt.id # s => OnWire(e, s, c)'
        /\ e = d /\ pkt.id = s => pkt.n = c + 1 /\ OnWire(e, s, c + 1)'
    BY <1>1, <2>1, TakenNext DEF OrderInv, EntryInv
  <2>3. CASE e # d \/ pkt.id # s
    <3>1. /\ Holds(e, s)' <=> Holds(e, s)
          /\ Holds(e, s) => loop'[e] = loop[e]
          /\ handlingStream'[e][s] = handlingStream[e][s]
      BY <1>1, <2>3, TakenBy DEF Holds
    <3>2. Reached(e, s, c)'
      <4>1. Holds(e, s)' => loop'[e].pkt.n = c
        BY <2>1, <3>1 DEF Reached
      <4>2. ASSUME NEW o \in Objects, EndOf(o) = e, IdOf(o) = s
            PROVE  /\ \A i \in 1..Len(Got(o)') : Got(o)'[i].n <= c /\ (Holds(e, s)' => Got(o)'[i].n < c)
                   /\ Got(o)' # <<>> /\ Holds(e, s)' /\ loop'[e].to = o => Last(o)' + 1 = c
                   /\ Got(o)' # <<>> /\ ~Holds(e, s)' /\ handlingStream'[e][s] = o => Last(o)' = c
        <5>1. Got(o)' = Got(o) /\ Last(o)' = Last(o)
          BY <1>2 DEF Last
        <5> QED BY <2>1, <3>1, <4>2, <5>1 DEF Reached
      <4> QED BY <4>1, <4>2 DEF Reached
    <3> QED BY <2>2, <2>3, <3>2
  <2>4. CASE e = d /\ pkt.id = s
    <3>1. ~Holds(e, s) /\ pkt.n = c + 1
      BY <1>1, <2>2, <2>4, TakenBy DEF Holds
    <3>2. Holds(e, s)' => loop'[e].pkt = pkt /\ (\A o \in Objects : loop'[e].to = o /\ Got(o) # <<>> => handlingStream[e][s] = o)
      BY <1>1, <2>4, TakenBy DEF Holds
    <3>3. ~Holds(e, s)' => handlingStream'[e][s] = Nil
      BY <1>1, <2>4, TakenBy DEF Holds
    <3>4. Reached(e, s, c + 1)'
      <4>1. Holds(e, s)' => loop'[e].pkt.n = c + 1
        BY <3>1, <3>2
      <4>2. ASSUME NEW o \in Objects, EndOf(o) = e, IdOf(o) = s
            PROVE  /\ \A i \in 1..Len(Got(o)') : Got(o)'[i].n <= c + 1 /\ (Holds(e, s)' => Got(o)'[i].n < c + 1)
                   /\ Got(o)' # <<>> /\ Holds(e, s)' /\ loop'[e].to = o => Last(o)' + 1 = c + 1
                   /\ Got(o)' # <<>> /\ ~Holds(e, s)' /\ handlingStream'[e][s] = o => Last(o)' = c + 1
        <5>1. Got(o)' = Got(o) /\ Last(o)' = Last(o) /\ o # Nil
          BY <1>2, ObjectFacts DEF Last
        <5>2. \A i \in 1..Len(Got(o)) : Got(o)[i].n <= c /\ Got(o)[i].n \in Nat
          BY <2>1, <4>2, GotTyped DEF Reached, OrderInv, EntryInv
        <5>3. Got(o) # <<>> /\ handlingStream[e][s] = o => Last(o) = c
          BY <2>1, <3>1, <4>2 DEF Reached
        <5>4. \A i \in 1..Len(Got(o)) : Got(o)[i].n < c + 1 /\ Got(o)[i].n <= c + 1
          BY <5>2
        <5> QED BY <3>2, <3>3, <5>1, <5>3, <5>4
      <4> QED BY <4>1, <4>2 DEF Reached
    <3> QED BY <2>2, <2>4, <3>4
  <2> QED BY <2>3, <2>4
<1> QED BY <1>3, <1>4, <1>5, <1>6 DEF OrderInv

(* OnRev gets the packet, which is the next one after those the Stream got *)
LEMMA Appended ==
    ASSUME NEW g \in Seq(Packets), NEW pkt \in Packets, Consecutive(g),
           g # <<>> => g[Len(g)].n + 1 = pkt.n
    PROVE  /\ Consecutive(Append(g, pkt)) /\ Append(g, pkt) # <<>>
           /\ Append(g, pkt)[Len(Append(g, pkt))] = pkt
           /\ \A i \in 1..Len(Append(g, pkt)) : Append(g, pkt)[i] = pkt \/ \E j \in 1..Len(g) : Append(g, pkt)[i] = g[j]
<1> DEFINE v == Append(g, pkt)
<1>1. /\ Len(g) \in Nat /\ Len(v) = Len(g) + 1 /\ v[Len(g) + 1] = pkt /\ v # <<>>
      /\ \A i \in 1..Len(g) : v[i] = g[i]
  <2>1. /\ Len(g) \in Nat /\ Len(v) = Len(g) + 1 /\ v[Len(g) + 1] = pkt
        /\ \A i \in 1..Len(g) : v[i] = g[i]
    BY AppendProperties
  <2>2. v # <<>>
    BY <2>1
  <2> QED BY <2>1, <2>2
<1> HIDE DEF v
<1>2. Consecutive(v)
  <2> SUFFICES ASSUME NEW i \in 1..Len(g) PROVE v[i + 1].n = v[i].n + 1
    BY <1>1 DEF Consecutive
  <2>1. CASE i = Len(g)
    <3>1. g # <<>>
      BY <1>1, <2>1
    <3> QED BY <1>1, <2>1, <3>1
  <2>2. CASE i # Len(g)
    <3>1. i \in 1..(Len(g) - 1) /\ i + 1 \in 1..Len(g)
      BY <1>1, <2>2
    <3> QED BY <1>1, <3>1 DEF Consecutive
  <2> QED BY <2>1, <2>2
<1>3. \A i \in 1..Len(v) : v[i] = pkt \/ \E j \in 1..Len(g) : v[i] = g[j]
  <2> SUFFICES ASSUME NEW i \in 1..Len(v), i # Len(g) + 1 PROVE \E j \in 1..Len(g) : v[i] = g[j]
    BY <1>1
  <2>1. i \in 1..Len(g)
    BY <1>1
  <2> QED BY <1>1, <2>1
<1> QED BY <1>1, <1>2, <1>3 DEF v

LEMMA DeliverOrder ==
    ASSUME OrderInv, EntryInv', NEW d \in Ends, Deliver(d)
    PROVE  OrderInv'
<1> USE DEF OrderInv, EntryInv
<1>1. PICK o \in Objects, pkt \in Packets : o = loop[d].to /\ pkt = loop[d].pkt
  BY DEF Deliver, TypeOK, Held
<1>2. PICK s \in Ids : s = IdOf(o) /\ EndOf(o) = d /\ pkt.id = s /\ o[3] = made[d][s]
  BY <1>1, ObjectFacts DEF Deliver, HeldIsOwn, Newest
<1>3. /\ loop[d] # Nil /\ loop'[d] = Nil /\ \A e \in Ends : e # d => loop'[e] = loop[e]
      /\ UNCHANGED <<lost, wire, out, made, handlingStream, heard>>
      /\ OnRev' = [OnRev EXCEPT ![o] = Append(OnRev[o], pkt)]
  BY <1>1 DEF Deliver, TypeOK
<1>4. PICK c \in Nat : OnWire(d, s, c) /\ Reached(d, s, c)
  BY DEF Counted
<1>5. /\ pkt.n = c /\ Holds(d, s)
      /\ \A p \in Objects : EndOf(p) = d /\ IdOf(p) = s => \A i \in 1..Len(Got(p)) : Got(p)[i].n < c
      /\ Got(o) # <<>> => Last(o) + 1 = c
  BY <1>1, <1>2, <1>3, <1>4 DEF Reached, Holds
<1>6. \A p \in Objects : p # o => Got(p)' = Got(p)
  BY <1>3 DEF Got, TypeOK
<1>7. Got(o)' = Append(Got(o), pkt) /\ Got(o) \in Seq(Packets)
  <2>1. heard[o] \in Seq(Packets) /\ OnRev[o] \in Seq(Packets) /\ Got(o) \in Seq(Packets)
    BY GotTyped
  <2>2. OnRev'[o] = Append(OnRev[o], pkt) /\ heard'[o] = heard[o]
    BY <1>3 DEF TypeOK
  <2>3. heard[o] \o Append(OnRev[o], pkt) = Append(heard[o] \o OnRev[o], pkt)
    <3> DEFINE a == heard[o]
               b == OnRev[o]
    <3>1. a \in Seq(Packets) /\ b \in Seq(Packets) /\ <<pkt>> \in Seq(Packets) /\ a \o b \in Seq(Packets)
      BY <2>1, ConcatProperties
    <3> HIDE DEF a, b
    <3>2. Append(b, pkt) = b \o <<pkt>> /\ Append(a \o b, pkt) = (a \o b) \o <<pkt>>
      BY <3>1, AppendIsConcat
    <3>3. (a \o b) \o <<pkt>> = a \o (b \o <<pkt>>)
      BY <3>1, ConcatAssociative
    <3>4. a \o Append(b, pkt) = Append(a \o b, pkt)
      BY <3>2, <3>3
    <3> QED BY <3>4 DEF a, b
  <2> QED BY <2>1, <2>2, <2>3 DEF Got
<1>8. /\ Consecutive(Got(o)') /\ Got(o)' # <<>> /\ Got(o)'[Len(Got(o)')] = pkt
      /\ \A i \in 1..Len(Got(o)') : Got(o)'[i] = pkt \/ \E j \in 1..Len(Got(o)) : Got(o)'[i] = Got(o)[j]
  <2>1. Consecutive(Got(o))
    BY DEF InOrder, Consecutive
  <2>2. Got(o) # <<>> => Got(o)[Len(Got(o))].n + 1 = pkt.n
    BY <1>5 DEF Last
  <2> QED BY <1>7, <2>1, <2>2, Appended
<1>9. \A p \in Objects : EndOf(p) = d /\ IdOf(p) = s /\ p # o =>
        /\ p[3] > o[3] => Got(p) = <<>>
        /\ handlingStream[d][s] # p
  <2> SUFFICES ASSUME NEW p \in Objects, EndOf(p) = d, IdOf(p) = s, p # o
               PROVE  /\ p[3] > o[3] => Got(p) = <<>>
                      /\ handlingStream[d][s] # p
    OBVIOUS
  <2>1. p[3] \in Nat /\ o[3] \in Nat /\ p[3] # o[3] /\ p # Nil
    BY <1>2, ObjectFacts
  <2>2. Got(p) # <<>> => p[3] <= o[3]
    BY <1>2 DEF Newest
  <2>3. handlingStream[d][s] = p => p[3] = o[3]
    BY <1>2, <2>1 DEF Newest
  <2> QED BY <2>1, <2>2, <2>3
<1>10. Newest'
  <2>1. \A e \in Ends : loop'[e] # Nil => loop'[e] = loop[e]
    BY <1>3
  <2>2. \A p \in Objects : Got(p)' # <<>> => p = o \/ Got(p) # <<>>
    BY <1>6
  <2>3. made[d][s] \in Nat
    BY NumbersTyped
  <2>4. \A p \in Objects : Got(p)' # <<>> => p[3] <= made'[EndOf(p)][IdOf(p)]
    BY <1>2, <1>3, <2>2, <2>3 DEF Newest
  <2> QED BY <1>3, <2>1, <2>4 DEF Newest
<1>11. InOrder'
  <2>1. ASSUME NEW p \in Objects PROVE Consecutive(Got(p)')
    BY <1>6, <1>8 DEF InOrder, Consecutive
  <2>2. ASSUME NEW x \in Objects, NEW p \in Objects, EndOf(p) = EndOf(x), IdOf(p) = IdOf(x), p[3] > x[3],
               NEW i \in 1..Len(Got(x)'), NEW j \in 1..Len(Got(p)')
        PROVE  Got(p)'[j].n > Got(x)'[i].n
    <3>1. CASE p = o
      <4>1. x # o
        BY <2>2, <3>1, ObjectFacts
      <4>2. Got(x)' = Got(x) /\ Got(x)[i].n < c /\ Got(x)[i].n \in Nat
        BY <1>2, <1>5, <1>6, <2>2, <3>1, <4>1, GotTyped
      <4>3. CASE Got(o)'[j] = pkt
        BY <1>5, <3>1, <4>2, <4>3
      <4>4. ASSUME NEW k \in 1..Len(Got(o)), Got(o)'[j] = Got(o)[k] PROVE Got(p)'[j].n > Got(x)'[i].n
        BY <2>2, <3>1, <4>2, <4>4 DEF InOrder
      <4> QED BY <1>8, <3>1, <4>3, <4>4
    <3>2. CASE p # o /\ x = o
      <4>1. Got(p)' = Got(p) /\ Got(p) = <<>>
        BY <1>2, <1>6, <1>9, <2>2, <3>2
      <4> QED BY <4>1
    <3>3. CASE p # o /\ x # o
      BY <1>6, <2>2, <3>3 DEF InOrder
    <3> QED BY <3>1, <3>2, <3>3
  <2> QED BY <2>1, <2>2 DEF InOrder, Consecutive
<1>12. Counted'
  <2> SUFFICES ASSUME NEW e \in Ends, NEW t \in Ids PROVE \E b \in Nat : OnWire(e, t, b)' /\ Reached(e, t, b)'
    BY DEF Counted
  <2>1. CASE e = d /\ t = s
    <3>1. OnWire(e, t, c)'
      BY <1>3, <1>4, <2>1, SameWire
    <3>2. ~Holds(e, t)'
      BY <1>3, <2>1 DEF Holds
    <3>3. ASSUME NEW p \in Objects, EndOf(p) = e, IdOf(p) = t
          PROVE  /\ \A i \in 1..Len(Got(p)') : Got(p)'[i].n <= c
                 /\ Got(p)' # <<>> /\ handlingStream'[e][t] = p => Last(p)' = c
      <4>1. CASE p = o
        <5>1. \A j \in 1..Len(Got(o)) : Got(o)[j].n < c /\ Got(o)[j].n \in Nat
          BY <1>2, <1>5, GotTyped
        <5>2. \A i \in 1..Len(Got(o)') : Got(o)'[i].n <= c
          BY <1>5, <1>8, <5>1
        <5> QED BY <1>5, <1>8, <4>1, <5>2 DEF Last
      <4>2. CASE p # o
        <5>1. \A i \in 1..Len(Got(p)) : Got(p)[i].n < c /\ Got(p)[i].n \in Nat
          BY <1>5, <2>1, <3>3, GotTyped
        <5>2. \A i \in 1..Len(Got(p)) : Got(p)[i].n <= c
          BY <5>1
        <5> QED BY <1>3, <1>6, <1>9, <2>1, <3>3, <4>2, <5>2
      <4> QED BY <4>1, <4>2
    <3>4. Reached(e, t, c)'
      BY <3>2, <3>3 DEF Reached
    <3> QED BY <3>1, <3>4
  <2>2. CASE ~(e = d /\ t = s)
    <3>1. PICK b \in Nat : OnWire(e, t, b) /\ Reached(e, t, b)
      BY DEF Counted
    <3>2. OnWire(e, t, b)'
      BY <1>3, <3>1, SameWire
    <3>3. (Holds(e, t)' <=> Holds(e, t)) /\ (Holds(e, t) => loop'[e] = loop[e])
      BY <1>1, <1>2, <1>3, <2>2 DEF Holds
    <3>4. \A p \in Objects : EndOf(p) = e /\ IdOf(p) = t => Got(p)' = Got(p) /\ Last(p)' = Last(p)
      BY <1>2, <1>6, <2>2 DEF Last
    <3>5. Reached(e, t, b)'
      <4>1. Holds(e, t)' => loop'[e].pkt.n = b
        BY <3>1, <3>3 DEF Reached
      <4>2. ASSUME NEW p \in Objects, EndOf(p) = e, IdOf(p) = t
            PROVE  /\ \A i \in 1..Len(Got(p)') : Got(p)'[i].n <= b /\ (Holds(e, t)' => Got(p)'[i].n < b)
                   /\ Got(p)' # <<>> /\ Holds(e, t)' /\ loop'[e].to = p => Last(p)' + 1 = b
                   /\ Got(p)' # <<>> /\ ~Holds(e, t)' /\ handlingStream'[e][t] = p => Last(p)' = b
        <5>1. Got(p)' = Got(p) /\ Last(p)' = Last(p) /\ handlingStream' = handlingStream
          BY <1>3, <3>4, <4>2
        <5> QED BY <3>1, <3>3, <4>2, <5>1 DEF Reached
      <4> QED BY <4>1, <4>2 DEF Reached
    <3> QED BY <3>2, <3>5
  <2> QED BY <2>1, <2>2
<1>13. LostIsEmpty'
  BY <1>3 DEF LostIsEmpty
<1> QED BY <1>10, <1>11, <1>12, <1>13 DEF OrderInv

-----------------------------------------------------------------------------
LEMMA OrderStarts == Init => OrderInv
<1> SUFFICES ASSUME Init PROVE OrderInv
  OBVIOUS
<1>1. EntryInv
  BY InitEntry
<1>2. \A o \in Objects : Got(o) = <<>> /\ Len(Got(o)) = 0
  <2> SUFFICES ASSUME NEW o \in Objects PROVE Got(o) = <<>>
    OBVIOUS
  <2>1. heard[o] = <<>> /\ OnRev[o] = <<>>
    BY DEF Init
  <2> QED BY <2>1 DEF Got
<1>3. Newest /\ InOrder /\ LostIsEmpty
  BY <1>2 DEF Init, Newest, InOrder, LostIsEmpty
<1>4. Counted
  <2> SUFFICES ASSUME NEW e \in Ends, NEW s \in Ids PROVE OnWire(e, s, 0) /\ Reached(e, s, 0)
    BY DEF Counted
  <2>1. wire[e] = <<>> /\ Peer(e) \in Ends /\ out[Peer(e)][s] = 0 /\ loop[e] = Nil
    BY DEF Init, Peer, Ends
  <2>2. OnWire(e, s, 0)
    BY <2>1 DEF OnWire, Carries
  <2>3. Reached(e, s, 0)
    BY <1>2, <2>1 DEF Reached, Holds
  <2> QED BY <2>2, <2>3
<1> QED BY <1>1, <1>3, <1>4 DEF OrderInv

LEMMA OrderKept == OrderInv /\ [Next]_vars => OrderInv'
<1> SUFFICES ASSUME OrderInv, [Next]_vars PROVE OrderInv'
  OBVIOUS
<1>0. EntryInv' /\ EntryInv /\ TypeOK /\ LostIsEmpty
  BY EntryInductive DEF OrderInv, EntryInv
<1>w. ASSUME NEW d \in Ends, NEW k \in Kinds, NEW t \in Ids, Write(d, k, t),
             UNCHANGED <<lost, loop, made, handlingStream, OnRev, heard>>
      PROVE  OrderInv'
  <2>1. \A o \in Objects : Got(o)' = Got(o)
    BY <1>w DEF Got
  <2>2. LostIsEmpty'
    BY <1>0, <1>w, WriteLost
  <2>3. ASSUME NEW e \in Ends, NEW s \in Ids, NEW c \in Nat, OnWire(e, s, c) PROVE OnWire(e, s, c)'
    BY <1>0, <1>w, <2>3, WrittenNext
  <2>4. \A e \in Ends, s \in Ids : handlingStream'[e][s] \in {handlingStream[e][s], Nil}
    BY <1>w
  <2> QED BY <1>0, <1>w, <2>1, <2>2, <2>3, <2>4, QuietOrder
<1>u. ASSUME UNCHANGED <<lost, wire, out, loop, made>>, \A o \in Objects : Got(o)' = Got(o),
             \A e \in Ends, s \in Ids : handlingStream'[e][s] \in {handlingStream[e][s], Nil}
      PROVE  OrderInv'
  <2>1. LostIsEmpty'
    BY <1>0, <1>u DEF LostIsEmpty
  <2>2. ASSUME NEW e \in Ends, NEW s \in Ids, NEW c \in Nat, OnWire(e, s, c) PROVE OnWire(e, s, c)'
    BY <1>u, <2>2, SameWire
  <2> QED BY <1>0, <1>u, <2>1, <2>2, QuietOrder
<1>1. ASSUME NEW s \in Ids, StreamRequest(s) PROVE OrderInv'
  BY <1>0, <1>1, StreamRequestOrder
<1>2. ASSUME NEW s \in Ids, Asked(s) PROVE OrderInv'
  BY <1>2, <1>u DEF Asked, Got
<1>3. ASSUME NEW s \in Ids, ClientSends(s) PROVE OrderInv'
  <2>1. "client" \in Ends /\ (IF sent[s] < Sends THEN "req" ELSE "close") \in Kinds
    BY DEF Ends, Kinds
  <2> QED BY <1>3, <1>w, <2>1 DEF ClientSends
<1>4. ASSUME NEW e \in Ends, Receive(e) PROVE OrderInv'
  BY <1>0, <1>4, ReceiveOrder
<1>5. ASSUME NEW e \in Ends, Deliver(e) PROVE OrderInv'
  BY <1>0, <1>5, DeliverOrder
<1>6. ASSUME NEW d \in Ends, Refuse(d) PROVE OrderInv'
  <2>1. UNCHANGED <<lost, loop, made, handlingStream, OnRev, heard>> /\ (lost => wire' = wire)
    BY <1>6 DEF Refuse
  <2>2. LostIsEmpty' /\ \A o \in Objects : Got(o)' = Got(o)
    BY <1>0, <2>1 DEF LostIsEmpty, Got
  <2>3. ASSUME NEW e \in Ends, NEW s \in Ids, NEW c \in Nat, OnWire(e, s, c) PROVE OnWire(e, s, c)'
    BY <1>0, <1>6, <2>3, RefuseWire
  <2>4. \A e \in Ends, s \in Ids : handlingStream'[e][s] \in {handlingStream[e][s], Nil}
    BY <2>1
  <2> QED BY <1>0, <2>1, <2>2, <2>3, <2>4, QuietOrder
<1>7. ASSUME NEW o \in Objects, Read(o) PROVE OrderInv'
  <2>1. UNCHANGED <<lost, wire, out, loop, made, handlingStream>>
    BY <1>7 DEF Read
  <2>2. \A p \in Objects : Got(p)' = Got(p)
    BY <1>0, <1>7, ReadKeepsGot
  <2>3. \A e \in Ends, s \in Ids : handlingStream'[e][s] \in {handlingStream[e][s], Nil}
    BY <2>1
  <2> QED BY <1>u, <2>1, <2>2, <2>3
<1>8. ASSUME NEW o \in Objects, EndEarly(o) PROVE OrderInv'
  BY <1>8, <1>u DEF EndEarly, Got
<1>9. ASSUME NEW o \in Objects, Answer(o) PROVE OrderInv'
  <2>1. EndOf(o) \in Ends /\ IdOf(o) \in Ids /\ opts.reply \in Kinds
    BY <1>0, ObjectFacts, StreamsAssumption DEF TypeOK, OptionRecords, Kinds
  <2> QED BY <1>9, <1>w, <2>1 DEF Answer
<1>10. ASSUME NEW o \in Objects, Finish(o) PROVE OrderInv'
  <2>1. UNCHANGED <<lost, wire, out, loop, made, OnRev, heard>>
    BY <1>10 DEF Finish
  <2>2. \A p \in Objects : Got(p)' = Got(p)
    BY <2>1 DEF Got
  <2>3. \A e \in Ends, s \in Ids : handlingStream'[e][s] \in {handlingStream[e][s], Nil}
    BY <1>0, <1>10 DEF Finish, TypeOK
  <2> QED BY <1>u, <2>1, <2>2, <2>3
<1>11. ASSUME NEW o \in Objects, SendClose(o) PROVE OrderInv'
  <2>1. EndOf(o) \in Ends /\ IdOf(o) \in Ids /\ "close" \in Kinds
    BY ObjectFacts DEF Kinds
  <2> QED BY <1>11, <1>w, <2>1 DEF SendClose
<1>12. CASE Lose
  <2>1. UNCHANGED <<loop, made, handlingStream, OnRev, heard>> /\ LostIsEmpty'
    BY <1>12 DEF Lose, LostIsEmpty
  <2>2. \A o \in Objects : Got(o)' = Got(o)
    BY <2>1 DEF Got
  <2>3. ASSUME NEW e \in Ends, NEW s \in Ids, NEW c \in Nat, OnWire(e, s, c) PROVE OnWire(e, s, c)'
    BY <1>0, <1>12, <2>3, LoseWire
  <2>4. \A e \in Ends, s \in Ids : handlingStream'[e][s] \in {handlingStream[e][s], Nil}
    BY <2>1
  <2> QED BY <1>0, <2>1, <2>2, <2>3, <2>4, QuietOrder
<1>13. CASE UNCHANGED vars
  BY <1>13, <1>u DEF vars, Got
<1> QED BY <1>1, <1>2, <1>3, <1>4, <1>5, <1>6, <1>7, <1>8, <1>9, <1>10, <1>11, <1>12, <1>13 DEF Next, Serve

(* A Stream is given the packets of its id in the order of their writing   *)
(* and without a gap until it ends, and a later Stream of the id only      *)
(* later ones (client.go:417-473), for any number of streams, packets and  *)
(* places in OnRev and in the socket.                                      *)
THEOREM PacketsInOrder == Spec => []InOrder
<1>1. OrderInv => InOrder
  BY DEF OrderInv
<1> QED BY <1>1, OrderStarts, OrderKept, PTL DEF Spec
=============================================================================
