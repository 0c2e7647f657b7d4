------------------------------ MODULE Streams -------------------------------
(***************************************************************************)
(* Streams over one connection (client.go:417-473, 634-651, 717-727,       *)
(* stream.go): the two Clients with their handlingStream maps, the run     *)
(* loops that hand packets to Stream.OnRev, the goroutines that serve a    *)
(* stream, and the packets, which go out directly (client.go:662), past    *)
(* the queue.  Stream leaves their Id empty, so nothing acks them.         *)
(*                                                                         *)
(* "client" calls StreamRequest, "hub" has handlers.  What the application *)
(* does with a stream is what the tests do (client_test.go:113-143,        *)
(* hub_test.go:43-69): one goroutine sends a few requests and CloseAndRev, *)
(* the reader reads OnRev up to a close packet, a handler answers each     *)
(* request in a goroutine.                                                 *)
(***************************************************************************)
EXTENDS Naturals, Sequences

CONSTANTS
    Ids,       \* stream ids, each from uuid.New of one StreamRequest
    OnRevLen,  \* capacity of Stream.OnRev (stream.go:13)
    WireLen,   \* bound: packets in a socket and the rxQueue behind it; then a write blocks
    Sends,     \* bound: requests sent on a stream by the client's application
    Options,   \* what the application and the environment do, one of them in each behaviour
    Nil

OptionRecords ==
    [found : BOOLEAN,          \* findStreamHandler finds a handler for the empty method
     early : BOOLEAN,          \* who serves a stream may end it before the close packet
     reply : {"req", "resp"},  \* handlers answer with Stream.Request or Stream.Response
     mayLose : BOOLEAN]        \* the connection may be lost

ASSUME StreamsAssumption ==
    /\ OnRevLen \in Nat \ {0} /\ WireLen \in Nat \ {0} /\ Sends \in Nat \ {0}
    /\ Options \subseteq OptionRecords

Ends  == {"client", "hub"}
Peer(e) == IF e = "client" THEN "hub" ELSE "client"

\* The Stream objects: the client's one for each id, and the i-th that the
\* hub creates for it.  Each of these begins with a request, of which there
\* are Sends, so this bound cuts nothing.
Objects == ({"client"} \X Ids \X {1}) \cup ({"hub"} \X Ids \X (1..Sends))
EndOf(o) == o[1]
IdOf(o)  == o[2]

VARIABLES
    opts,            \* the Options of this behaviour
    lost,            \* the connection is gone
    wire,            \* end -> packets on their way to it
    handlingStream,  \* end -> id -> the Stream, or Nil
    made,            \* end -> id -> number of Streams created
    OnRev,           \* Stream -> its channel
    serve,           \* Stream -> where StreamRequest or the handler's goroutine is
    loop,            \* end -> what its run loop waits to put into an OnRev, or Nil
    sent,            \* id -> number of packets sent by the client's application
    replies,         \* Stream -> answers that wait to be written
    strays,          \* end -> goroutines that refuse a request without a handler
    out,             \* end -> id -> number of packets written (history)
    heard            \* Stream -> packets taken from OnRev (history)

vars == <<opts, lost, wire, handlingStream, made, OnRev, serve, loop, sent, replies, strays,
          out, heard>>

Kinds   == {"req", "resp", "close"}
Packets == [kind : Kinds, id : Ids, n : Nat] \cup [kind : {"close"}, id : {Nil}, n : {0}]
Held    == [to : Objects, pkt : Packets, start : BOOLEAN]

ASSUME NilAssumption == Nil \notin Ids \cup Objects \cup Held

TypeOK ==
    /\ opts \in Options
    /\ lost \in BOOLEAN
    /\ wire \in [Ends -> Seq(Packets)]
    /\ handlingStream \in [Ends -> [Ids -> Objects \cup {Nil}]]
    /\ made \in [Ends -> [Ids -> 0..Sends]]
    /\ OnRev \in [Objects -> Seq(Packets)]
    /\ \A o \in Objects : Len(OnRev[o]) <= OnRevLen
    /\ serve \in [Objects -> {"none", "ask", "run", "ended", "closing", "done"}]
    /\ loop \in [Ends -> Held \cup {Nil}]
    /\ sent \in [Ids -> 0..(Sends + 1)]
    /\ replies \in [Objects -> Nat]
    /\ strays \in [Ends -> Nat]
    /\ out \in [Ends -> [Ids -> Nat]]
    /\ heard \in [Objects -> Seq(Packets)]

Init ==
    /\ opts \in Options
    /\ lost = FALSE
    /\ wire = [e \in Ends |-> <<>>]
    /\ handlingStream = [e \in Ends |-> [s \in Ids |-> Nil]]
    /\ made = [e \in Ends |-> [s \in Ids |-> 0]]
    /\ OnRev = [o \in Objects |-> <<>>]
    /\ serve = [o \in Objects |-> "none"]
    /\ loop = [e \in Ends |-> Nil]
    /\ sent = [s \in Ids |-> 0]
    /\ replies = [o \in Objects |-> 0]
    /\ strays = [e \in Ends |-> 0]
    /\ out = [e \in Ends |-> [s \in Ids |-> 0]]
    /\ heard = [o \in Objects |-> <<>>]

-----------------------------------------------------------------------------
(* SendPacketDirect of a packet of stream s by end e: the write blocks     *)
(* while the socket is full, and fails when the connection is gone.        *)
Write(e, kind, s) ==
    IF lost THEN UNCHANGED <<wire, out>>
    ELSE /\ Len(wire[Peer(e)]) < WireLen
         /\ wire' = [wire EXCEPT ![Peer(e)] =
                       Append(@, [kind |-> kind, id |-> s, n |-> out[e][s] + 1])]
         /\ out' = [out EXCEPT ![e][s] = @ + 1]

(* StreamRequest: the Stream is stored, then a plain request goes out that *)
(* does not carry the stream's id, and whose answer nobody looks at.       *)
StreamRequest(s) == LET o == <<"client", s, 1>> IN
    /\ made["client"][s] = 0
    /\ made' = [made EXCEPT !["client"][s] = 1]
    /\ handlingStream' = [handlingStream EXCEPT !["client"][s] = o]
    /\ serve' = [serve EXCEPT ![o] = "ask"]
    /\ UNCHANGED <<opts, lost, wire, OnRev, loop, sent, replies, strays, out, heard>>

(* RequestWithRetry returns, with an answer or without; execute begins *)
Asked(s) == LET o == <<"client", s, 1>> IN
    /\ serve[o] = "ask"
    /\ serve' = [serve EXCEPT ![o] = "run"]
    /\ UNCHANGED <<opts, lost, wire, handlingStream, made, OnRev, loop, sent, replies, strays,
                   out, heard>>

(* The application's goroutine: Stream.Request, and CloseAndRev at the end *)
ClientSends(s) ==
    /\ serve[<<"client", s, 1>>] \notin {"none", "ask"}
    /\ sent[s] <= Sends
    /\ Write("client", IF sent[s] < Sends THEN "req" ELSE "close", s)
    /\ sent' = [sent EXCEPT ![s] = @ + 1]
    /\ UNCHANGED <<opts, lost, handlingStream, made, OnRev, serve, loop, replies, strays, heard>>

-----------------------------------------------------------------------------
(* The run loop takes a packet; it holds it until OnRev has room *)

(* mutant: a request always gets a new Stream *)
KnownButRequest(e, pkt) == pkt.kind # "req" /\ pkt.id # Nil /\ handlingStream[e][pkt.id] # Nil

Known(e, pkt) == pkt.id # Nil /\ handlingStream[e][pkt.id] # Nil

(* handlingStream.Load finds the Stream: onReceiveStreamRequest,           *)
(* onReceiveStreamResponse and onReceiveCloseStream do the same.           *)
OnReceiveKnown(e, pkt) ==
    /\ Known(e, pkt)
    /\ loop' = [loop EXCEPT ![e] = [to |-> handlingStream[e][pkt.id], pkt |-> pkt, start |-> FALSE]]
    /\ UNCHANGED <<handlingStream, made, strays>>

(* onReceiveStreamRequest: LoadOrStore of a new Stream *)
OnReceiveFirst(e, pkt) == LET o == <<e, pkt.id, made[e][pkt.id] + 1>> IN
    /\ ~Known(e, pkt) /\ pkt.kind = "req"
    /\ e = "hub" /\ opts.found
    /\ made[e][pkt.id] < Sends
    /\ made' = [made EXCEPT ![e][pkt.id] = @ + 1]
    /\ handlingStream' = [handlingStream EXCEPT ![e][pkt.id] = o]
    /\ loop' = [loop EXCEPT ![e] = [to |-> o, pkt |-> pkt, start |-> TRUE]]
    /\ UNCHANGED strays

(* No handler for the packet's method, which Stream.Request leaves empty *)
OnReceiveRefused(e, pkt) ==
    /\ ~Known(e, pkt) /\ pkt.kind = "req"
    /\ ~(e = "hub" /\ opts.found)
    /\ strays' = [strays EXCEPT ![e] = @ + 1]
    /\ UNCHANGED <<handlingStream, made, loop>>

(* A response or a close packet of a Stream that is gone *)
OnReceiveLate(e, pkt) ==
    /\ ~Known(e, pkt) /\ pkt.kind # "req"
    /\ UNCHANGED <<handlingStream, made, loop, strays>>

Receive(e) ==
    /\ loop[e] = Nil /\ wire[e] # <<>>
    /\ wire' = [wire EXCEPT ![e] = Tail(@)]
    /\ LET pkt == Head(wire[e]) IN
         \/ OnReceiveKnown(e, pkt) \/ OnReceiveFirst(e, pkt)
         \/ OnReceiveRefused(e, pkt) \/ OnReceiveLate(e, pkt)
    /\ UNCHANGED <<opts, lost, OnRev, serve, sent, replies, out, heard>>

(* mutant: OnRev without a buffer *)
NoRoom(o) == FALSE

(* mutant: one place too many *)
OneMore(o) == Len(OnRev[o]) <= OnRevLen

HasRoom(o) == Len(OnRev[o]) < OnRevLen

(* mutant: a full OnRev drops the packet *)
DeliverOrDrop(e) == LET h == loop[e] IN
    /\ h # Nil
    /\ OnRev' = [OnRev EXCEPT ![h.to] = IF HasRoom(h.to) THEN Append(@, h.pkt) ELSE @]
    /\ loop' = [loop EXCEPT ![e] = Nil]
    /\ serve' = IF h.start THEN [serve EXCEPT ![h.to] = "run"] ELSE serve
    /\ UNCHANGED <<opts, lost, wire, handlingStream, made, sent, replies, strays, out, heard>>

(* OnRev <- packet, and the goroutine of a new Stream *)
Deliver(e) == LET h == loop[e] IN
    /\ h # Nil
    /\ HasRoom(h.to)
    /\ OnRev' = [OnRev EXCEPT ![h.to] = Append(@, h.pkt)]
    /\ loop' = [loop EXCEPT ![e] = Nil]
    /\ serve' = IF h.start THEN [serve EXCEPT ![h.to] = "run"] ELSE serve
    /\ UNCHANGED <<opts, lost, wire, handlingStream, made, sent, replies, strays, out, heard>>

(* The goroutine that refuses a request: its close packet has the id of    *)
(* the packet, which is empty, where the stream's id belongs.              *)
Refuse(e) ==
    /\ strays[e] > 0
    /\ strays' = [strays EXCEPT ![e] = @ - 1]
    /\ IF lost THEN UNCHANGED wire
       ELSE /\ Len(wire[Peer(e)]) < WireLen
            /\ wire' = [wire EXCEPT ![Peer(e)] = Append(@, [kind |-> "close", id |-> Nil, n |-> 0])]
    /\ UNCHANGED <<opts, lost, handlingStream, made, OnRev, serve, loop, sent, replies, out, heard>>

-----------------------------------------------------------------------------
(* Who serves a Stream reads OnRev: execute of StreamRequest, the handler *)
Read(o) ==
    /\ serve[o] = "run" /\ OnRev[o] # <<>>
    /\ LET pkt == Head(OnRev[o]) IN
         /\ OnRev' = [OnRev EXCEPT ![o] = Tail(@)]
         /\ heard' = [heard EXCEPT ![o] = Append(@, pkt)]
         /\ serve' = IF pkt.kind = "close" THEN [serve EXCEPT ![o] = "ended"] ELSE serve
         /\ replies' = IF EndOf(o) = "hub" /\ pkt.kind = "req"
                       THEN [replies EXCEPT ![o] = @ + 1] ELSE replies
    /\ UNCHANGED <<opts, lost, wire, handlingStream, made, loop, sent, strays, out>>

(* ... and may give up before, with an error or a panic that is recovered *)
EndEarly(o) ==
    /\ opts.early /\ serve[o] = "run"
    /\ serve' = [serve EXCEPT ![o] = "ended"]
    /\ UNCHANGED <<opts, lost, wire, handlingStream, made, OnRev, loop, sent, replies, strays,
                   out, heard>>

(* A handler's goroutine answers a request *)
Answer(o) ==
    /\ replies[o] > 0
    /\ Write(EndOf(o), opts.reply, IdOf(o))
    /\ replies' = [replies EXCEPT ![o] = @ - 1]
    /\ UNCHANGED <<opts, lost, handlingStream, made, OnRev, serve, loop, sent, strays, heard>>

(* execute returned: LoadAndDelete, and no close packet if the entry was   *)
(* gone.  A handler that reads to the end waits for its answers first.     *)
Finish(o) == LET e == EndOf(o) IN
    /\ serve[o] = "ended"
    /\ opts.early \/ replies[o] = 0
    /\ handlingStream' = [handlingStream EXCEPT ![e][IdOf(o)] = Nil]
    /\ serve' = [serve EXCEPT ![o] = IF handlingStream[e][IdOf(o)] = Nil THEN "done" ELSE "closing"]
    /\ UNCHANGED <<opts, lost, wire, made, OnRev, loop, sent, replies, strays, out, heard>>

(* mutant: the end of the stream is not sent *)
NoClosePacket(o) ==
    /\ serve[o] = "closing"
    /\ serve' = [serve EXCEPT ![o] = "done"]
    /\ UNCHANGED <<opts, lost, wire, handlingStream, made, OnRev, loop, sent, replies, strays,
                   out, heard>>

SendClose(o) ==
    /\ serve[o] = "closing"
    /\ Write(EndOf(o), "close", IdOf(o))
    /\ serve' = [serve EXCEPT ![o] = "done"]
    /\ UNCHANGED <<opts, lost, handlingStream, made, OnRev, loop, sent, replies, strays, heard>>

(* The connection is lost with what was on its way; no Stream is told *)
Lose ==
    /\ opts.mayLose /\ ~lost
    /\ lost' = TRUE
    /\ wire' = [e \in Ends |-> <<>>]
    /\ UNCHANGED <<opts, handlingStream, made, OnRev, serve, loop, sent, replies, strays, out, heard>>

-----------------------------------------------------------------------------
Serve(o) == Read(o) \/ Finish(o) \/ SendClose(o)

Next ==
    \/ \E s \in Ids : StreamRequest(s) \/ Asked(s) \/ ClientSends(s)
    \/ \E e \in Ends : Receive(e) \/ Deliver(e) \/ Refuse(e)
    \/ \E o \in Objects : Serve(o) \/ EndEarly(o) \/ Answer(o)
    \/ Lose

Spec == Init /\ [][Next]_vars

(* A goroutine that can go on goes on, and what is in a socket is read;    *)
(* nothing makes an application open a stream or give one up.              *)
Fairness ==
    /\ \A s \in Ids : WF_vars(Asked(s)) /\ WF_vars(ClientSends(s))
    /\ \A e \in Ends : WF_vars(Receive(e) \/ Deliver(e)) /\ WF_vars(Refuse(e))
    /\ \A o \in Objects : WF_vars(Serve(o)) /\ WF_vars(Answer(o))

FairSpec == Spec /\ Fairness

-----------------------------------------------------------------------------
Live(o) ==
    \/ serve[o] \in {"ask", "run", "ended"}
    \/ serve[o] = "none" /\ loop[EndOf(o)] # Nil /\ loop[EndOf(o)].to = o

(* handlingStream holds exactly the Streams that somebody serves, or is    *)
(* about to serve: LoadOrStore in the run loop and LoadAndDelete in the    *)
(* goroutine never leave an entry without a reader, nor a reader that      *)
(* packets no longer reach (client.go:433, 445, 639).                      *)
EntryIsServed ==
    \A o \in Objects : Live(o) <=> handlingStream[EndOf(o)][IdOf(o)] = o

(* Packets reach a Stream in the order in which the peer wrote them,       *)
(* without a gap, until it ends: through the run loop, which may hold one, *)
(* and OnRev (client.go:422-440, 454-472).  A later Stream of the same id  *)
(* begins after the packets of the earlier one.                            *)
Got(o) == heard[o] \o OnRev[o]

InOrder ==
    \A o \in Objects :
        /\ \A i \in 1..(Len(Got(o)) - 1) : Got(o)[i + 1].n = Got(o)[i].n + 1
        /\ \A p \in Objects : EndOf(p) = EndOf(o) /\ IdOf(p) = IdOf(o) /\ p[3] > o[3] =>
             \A i \in 1..Len(Got(o)), j \in 1..Len(Got(p)) : Got(p)[j].n > Got(o)[i].n

(* The run loop, which also handles acks and heartbeats, waits for room in *)
(* OnRev (client.go:423, 440, 460, 471).  It goes on, unless the packet is *)
(* for a Stream that nobody reads any more: that is the one way in which   *)
(* a handler that returns early stops its whole connection.                *)
RunLoopFree ==
    \A e \in Ends : loop[e] # Nil ~>
        loop[e] = Nil \/ serve[loop[e].to] \in {"ended", "closing", "done"}

(* "for range stream.OnRev ... StreamClosePacket: break" (client_test.go:  *)
(* 125-138): where the hub has a handler for the empty method, everybody   *)
(* reads to the end and the connection stays, a Stream ends at both ends.  *)
StreamsEnd ==
    \A o \in Objects :
        serve[o] = "run" /\ opts.found /\ ~opts.early ~> serve[o] = "done" \/ lost
=============================================================================
