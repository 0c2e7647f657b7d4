----------------------------- MODULE Connection -----------------------------
(***************************************************************************)
(* One connection of a TCP or WebSocket server (tcp_conn.go, tcp_server.go,*)
(* websocket_conn.go, websocket_server.go) from its acceptance to its end: *)
(* the goroutine that accepts it and checks the login message in another,  *)
(* reader and writer with the bounded txQueue, Close with its mutex and    *)
(* its OnDisconnect listeners, and the Client on top (hub.go:139-160),     *)
(* which sends, receives into rxQueue and may be disposed, with as much of *)
(* its PubSub as Close waits for.  The peer sends and reads as it likes,   *)
(* or is gone.                                                             *)
(***************************************************************************)
EXTENDS Naturals, Sequences

CONSTANTS
    TxLen,     \* capacity of txQueue (TcpConnTxQueueLen, WebsocketTxQueueLen)
    RxLen,     \* capacity of the Client's rxQueue (RxQueueLen)
    WireLen,   \* bound: messages in a socket; then a write blocks
    MaxMsgs,   \* bound: messages per lane
    Options    \* the kind of server, one of them in each behaviour

OptionRecords ==
    [kind : {"tcp", "ws"},  \* TcpServer or WebsocketServer
     login : BOOLEAN]       \* ServerOptions.Login is set

ASSUME ConnectionAssumption ==
    /\ TxLen \in Nat \ {0} /\ RxLen \in Nat \ {0} /\ WireLen \in Nat \ {0}
    /\ MaxMsgs \in Nat
    /\ Options \subseteq OptionRecords

\* What the peer sends, what SendMessage queues, what SendMessageDirect writes
Lanes == {"in", "queued", "direct"}

VARIABLES
    opts,        \* the Options of this behaviour
    accept,      \* the accepting goroutine
    auth,        \* the goroutine of checkConnAuth, then its result
    socket,      \* "shut" by this side, "broken" by the other
    closing,     \* how far Close is; every value but "open" is isClosed and ctx.Done
    registered,  \* the server's clients has the connection
    client,      \* the Client on top and its Dispose
    clearCh,     \* its PubSub's clearCh, which has one place, is full
    actor,       \* the goroutine of its PubSub
    reader, writer,     \* the two goroutines
    inHand, outHand,    \* the message each of them has
    wireIn, wireOut,    \* the socket's buffers
    txQueue, rxQueue,
    tries,       \* lane -> number of messages that were tried to be sent
    accepted, delivered \* lane -> messages (history)

app  == <<client, clearCh, actor, rxQueue>>
wire == <<wireIn, wireOut>>
hist == <<accepted, delivered>>
vars == <<opts, accept, auth, socket, closing, registered, client, clearCh, actor, reader, writer,
          inHand, outHand, wireIn, wireOut, txQueue, rxQueue, tries, accepted, delivered>>

Msgs == 0..MaxMsgs  \* 0 is the login message

TypeOK ==
    /\ opts \in Options
    /\ accept \in {"auth", "refuse", "register", "connect", "start", "end"}
    /\ auth \in {"read", "check", "ok", "bad"}
    /\ socket \in {"up", "shut", "broken"}
    /\ closing \in {"open", "listeners", "clear", "release", "closed"}
    /\ registered \in BOOLEAN
    /\ client \in {"none", "up", "clearing", "disposing", "disposed"}
    /\ clearCh \in BOOLEAN /\ actor \in {"up", "ended"}
    /\ reader \in {"none", "top", "read", "hand", "close", "wait", "ended"}
    /\ writer \in {"none", "take", "write", "close", "wait", "ended"}
    /\ inHand \in Msgs /\ outHand \in Msgs
    /\ wireIn \in Seq(Msgs)
    /\ wireOut \in Seq({"queued", "direct"} \X Msgs) /\ Len(wireOut) <= WireLen
    /\ txQueue \in Seq(Msgs) /\ Len(txQueue) <= TxLen
    /\ rxQueue \in Seq(Msgs) /\ Len(rxQueue) <= RxLen
    /\ tries \in [Lanes -> Msgs]
    /\ accepted \in [Lanes -> Seq(Msgs)] /\ delivered \in [Lanes -> Seq(Msgs)]

NeedsAuth(o) == o.kind = "tcp" /\ o.login

(* A WebSocket login is part of the request (websocket_server.go:66-80): a *)
(* connection is there only when CheckFunc has accepted it.                *)
Init ==
    /\ opts \in Options
    /\ accept = IF NeedsAuth(opts) THEN "auth" ELSE "register"
    /\ auth = IF NeedsAuth(opts) THEN "read" ELSE "ok"
    /\ socket = "up" /\ closing = "open"
    /\ registered = FALSE /\ client = "none" /\ clearCh = FALSE /\ actor = "up"
    /\ reader = "none" /\ writer = "none"
    /\ inHand = 0 /\ outHand = 0
    /\ wireIn = IF NeedsAuth(opts) THEN <<0>> ELSE <<>>
    /\ wireOut = <<>> /\ txQueue = <<>> /\ rxQueue = <<>>
    /\ tries = [l \in Lanes |-> 0]
    /\ accepted = [l \in Lanes |-> <<>>] /\ delivered = [l \in Lanes |-> <<>>]

-----------------------------------------------------------------------------
(* Close takes the mutex, unless the connection is closed already; a TCP   *)
(* connection lets go of its socket first, a WebSocket one last.           *)
Close ==
    IF closing = "open"
    THEN /\ closing' = "listeners"
         /\ socket' = IF opts.kind = "tcp" THEN "shut" ELSE socket
    ELSE UNCHANGED <<closing, socket>>

Returned == IF opts.kind = "tcp" THEN "closed" ELSE "release"

(* OnDisconnect.RiseEvent: handleClientDisconnect, ... *)
Listeners ==
    /\ closing = "listeners"
    /\ registered' = FALSE
    /\ closing' = IF client = "none" THEN Returned ELSE "clear"
    /\ UNCHANGED <<opts, accept, auth, socket, app, reader, writer, inHand, outHand, wire, txQueue,
                   tries, hist>>

(* ... and the hub's listener, whose ClearAllSubTopics waits for room in   *)
(* clearCh while closeMu is locked.                                        *)
ClearTopics ==
    /\ closing = "clear"
    /\ ~clearCh
    /\ clearCh' = TRUE
    /\ closing' = Returned
    /\ UNCHANGED <<opts, accept, auth, socket, registered, client, actor, reader, writer, inHand,
                   outHand, wire, txQueue, rxQueue, tries, hist>>

Release ==
    /\ closing = "release"
    /\ socket' = "shut" /\ closing' = "closed"
    /\ UNCHANGED <<opts, accept, auth, registered, app, reader, writer, inHand, outHand, wire,
                   txQueue, tries, hist>>

-----------------------------------------------------------------------------
(* checkConnAuth: a goroutine reads the login message ... *)
AuthReads ==
    /\ auth = "read"
    /\ \/ /\ socket # "shut" /\ wireIn # <<>>
          /\ wireIn' = Tail(wireIn)
          /\ auth' = "check"
       \/ /\ socket = "shut" \/ (socket = "broken" /\ wireIn = <<>>)
          /\ auth' = "bad" /\ UNCHANGED wireIn
    /\ UNCHANGED <<opts, accept, socket, closing, registered, app, reader, writer, inHand, outHand,
                   wireOut, txQueue, tries, hist>>

(* ... and calls CheckFunc, which may take its time *)
AuthChecks ==
    /\ auth = "check"
    /\ auth' \in {"ok", "bad"}
    /\ UNCHANGED <<opts, accept, socket, closing, registered, app, reader, writer, inHand, outHand,
                   wire, txQueue, tries, hist>>

(* mutant: the timeout lets the connection pass *)
AuthEndsAnyway ==
    /\ accept = "auth"
    /\ accept' = IF auth = "bad" THEN "refuse" ELSE "register"
    /\ UNCHANGED <<opts, auth, socket, closing, registered, app, reader, writer, inHand, outHand,
                   wire, txQueue, tries, hist>>

(* The select between the answer and the timeout *)
AuthEnds ==
    /\ accept = "auth"
    /\ \/ auth = "ok" /\ accept' = "register"
       \/ accept' = "refuse"  \* a refusal or the timeout, which may win against any answer
    /\ UNCHANGED <<opts, auth, socket, closing, registered, app, reader, writer, inHand, outHand,
                   wire, txQueue, tries, hist>>

Refuse ==
    /\ accept = "refuse"
    /\ Close
    /\ accept' = "end"
    /\ UNCHANGED <<opts, auth, registered, app, reader, writer, inHand, outHand, wire, txQueue,
                   tries, hist>>

(* The listeners are added; handleClientConnect enters the connection ... *)
Register ==
    /\ accept = "register"
    /\ registered' = TRUE
    /\ accept' = "connect"
    /\ UNCHANGED <<opts, auth, socket, closing, app, reader, writer, inHand, outHand, wire, txQueue,
                   tries, hist>>

(* mutant: the connection is entered after OnClientConnect *)
StartThenRegister ==
    /\ accept = "start"
    /\ registered' = TRUE
    /\ reader' = "top" /\ writer' = "take"
    /\ accept' = "end"
    /\ UNCHANGED <<opts, auth, socket, closing, app, inHand, outHand, wire, txQueue, tries, hist>>

(* ... and calls OnClientConnect, which makes the Client *)
Connect ==
    /\ accept = "connect"
    /\ client' = "up"
    /\ accept' = "start"
    /\ UNCHANGED <<opts, auth, socket, closing, registered, clearCh, actor, reader, writer, inHand,
                   outHand, wire, txQueue, rxQueue, tries, hist>>

StartReadWrite ==
    /\ accept = "start"
    /\ reader' = "top" /\ writer' = "take"
    /\ accept' = "end"
    /\ UNCHANGED <<opts, auth, socket, closing, registered, app, inHand, outHand, wire, txQueue,
                   tries, hist>>

-----------------------------------------------------------------------------
(* StartRead *)
ReaderLooks ==
    /\ reader = "top"
    /\ reader' = IF closing # "open" THEN "close" ELSE "read"
    /\ UNCHANGED <<opts, accept, auth, socket, closing, registered, app, writer, inHand, outHand,
                   wire, txQueue, tries, hist>>

ReaderReads ==
    /\ reader = "read"
    /\ \/ /\ socket # "shut" /\ wireIn # <<>>
          /\ inHand' = Head(wireIn) /\ wireIn' = Tail(wireIn)
          /\ reader' = "hand"
       \/ /\ socket = "shut" \/ (socket = "broken" /\ wireIn = <<>>)
          /\ reader' = "close"
          /\ UNCHANGED <<inHand, wireIn>>
    /\ UNCHANGED <<opts, accept, auth, socket, closing, registered, app, writer, outHand, wireOut,
                   txQueue, tries, hist>>

(* OnMessage.RiseEvent: receiveMessage waits for room in rxQueue *)
ReaderHands ==
    /\ reader = "hand"
    /\ Len(rxQueue) < RxLen
    /\ rxQueue' = Append(rxQueue, inHand)
    /\ delivered' = [delivered EXCEPT !["in"] = Append(@, inHand)]
    /\ reader' = "top"
    /\ UNCHANGED <<opts, accept, auth, socket, closing, registered, client, clearCh, actor, writer,
                   inHand, outHand, wire, txQueue, tries, accepted>>

(* mutant: the reader leaves the connection open *)
ReaderReturns ==
    /\ reader = "close"
    /\ reader' = "ended"
    /\ UNCHANGED <<opts, accept, auth, socket, closing, registered, app, writer, inHand, outHand,
                   wire, txQueue, tries, hist>>

(* The deferred Close, which waits while another goroutine closes *)
ReaderCloses ==
    /\ \/ reader = "close" /\ Close /\ reader' = "wait"
       \/ reader = "wait" /\ closing = "closed" /\ reader' = "ended" /\ UNCHANGED <<closing, socket>>
    /\ UNCHANGED <<opts, accept, auth, registered, app, writer, inHand, outHand, wire, txQueue,
                   tries, hist>>

-----------------------------------------------------------------------------
(* A TCP writer just returns, a WebSocket writer closes *)
WriterLeaves == IF opts.kind = "tcp" THEN "ended" ELSE "close"

(* StartWrite: select takes either of the cases that are ready *)
WriterTakes ==
    /\ writer = "take"
    /\ \/ /\ txQueue # <<>>
          /\ outHand' = Head(txQueue) /\ txQueue' = Tail(txQueue)
          /\ writer' = "write"
       \/ /\ closing # "open"
          /\ writer' = WriterLeaves
          /\ UNCHANGED <<outHand, txQueue>>
    /\ UNCHANGED <<opts, accept, auth, socket, closing, registered, app, reader, inHand, wire,
                   tries, hist>>

(* packetWrite, WriteMessage: blocks while the peer does not read, and may *)
(* succeed for some time after the peer has gone.                          *)
WriterWrites ==
    /\ writer = "write"
    /\ \/ /\ socket = "up" /\ Len(wireOut) < WireLen
          /\ wireOut' = Append(wireOut, <<"queued", outHand>>)
          /\ writer' = "take"
       \/ /\ socket # "up"
          /\ writer' = WriterLeaves
          /\ UNCHANGED wireOut
       \/ /\ socket = "broken"
          /\ writer' = "take"
          /\ UNCHANGED wireOut
    /\ UNCHANGED <<opts, accept, auth, socket, closing, registered, app, reader, inHand, outHand,
                   wireIn, txQueue, tries, hist>>

WriterCloses ==
    /\ \/ writer = "close" /\ Close /\ writer' = "wait"
       \/ writer = "wait" /\ closing = "closed" /\ writer' = "ended" /\ UNCHANGED <<closing, socket>>
    /\ UNCHANGED <<opts, accept, auth, registered, app, reader, inHand, outHand, wire, txQueue,
                   tries, hist>>

-----------------------------------------------------------------------------
(* mutant: a place more than the queue has *)
SendMessageUnbounded ==
    /\ client # "none" /\ tries["queued"] < MaxMsgs
    /\ tries' = [tries EXCEPT !["queued"] = @ + 1]
    /\ txQueue' = Append(txQueue, tries'["queued"])
    /\ accepted' = [accepted EXCEPT !["queued"] = Append(@, tries'["queued"])]
    /\ UNCHANGED <<opts, accept, auth, socket, closing, registered, app, reader, writer, inHand,
                   outHand, wire, delivered>>

(* SendMessage: queued, or dropped because the queue is full or the        *)
(* connection closed; select takes either case when both are ready.        *)
SendMessage ==
    /\ client # "none" /\ tries["queued"] < MaxMsgs
    /\ tries' = [tries EXCEPT !["queued"] = @ + 1]
    /\ \/ /\ Len(txQueue) < TxLen
          /\ txQueue' = Append(txQueue, tries'["queued"])
          /\ accepted' = [accepted EXCEPT !["queued"] = Append(@, tries'["queued"])]
       \/ /\ Len(txQueue) = TxLen \/ closing # "open"
          /\ UNCHANGED <<txQueue, accepted>>
    /\ UNCHANGED <<opts, accept, auth, socket, closing, registered, app, reader, writer, inHand,
                   outHand, wire, delivered>>

(* SendMessageDirect: past the queue, once there is room in the socket *)
SendMessageDirect ==
    /\ client # "none" /\ tries["direct"] < MaxMsgs
    /\ tries' = [tries EXCEPT !["direct"] = @ + 1]
    /\ \/ /\ socket = "up" /\ Len(wireOut) < WireLen
          /\ wireOut' = Append(wireOut, <<"direct", tries'["direct"]>>)
          /\ accepted' = [accepted EXCEPT !["direct"] = Append(@, tries'["direct"])]
       \/ /\ socket # "up"
          /\ UNCHANGED <<wireOut, accepted>>
    /\ UNCHANGED <<opts, accept, auth, socket, closing, registered, app, reader, writer, inHand,
                   outHand, wireIn, txQueue, delivered>>

(* The Client is disposed: its context ends, ClearAllSubTopics waits for   *)
(* room in clearCh, then the connection is closed.                         *)
Dispose ==
    /\ \/ client = "up" /\ client' = "clearing" /\ UNCHANGED <<clearCh, closing, socket>>
       \/ /\ client = "clearing" /\ ~clearCh
          /\ clearCh' = TRUE /\ client' = "disposing"
          /\ UNCHANGED <<closing, socket>>
       \/ client = "disposing" /\ client' = "disposed" /\ Close /\ UNCHANGED clearCh
    /\ UNCHANGED <<opts, accept, auth, registered, actor, reader, writer, inHand, outHand, wire,
                   txQueue, rxQueue, tries, hist>>

CtxDone == client \in {"clearing", "disposing", "disposed"}

(* The PubSub's goroutine; select takes either case when both are ready *)
Actor ==
    /\ client # "none" /\ actor = "up"
    /\ \/ clearCh /\ clearCh' = FALSE /\ UNCHANGED actor
       \/ CtxDone /\ actor' = "ended" /\ UNCHANGED clearCh
    /\ UNCHANGED <<opts, accept, auth, socket, closing, registered, client, reader, writer, inHand,
                   outHand, wire, txQueue, rxQueue, tries, hist>>

(* The run loop; it may take some more when its context is done *)
RunLoop ==
    /\ client # "none" /\ rxQueue # <<>>
    /\ rxQueue' = Tail(rxQueue)
    /\ UNCHANGED <<opts, accept, auth, socket, closing, registered, client, clearCh, actor, reader,
                   writer, inHand, outHand, wire, txQueue, tries, hist>>

-----------------------------------------------------------------------------
PeerSends ==
    /\ socket = "up" /\ tries["in"] < MaxMsgs
    /\ tries' = [tries EXCEPT !["in"] = @ + 1]
    /\ wireIn' = Append(wireIn, tries'["in"])
    /\ accepted' = [accepted EXCEPT !["in"] = Append(@, tries'["in"])]
    /\ UNCHANGED <<opts, accept, auth, socket, closing, registered, app, reader, writer, inHand,
                   outHand, wireOut, txQueue, delivered>>

PeerReads ==
    /\ wireOut # <<>> /\ socket # "broken"
    /\ LET m == Head(wireOut) IN
         delivered' = [delivered EXCEPT ![m[1]] = Append(@, m[2])]
    /\ wireOut' = Tail(wireOut)
    /\ UNCHANGED <<opts, accept, auth, socket, closing, registered, app, reader, writer, inHand,
                   outHand, wireIn, txQueue, tries, accepted>>

(* The peer closes or is gone, with any of what it sent *)
PeerLeaves ==
    /\ socket = "up"
    /\ socket' = "broken"
    /\ \E i \in 0..Len(wireIn) : wireIn' = SubSeq(wireIn, 1, i)
    /\ UNCHANGED <<opts, accept, auth, closing, registered, app, reader, writer, inHand, outHand,
                   wireOut, txQueue, tries, hist>>

-----------------------------------------------------------------------------
Accept == AuthEnds \/ Refuse \/ Register \/ Connect \/ StartReadWrite
Auth   == AuthReads \/ AuthChecks
Reader == ReaderLooks \/ ReaderReads \/ ReaderHands \/ ReaderCloses
Writer == WriterTakes \/ WriterWrites \/ WriterCloses

Next ==
    \/ Accept \/ Auth \/ Reader \/ Writer \/ Listeners \/ ClearTopics \/ Release
    \/ SendMessage \/ SendMessageDirect \/ Dispose \/ Actor \/ RunLoop
    \/ PeerSends \/ PeerReads \/ PeerLeaves

Spec == Init /\ [][Next]_vars

(* The connection's goroutines go on, the timeout of the login among them, *)
(* the PubSub's, and the run loop of a Client that is not disposed.        *)
(* Nothing makes the peer read, nor an application send or dispose.        *)
Fairness ==
    /\ WF_vars(Accept) /\ WF_vars(Auth) /\ WF_vars(Reader) /\ WF_vars(Writer)
    /\ WF_vars(Listeners \/ ClearTopics \/ Release)
    /\ WF_vars(CtxDone /\ Dispose) /\ WF_vars(Actor)
    /\ WF_vars(client = "up" /\ RunLoop)

FairSpec == Spec /\ Fairness

-----------------------------------------------------------------------------
(* The connection is a Channel: whatever goroutines send, close and read,  *)
(* with a reader that follows the goroutine of checkConnAuth on the same   *)
(* socket (tcp_server.go:126, tcp_conn.go:83), nothing is reordered,       *)
(* repeated or left out between two messages.                              *)
Lossy == INSTANCE Channel WITH Message <- Msgs

ImplementsChannel == Lossy!Spec

(* The server's clients (tcp_server.go:151, 161) holds a connection only   *)
(* after CheckFunc has accepted it, whatever the timeout did, and never    *)
(* after its OnDisconnect: a connection that was entered leaves, although  *)
(* it may be closed while it is being entered.  Nothing is handed to the   *)
(* Client of a connection without it.                                      *)
ClientsAreLive ==
    /\ registered => auth = "ok" /\ closing \in {"open", "listeners"}
    /\ delivered["in"] # <<>> => auth = "ok"

(* A reader that has a message for the full rxQueue of a disposed Client   *)
(* stays for ever (client.go:260).                                         *)
ReaderStuck == reader = "hand" /\ Len(rxQueue) = RxLen /\ CtxDone

(* So does a Close of a disposed Client, or its Dispose, once clearCh is   *)
(* full and the PubSub's goroutine has left (hub.go:158, client.go:710).   *)
CloseStuck == closing = "clear" /\ clearCh /\ actor = "ended"

(* What does not depend on clearCh: the server has forgotten the           *)
(* connection, and a TCP one has shut its socket and freed its writer.     *)
LetGo ==
    /\ closing # "open" /\ ~registered /\ auth \in {"ok", "bad"}
    /\ opts.kind = "tcp" => socket = "shut" /\ writer \in {"none", "ended"}

Gone ==
    /\ closing = "closed" /\ socket = "shut"
    /\ reader \in {"none", "ended"} /\ writer \in {"none", "ended"}

(* A connection that is broken or closed by anybody is let go of, and in   *)
(* the end Close has returned and all its goroutines have left.  What may  *)
(* keep them is Dispose, by either of two ways, and nothing else: not a    *)
(* peer that does not read, a writer that failed, or a full txQueue.       *)
Released == socket # "up" \/ closing # "open" ~> LetGo /\ (Gone \/ ReaderStuck \/ CloseStuck)
=============================================================================
