---------------------------- MODULE Reconnection ----------------------------
(***************************************************************************)
(* The client's connections one after the other (tcp_client.go,            *)
(* websocket_client.go): the tryConn goroutines, one for each connection,  *)
(* with their login loops, Close with closeMu and the OnDisconnect         *)
(* listener that starts the next tryConn, the readers, and the run loop    *)
(* with its heartbeat check (client.go:155-175), on one Client.            *)
(*                                                                         *)
(* There is no cipher, as in DialHubWebsocket, and the client needs a      *)
(* login: changeState(CONNECTED) stores EXCHANGED_SECRET.  The hub answers *)
(* a login on the connection that it came from.  A call of Login is known  *)
(* by its goroutine g; once it timed out, what is left of it is "late".    *)
(***************************************************************************)
EXTENDS Naturals, FiniteSets

CONSTANTS
    MaxConns,  \* bound: tryConn goroutines; no fault hits the last connection
    Options    \* which client and which schedules, one of them in each behaviour

OptionRecords ==
    [kind : {"tcp", "ws"},  \* DialHubTcp or DialHubWebsocket
     prompt : BOOLEAN]      \* three seconds outlast steps that do not wait

ASSUME ReconnectionAssumption ==
    /\ MaxConns \in Nat \ {0}
    /\ Options \subseteq OptionRecords

Conns  == 1..MaxConns
Tokens == [g : Conns, late : BOOLEAN]  \* the request or the response of a Login

VARIABLES
    opts,      \* the Options of this behaviour
    try,       \* goroutine -> where tryConn is
    spawned,   \* number of tryConn goroutines so far
    conn,      \* connection -> how far Close has come with it
    lost,      \* connections that broke or that the hub closed
    reader,    \* connections with a reader
    cur,       \* client.conn, 0 before the first one
    state,     \* client.state
    loop,      \* the run loop: in its select or somewhere in the heartbeat check
    toHub,     \* connection -> login requests on their way
    toClient,  \* connection -> responses on their way
    rxQueue,   \* responses the run loop has not handled
    panicked,  \* the process ended
    served,    \* connections on which the hub answered a login (history)
    told,      \* connections for which OnLogin was raised after that (history)
    crossed    \* connections with a state from a goroutine of another one (history)

net  == <<lost, toHub, toClient>>
hist == <<served, told, crossed>>
vars == <<opts, try, spawned, conn, lost, reader, cur, state, loop, toHub, toClient,
          rxQueue, panicked, served, told, crossed>>

ConnStates == {"none", "open", "closing", "told", "leaving", "closed"}
Stages == {"none", "dial", "start", "connect", "check", "ask", "wait", "mark", "sleep", "end"}

TypeOK ==
    /\ opts \in Options
    /\ try \in [Conns -> Stages]
    /\ spawned \in Conns
    /\ conn \in [Conns -> ConnStates]
    /\ lost \subseteq Conns
    /\ reader \subseteq Conns
    /\ cur \in 0..MaxConns
    /\ state \in {"disconnect", "connected", "logined"}
    /\ loop \in [at : {"select", "check", "close", "wait"}, on : 0..MaxConns]
    /\ toHub \in [Conns -> SUBSET Tokens]
    /\ toClient \in [Conns -> SUBSET Tokens]
    /\ rxQueue \subseteq Tokens
    /\ panicked \in BOOLEAN
    /\ served \subseteq Conns /\ told \subseteq Conns /\ crossed \subseteq Conns

Select == [at |-> "select", on |-> 0]

Init ==
    /\ opts \in Options
    /\ try = [g \in Conns |-> IF g = 1 THEN "dial" ELSE "none"]
    /\ spawned = 1
    /\ conn = [g \in Conns |-> "none"]
    /\ lost = {} /\ reader = {}
    /\ cur = 0
    /\ state = "disconnect"
    /\ loop = Select
    /\ toHub = [g \in Conns |-> {}] /\ toClient = [g \in Conns |-> {}]
    /\ rxQueue = {}
    /\ panicked = FALSE
    /\ served = {} /\ told = {} /\ crossed = {}

-----------------------------------------------------------------------------
(* mutant: the new state is stored before the old one is read *)
StoreThenLoad(g, to) ==
    /\ state' = to
    /\ crossed' = IF g # cur THEN crossed \cup {cur} ELSE crossed
    /\ UNCHANGED told

(* changeState by goroutine g; OnLogin is raised on the way into LOGINED *)
changeState(g, to) ==
    /\ state' = to
    /\ crossed' = IF g # cur THEN crossed \cup {cur} ELSE crossed
    /\ told' = IF state # to /\ to = "logined" /\ cur \in served THEN told \cup {cur} ELSE told

(* DialTcp, DialWebsocket; a dial that fails is tried again three seconds  *)
(* later by another goroutine, with nothing changed.                       *)
Dial(g) ==
    /\ try[g] = "dial"
    /\ conn' = [conn EXCEPT ![g] = "open"]
    /\ cur' = g
    /\ try' = [try EXCEPT ![g] = "start"]
    /\ crossed' = IF state = "logined" THEN crossed \cup {g} ELSE crossed
    /\ UNCHANGED <<opts, spawned, net, reader, state, loop, rxQueue, panicked, served, told>>

StartReadWrite(g) ==
    /\ try[g] = "start"
    /\ reader' = reader \cup {g}
    /\ try' = [try EXCEPT ![g] = "connect"]
    /\ UNCHANGED <<opts, spawned, conn, net, cur, state, loop, rxQueue, panicked, hist>>

Connected(g) ==
    /\ try[g] = "connect"
    /\ changeState(g, "connected")
    /\ try' = [try EXCEPT ![g] = "check"]
    /\ UNCHANGED <<opts, spawned, conn, net, reader, cur, loop, rxQueue, panicked, served>>

Held(g) == conn[g] \in {"closing", "told", "leaving"}  \* closeMu is locked

(* Close of a TcpConn begins with the socket, that of a WebsocketConn ends *)
(* with it.                                                                *)
SocketOpen(k) == conn[k] = "open" \/ (opts.kind = "ws" /\ Held(k))

(* conn.IsClosed of DialHubTcp, which waits while closeMu is locked; the   *)
(* loop of DialHubWebsocket does not look.                                 *)
Check(g) ==
    /\ try[g] = "check"
    /\ opts.kind = "tcp" => ~Held(g)
    /\ try' = [try EXCEPT ![g] =
                 IF opts.kind = "tcp" /\ conn[g] = "closed" THEN "end" ELSE "ask"]
    /\ UNCHANGED <<opts, spawned, conn, net, reader, cur, state, loop, rxQueue, panicked,
                   hist>>

(* Login sends its request on the connection the client has now.  Once its *)
(* context is done, SendMessage or the writer may drop the request.        *)
Ask(g) ==
    /\ try[g] = "ask"
    /\ \/ /\ SocketOpen(cur) /\ cur \notin lost
          /\ toHub' = [toHub EXCEPT ![cur] = @ \cup {[g |-> g, late |-> FALSE]}]
       \/ /\ conn[cur] # "open" \/ cur \in lost
          /\ UNCHANGED toHub
    /\ try' = [try EXCEPT ![g] = "wait"]
    /\ UNCHANGED <<opts, spawned, conn, lost, reader, cur, state, loop, toClient, rxQueue,
                   panicked, hist>>

Late(S, g) == {IF t.g = g THEN [t EXCEPT !.late = TRUE] ELSE t : t \in S}

(* Request gives up and leaves its entry in pendingResp *)
Timeout(g) ==
    /\ try[g] = "wait"
    /\ try' = [try EXCEPT ![g] = "sleep"]
    /\ toHub' = [k \in Conns |-> Late(toHub[k], g)]
    /\ toClient' = [k \in Conns |-> Late(toClient[k], g)]
    /\ rxQueue' = Late(rxQueue, g)
    /\ UNCHANGED <<opts, spawned, conn, lost, reader, cur, state, loop, panicked, hist>>

Again(g) ==
    /\ try[g] = "sleep"
    /\ try' = [try EXCEPT ![g] = "check"]
    /\ UNCHANGED <<opts, spawned, conn, net, reader, cur, state, loop, rxQueue, panicked,
                   hist>>

Logined(g) ==
    /\ try[g] = "mark"
    /\ changeState(g, "logined")
    /\ try' = [try EXCEPT ![g] = "end"]
    /\ UNCHANGED <<opts, spawned, conn, net, reader, cur, loop, rxQueue, panicked, served>>

-----------------------------------------------------------------------------
(* The hub answers a login *)
HubAnswers(k) ==
    /\ SocketOpen(k) /\ k \notin lost
    /\ \E t \in toHub[k] :
         /\ toHub' = [toHub EXCEPT ![k] = @ \ {t}]
         /\ toClient' = [toClient EXCEPT ![k] = @ \cup {t}]
    /\ served' = served \cup {k}
    /\ UNCHANGED <<opts, try, spawned, conn, lost, reader, cur, state, loop, rxQueue,
                   panicked, told, crossed>>

(* The connection breaks, or the hub closes it *)
Lose(k) ==
    /\ conn[k] = "open" /\ k \notin lost
    /\ k < MaxConns
    /\ lost' = lost \cup {k}
    /\ toHub' = [toHub EXCEPT ![k] = {}]
    /\ toClient' = [toClient EXCEPT ![k] = {}]
    /\ UNCHANGED <<opts, try, spawned, conn, reader, cur, state, loop, rxQueue, panicked,
                   hist>>

(* receiveMessage on the reader; after Close it hands over one message at  *)
(* most, the one it had or was waiting for.                                *)
Read(k) ==
    /\ k \in reader
    /\ \E t \in toClient[k] :
         /\ toClient' = [toClient EXCEPT ![k] = @ \ {t}]
         /\ rxQueue' = rxQueue \cup {t}
    /\ reader' = IF conn[k] = "open" THEN reader ELSE reader \ {k}
    /\ UNCHANGED <<opts, try, spawned, conn, lost, toHub, cur, state, loop, panicked, hist>>

-----------------------------------------------------------------------------
(* mutant: two goroutines may close one connection *)
LockAnyway(k) ==
    /\ conn[k] \in {"open", "closed"}
    /\ conn' = [conn EXCEPT ![k] = "closing"]

(* Close takes closeMu of a connection that is open, and sets isClosed *)
Lock(k) ==
    /\ conn[k] = "open"
    /\ conn' = [conn EXCEPT ![k] = "closing"]

(* The reader meets an error and closes; if another one does, it waits *)
ReaderEnds(k) ==
    /\ k \in reader /\ (k \in lost \/ conn[k] # "open")
    /\ Lock(k) \/ (conn[k] # "open" /\ UNCHANGED conn)
    /\ reader' = reader \ {k}
    /\ UNCHANGED <<opts, try, spawned, net, cur, state, loop, rxQueue, panicked, hist>>

(* OnDisconnect: changeState(DISCONNECT), ClearAllSubTopics *)
Disconnected(k) ==
    /\ conn[k] = "closing"
    /\ conn' = [conn EXCEPT ![k] = "told"]
    /\ state' = "disconnect"
    /\ UNCHANGED <<opts, try, spawned, net, reader, cur, loop, rxQueue, panicked, hist>>

Busy == \E g \in Conns : try[g] \in {"start", "connect", "mark"}

(* mutant: whoever closes the connection is the last to know *)
SleepOnly(k) ==
    /\ conn[k] = "told"
    /\ conn' = [conn EXCEPT ![k] = "leaving"]
    /\ UNCHANGED <<opts, try, spawned, net, reader, cur, state, loop, rxQueue, panicked, hist>>

(* ... and, after three seconds, go tryConn(), with closeMu still locked *)
StartNext(k) ==
    /\ conn[k] = "told"
    /\ opts.prompt => ~Busy
    /\ conn' = [conn EXCEPT ![k] = "leaving"]
    /\ spawned' = spawned + 1
    /\ try' = [try EXCEPT ![spawned + 1] = "dial"]
    /\ UNCHANGED <<opts, net, reader, cur, state, loop, rxQueue, panicked, hist>>

(* Close returns: a WebsocketConn closes its socket, closeMu is unlocked *)
Unlock(k) ==
    /\ conn[k] = "leaving"
    /\ conn' = [conn EXCEPT ![k] = "closed"]
    /\ UNCHANGED <<opts, try, spawned, net, reader, cur, state, loop, rxQueue, panicked, hist>>

-----------------------------------------------------------------------------
(* The run loop handles a response: a call that waits returns, and closing *)
(* the channel of one that timed out is a panic.                           *)
Handle ==
    /\ loop = Select
    /\ \E t \in rxQueue :
         /\ rxQueue' = rxQueue \ {t}
         /\ panicked' = t.late
         /\ try' = IF t.late THEN try ELSE [try EXCEPT ![t.g] = "mark"]
    /\ UNCHANGED <<opts, spawned, conn, net, reader, cur, state, loop, hist>>

(* The heartbeat check, at a tick after a silence of any length, since     *)
(* lastRxTime goes on from one connection to the next: the client asks     *)
(* cli.conn.IsClosed() ...                                                 *)
HeartbeatLooks ==
    /\ loop = Select
    /\ cur # 0
    /\ loop' = [at |-> "check", on |-> cur]
    /\ UNCHANGED <<opts, try, spawned, conn, net, reader, cur, state, rxQueue, panicked, hist>>

HeartbeatAsks ==
    /\ loop.at = "check"
    /\ ~Held(loop.on)
    /\ loop' = IF conn[loop.on] = "open" THEN [at |-> "close", on |-> 0] ELSE Select
    /\ UNCHANGED <<opts, try, spawned, conn, net, reader, cur, state, rxQueue, panicked, hist>>

(* ... and cli.conn.Close(), of the connection that cli.conn is by then *)
HeartbeatCloses ==
    /\ loop.at = "close"
    /\ IF cur < MaxConns
       THEN /\ Lock(cur) \/ (conn[cur] # "open" /\ UNCHANGED conn)
            /\ loop' = [at |-> "wait", on |-> cur]
       ELSE loop' = Select /\ UNCHANGED conn
    /\ UNCHANGED <<opts, try, spawned, net, reader, cur, state, rxQueue, panicked, hist>>

HeartbeatReturns ==
    /\ loop.at = "wait"
    /\ ~Held(loop.on)
    /\ loop' = Select
    /\ UNCHANGED <<opts, try, spawned, conn, net, reader, cur, state, rxQueue, panicked, hist>>

-----------------------------------------------------------------------------
TryConn(g) ==
    \/ Dial(g) \/ StartReadWrite(g) \/ Connected(g) \/ Check(g) \/ Ask(g) \/ Timeout(g)
    \/ Again(g) \/ Logined(g)

Close(k) == Disconnected(k) \/ StartNext(k) \/ Unlock(k)

RunLoop == Handle \/ HeartbeatLooks \/ HeartbeatAsks \/ HeartbeatCloses \/ HeartbeatReturns

Next ==
    /\ ~panicked
    /\ \/ \E g \in Conns : TryConn(g)
       \/ \E k \in Conns : HubAnswers(k) \/ Lose(k) \/ Read(k) \/ ReaderEnds(k) \/ Close(k)
       \/ RunLoop

Spec == Init /\ [][Next]_vars

(* Goroutines go on, dials succeed in the end, the hub answers.  The run   *)
(* loop's select is fair to the queue and the ticker.                      *)
Fairness ==
    /\ \A g \in Conns : WF_vars(~panicked /\ TryConn(g))
    /\ \A k \in Conns : /\ WF_vars(~panicked /\ HubAnswers(k)) /\ WF_vars(~panicked /\ Read(k))
                        /\ WF_vars(~panicked /\ ReaderEnds(k)) /\ WF_vars(~panicked /\ Close(k))
    /\ SF_vars(~panicked /\ Handle)
    /\ WF_vars(~panicked /\ RunLoop)

FairSpec == Spec /\ Fairness

-----------------------------------------------------------------------------
(* Whoever closes a connection, reader or heartbeat, one tryConn follows   *)
(* it: at most one is being dialed, is open or has its successor to start  *)
(* (tcp_client.go:26-32).  The successor may be dialed, open and even      *)
(* closing while Close of an earlier one has yet to return: its TCP socket *)
(* is closed by then (tcp_conn.go:143), its WebSocket may not be           *)
(* (websocket_conn.go:177-178).                                            *)
InUse(g) == try[g] = "dial" \/ conn[g] \in {"open", "closing", "told"}

OneConnection ==
    \A g, h \in Conns :
        /\ InUse(g) /\ InUse(h) => g = h
        /\ SocketOpen(g) /\ SocketOpen(h) /\ g < h => opts.kind = "ws" /\ conn[g] = "leaving"

(* OnLogin is where an application subscribes again (ReadMe.md:52), after  *)
(* OnDisconnect cleared its topics: a client that is LOGINED was answered  *)
(* by the hub on the connection it has now, and OnLogin was raised for it, *)
(* unless a login of an earlier connection ended after that one was closed *)
(* and made the client LOGINED out of turn (client.go:699, 279).           *)
LoginIsTold ==
    state = "logined" /\ cur \notin crossed => cur \in served /\ cur \in told

(* However connections break, fall silent and are closed, the client is    *)
(* logged in on the last one in the end, if its process has not panicked   *)
(* on a late response and the goroutine of an earlier connection was not   *)
(* more than three seconds late with its changeState.                      *)
EventuallyServed ==
    opts.prompt => <>[](panicked \/ (state = "logined" /\ cur \in served))
=============================================================================
