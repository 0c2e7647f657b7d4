---------------------------- MODULE HubLifecycle ----------------------------
(***************************************************************************)
(* The life of the hub's Client objects, one per accepted TCP or WebSocket *)
(* connection: accept, login, takeover of an id that is already logged in, *)
(* registration in the hub and in a room, loss of the connection, heartbeat*)
(* timeout and Dispose (hub.go:129-267, client.go:156-180, 308-320,        *)
(* 704-714, tcp_conn.go:75-147, pub_sub.go:32-69).  There is no cipher:    *)
(* module Handshake is about that.                                         *)
(*                                                                         *)
(* Several goroutines work on a Client: "accept" runs OnClientConnect, a   *)
(* job handles each login request, "read" reads the connection, "loop" is  *)
(* the run loop, which handles packets and watches the heartbeat.  Another *)
(* is the PubSub actor, which empties clearCh until the context ends.      *)
(***************************************************************************)
EXTENDS Naturals

CONSTANTS
    Clients,     \* Client objects of the hub; a Client also names its first, random ClientId
    Ids,         \* ids that clients log in with
    Rooms,       \* room ids
    World,       \* GroupId = nil: the world group, the hub itself
    Requests,    \* the login requests that a peer may send on one connection
    Options,     \* the settings, and what a run lets the peers do
    Nil

(* LoginParams: ClientId, and BucketId or World *)
LoginParams == [id : Ids, room : Rooms \cup {World}]

(* A peer sends the requests that are not Nil; one in mayFail may lose its *)
(* connection or fall silent; one in publishing publishes once.            *)
AllOptions ==
    [login      : [Clients -> [Requests -> LoginParams \cup {Nil}]],
     needLogin  : BOOLEAN,      \* HubServerOptions.NeedLogin
     mayFail    : SUBSET Clients,
     publishing : SUBSET Clients]

ASSUME HubLifecycleAssumption ==
    /\ Options \subseteq AllOptions
    /\ World \notin Rooms
    /\ Clients \cap Ids = {}
    /\ Requests \cap {"accept", "read", "loop"} = {}
    /\ Nil \notin LoginParams
    /\ Nil \notin Clients \cup Ids \cup Rooms \cup {World}

Keys   == Clients \cup Ids
Groups == Rooms \cup {World}
Jobs   == Requests \X Clients
Procs  == ({"accept", "read", "loop"} \cup Requests) \X Clients

VARIABLES
    pc,          \* goroutine: where it is
    target,      \* goroutine: the Client it disposes or whose connection it closes
    state,       \* Client.state
    opts,        \* one of Options
    clientId,    \* Client.ClientId
    groupId,     \* Client.GroupId
    group,       \* Client.Group, or Nil
    replied,     \* jobs whose response the peer has, and has acked
    ctxDone,     \* Client.ctx is cancelled
    beDisposed,  \* Client.beDisposed
    onDispose,   \* the Client's OnDispose has hub's listener
    actor,       \* the Client's PubSub goroutine: "run" or "exit"
    clearCh,     \* length of its clearCh, whose capacity is 1
    isClosed,    \* connection: isClosed
    closeMu,     \* connection: holder of closeMu, or Nil
    clients,     \* hub.clients
    members,     \* group -> Group.clients
    published    \* the peer's publication: "no", "dropped", "queued", "self" or its group

connVars == <<isClosed, closeMu>>
hubVars  == <<clients, members>>
idVars   == <<opts, clientId, groupId, group>>
vars == <<pc, target, state, idVars, replied, ctxDone, beDisposed, onDispose, actor, clearCh,
          connVars, hubVars, published>>

TypeOK ==
    /\ pc \in [Procs -> {"idle", "takeover", "add", "join", "listen", "reply", "check", "mark",
                         "clear", "close", "clear2", "down", "raise", "leave", "done", "end"}]
    /\ target \in [Procs -> Clients]
    /\ state \in [Clients -> {"DISCONNECT", "EXCHANGED_SECRET", "LOGINED"}]
    /\ opts \in AllOptions
    /\ clientId \in [Clients -> Keys]
    /\ groupId \in [Clients -> Groups]
    /\ group \in [Clients -> Groups \cup {Nil}]
    /\ replied \subseteq Jobs
    /\ ctxDone \in [Clients -> BOOLEAN]
    /\ beDisposed \in [Clients -> BOOLEAN]
    /\ onDispose \in [Clients -> BOOLEAN]
    /\ actor \in [Clients -> {"run", "exit"}]
    /\ clearCh \in [Clients -> {0, 1}]
    /\ isClosed \in [Clients -> BOOLEAN]
    /\ closeMu \in [Clients -> Procs \cup {Nil}]
    /\ clients \in [Keys -> Clients \cup {Nil}]
    /\ members \in [Groups -> [Keys -> Clients \cup {Nil}]]
    /\ published \in [Clients -> {"no", "dropped", "queued", "self"} \cup Groups]

Init ==
    /\ pc = [p \in Procs |-> "idle"]
    /\ target = [p \in Procs |-> p[2]]
    /\ state = [n \in Clients |-> "DISCONNECT"]
    /\ opts \in Options
    /\ clientId = [n \in Clients |-> n]
    /\ groupId = [n \in Clients |-> World]
    /\ group = [n \in Clients |-> Nil]
    /\ replied = {}
    /\ ctxDone = [n \in Clients |-> FALSE]
    /\ beDisposed = [n \in Clients |-> FALSE]
    /\ onDispose = [n \in Clients |-> FALSE]
    /\ actor = [n \in Clients |-> "run"]
    /\ clearCh = [n \in Clients |-> 0]
    /\ isClosed = [n \in Clients |-> FALSE]
    /\ closeMu = [n \in Clients |-> Nil]
    /\ clients = [k \in Keys |-> Nil]
    /\ members = [g \in Groups |-> [k \in Keys |-> Nil]]
    /\ published = [n \in Clients |-> "no"]

Goto(p, l) == pc' = [pc EXCEPT ![p] = l]

login == opts.login

Serving(n)  == pc[<<"accept", n>>] = "end"    \* StartReadWrite was called
LoopFree(n) == pc[<<"loop", n>>] = "idle"     \* the run loop has neither returned nor an event

-----------------------------------------------------------------------------
(* Login *)

(* OnClientConnect: changeState(CONNECTED), which becomes LOGINED at once, *)
(* and raises OnLogin, on a server that needs no login.                    *)
Accept(n) == LET p == <<"accept", n>> IN
    /\ pc[p] = "idle"
    /\ IF opts.needLogin
       THEN /\ state' = [state EXCEPT ![n] = "EXCHANGED_SECRET"]
            /\ Goto(p, "end")
       ELSE /\ state' = [state EXCEPT ![n] = "LOGINED"]
            /\ Goto(p, "takeover")
    /\ UNCHANGED <<target, idVars, replied, ctxDone, beDisposed, onDispose, actor, clearCh,
                   connVars, hubVars, published>>

(* The handler of a login request sets ClientId and GroupId, in a job that *)
(* the run loop has started.  A Client may log in again, as somebody else, *)
(* also while another of its jobs is at work.  A request without an id has *)
(* no job and gets no response; its handler does the same.                 *)
Login(p) == LET n == p[2] IN
    /\ pc[p] = "idle" /\ Serving(n) /\ login[n][p[1]] # Nil
    /\ clientId' = [clientId EXCEPT ![n] = login[n][p[1]].id]
    /\ groupId' = [groupId EXCEPT ![n] = login[n][p[1]].room]
    /\ \E l \in {"reply", "done"} : Goto(p, l)
    /\ UNCHANGED <<target, state, opts, group, replied, ctxDone, beDisposed, onDispose, actor, clearCh,
                   connVars, hubVars, published>>

(* The response reaches the peer, which is logged in from now on *)
LoginReplied(p) ==
    /\ pc[p] = "reply" /\ ~isClosed[p[2]]
    /\ replied' = replied \cup {p}
    /\ UNCHANGED <<pc, target, state, idVars, ctxDone, beDisposed, onDispose, actor, clearCh,
                   connVars, hubVars, published>>

(* changeState(LOGINED) raises OnLogin only if the state changes *)
Logined(p) == Goto(p, IF state[p[2]] = "LOGINED" THEN "done" ELSE "takeover")

(* SendPacketWithRetry(resp) returns nil: the ack came, or ctx is done *)
LoginDone(p) == LET n == p[2] IN
    /\ pc[p] = "reply"
    /\ (p \in replied /\ LoopFree(n)) \/ ctxDone[n]
    /\ state' = [state EXCEPT ![n] = "LOGINED"]
    /\ Logined(p)
    /\ UNCHANGED <<target, idVars, replied, ctxDone, beDisposed, onDispose, actor, clearCh,
                   connVars, hubVars, published>>

(* No ack in time: no login; the peer may try again *)
LoginTimeout(p) ==
    /\ pc[p] = "reply"
    /\ Goto(p, "idle")
    /\ replied' = replied \ {p}
    /\ UNCHANGED <<target, state, idVars, ctxDone, beDisposed, onDispose, actor, clearCh,
                   connVars, hubVars, published>>

-----------------------------------------------------------------------------
(* Hub.onClientLogin, in the goroutine that raised OnLogin *)

(* mutant: any entry is taken, not the one of the same id *)
SomeEntry(k) == IF \E l \in Keys : clients[l] # Nil THEN CHOOSE l \in Keys : clients[l] # Nil ELSE k

OwnEntry(k) == k

Takeover(p) == LET k == OwnEntry(clientId[p[2]])
                   old == clients[k] IN
    /\ pc[p] = "takeover"
    /\ clients' = [clients EXCEPT ![k] = Nil]
    /\ target' = [target EXCEPT ![p] = IF old = Nil THEN p[2] ELSE old]
    /\ Goto(p, IF old = Nil THEN "add" ELSE "check")
    /\ UNCHANGED <<state, idVars, replied, ctxDone, beDisposed, onDispose, actor, clearCh,
                   connVars, members, published>>

AddClient(p) == LET n == p[2] IN
    /\ pc[p] = "add"
    /\ clients' = [clients EXCEPT ![clientId[n]] = n]
    /\ Goto(p, "join")
    /\ UNCHANGED <<target, state, idVars, replied, ctxDone, beDisposed, onDispose, actor, clearCh,
                   connVars, members, published>>

(* mutant: the room of the login is ignored *)
GroupIgnored(n) == World

GroupOf(n) == groupId[n]

(* Group.AddClient of the room, or of the world *)
JoinGroup(p) == LET n == p[2] IN
    /\ pc[p] = "join"
    /\ members' = [members EXCEPT ![GroupOf(n)][clientId[n]] = n]
    /\ group' = [group EXCEPT ![n] = GroupOf(n)]
    /\ Goto(p, "listen")
    /\ UNCHANGED <<target, state, opts, clientId, groupId, replied, ctxDone, beDisposed, onDispose, actor,
                   clearCh, connVars, clients, published>>

OnDisposeFree(n) == \A q \in Procs : ~(pc[q] = "leave" /\ target[q] = n)

(* OnDispose.AddEventListener waits while OnDispose is being raised *)
Listen(p) == LET n == p[2] IN
    /\ pc[p] = "listen"
    /\ OnDisposeFree(n)
    /\ onDispose' = [onDispose EXCEPT ![n] = TRUE]
    /\ Goto(p, "end")
    /\ UNCHANGED <<target, state, idVars, replied, ctxDone, beDisposed, actor, clearCh,
                   connVars, hubVars, published>>

-----------------------------------------------------------------------------
(* Client.Dispose of target[p] *)

(* What the goroutine does when Dispose returns *)
AfterDispose(p) == IF p[1] = "loop" THEN "idle" ELSE "add"

(* if beDisposed.Load() { return } *)
CheckDisposed(p) ==
    /\ pc[p] = "check"
    /\ Goto(p, IF beDisposed[target[p]] THEN AfterDispose(p) ELSE "mark")
    /\ UNCHANGED <<target, state, idVars, replied, ctxDone, beDisposed, onDispose, actor, clearCh,
                   connVars, hubVars, published>>

(* beDisposed.Store(true); cancel() *)
MarkDisposed(p) ==
    /\ pc[p] = "mark"
    /\ beDisposed' = [beDisposed EXCEPT ![target[p]] = TRUE]
    /\ ctxDone' = [ctxDone EXCEPT ![target[p]] = TRUE]
    /\ Goto(p, "clear")
    /\ UNCHANGED <<target, state, idVars, replied, onDispose, actor, clearCh, connVars, hubVars,
                   published>>

(* clearCh <- struct{}{} blocks while the channel is full *)
SendClear(p, l) ==
    /\ clearCh[target[p]] = 0
    /\ clearCh' = [clearCh EXCEPT ![target[p]] = 1]
    /\ Goto(p, l)
    /\ UNCHANGED <<target, state, idVars, replied, ctxDone, beDisposed, onDispose, actor,
                   connVars, hubVars, published>>

ClearSubTopics(p) == pc[p] = "clear" /\ SendClear(p, "close")

(* Where Close returns to: Dispose, or the goroutine that reads *)
AfterClose(p) == IF p[1] = "read" THEN "end" ELSE "raise"

(* conn.Close(): under closeMu, and only once *)
CloseConn(p) == LET t == target[p] IN
    /\ pc[p] = "close"
    /\ closeMu[t] = Nil
    /\ IF isClosed[t]
       THEN Goto(p, AfterClose(p)) /\ UNCHANGED connVars
       ELSE /\ Goto(p, "clear2")
            /\ isClosed' = [isClosed EXCEPT ![t] = TRUE]
            /\ closeMu' = [closeMu EXCEPT ![t] = p]
    /\ UNCHANGED <<target, state, idVars, replied, ctxDone, beDisposed, onDispose, actor, clearCh,
                   hubVars, published>>

(* OnDisconnect: ClearAllSubTopics ... *)
DisconnectClears(p) == pc[p] = "clear2" /\ SendClear(p, "down")

(* mutant: closeMu is not released *)
DisconnectedLocked(p) ==
    /\ pc[p] = "down"
    /\ state' = [state EXCEPT ![target[p]] = "DISCONNECT"]
    /\ Goto(p, AfterClose(p))
    /\ UNCHANGED <<target, idVars, replied, ctxDone, beDisposed, onDispose, actor, clearCh,
                   connVars, hubVars, published>>

(* ... and changeState(DISCONNECT); then closeMu is released *)
Disconnected(p) == LET t == target[p] IN
    /\ pc[p] = "down"
    /\ state' = [state EXCEPT ![t] = "DISCONNECT"]
    /\ closeMu' = [closeMu EXCEPT ![t] = Nil]
    /\ Goto(p, AfterClose(p))
    /\ UNCHANGED <<target, idVars, replied, ctxDone, beDisposed, onDispose, actor, clearCh,
                   isClosed, hubVars, published>>

RemovedKey(p) == clientId[target[p]]

(* OnDispose.RiseEvent: hub.RemoveClient ... *)
RaiseDispose(p) ==
    /\ pc[p] = "raise"
    /\ IF onDispose[target[p]]
       THEN /\ clients' = [clients EXCEPT ![RemovedKey(p)] = Nil]
            /\ Goto(p, "leave")
       ELSE /\ Goto(p, AfterDispose(p))
            /\ UNCHANGED clients
    /\ UNCHANGED <<target, state, idVars, replied, ctxDone, beDisposed, onDispose, actor, clearCh,
                   connVars, members, published>>

(* ... and group.RemoveClient *)
LeaveGroup(p) ==
    /\ pc[p] = "leave"
    /\ members' = [members EXCEPT ![groupId[target[p]]][RemovedKey(p)] = Nil]
    /\ Goto(p, AfterDispose(p))
    /\ UNCHANGED <<target, state, idVars, replied, ctxDone, beDisposed, onDispose, actor, clearCh,
                   connVars, clients, published>>

-----------------------------------------------------------------------------
(* The read goroutine ends and closes the connection: the peer went away,  *)
(* or somebody else has closed it.                                         *)
ReadEnds(n) == LET p == <<"read", n>> IN
    /\ Serving(n) /\ pc[p] = "idle"
    /\ n \in opts.mayFail \/ isClosed[n]
    /\ Goto(p, "close")
    /\ UNCHANGED <<target, state, idVars, replied, ctxDone, beDisposed, onDispose, actor, clearCh,
                   connVars, hubVars, published>>

(* The run loop ends with the context; until its select takes that case it *)
(* may still handle packets.                                               *)
LoopReturns(n) ==
    /\ LoopFree(n) /\ ctxDone[n]
    /\ Goto(<<"loop", n>>, "end")
    /\ UNCHANGED <<target, state, idVars, replied, ctxDone, beDisposed, onDispose, actor, clearCh,
                   connVars, hubVars, published>>

(* HeartbeatTimeout without data: the run loop disposes its own Client;    *)
(* where that is done already, Dispose returns at once.                    *)
HeartbeatTimeout(n) == LET p == <<"loop", n>> IN
    /\ Serving(n) /\ LoopFree(n) /\ ~beDisposed[n]
    /\ n \in opts.mayFail \/ isClosed[n]
    /\ Goto(p, "check")
    /\ UNCHANGED <<target, state, idVars, replied, ctxDone, beDisposed, onDispose, actor, clearCh,
                   connVars, hubVars, published>>

(* The PubSub goroutine: select takes either ready case *)
ActorClears(n) ==
    /\ actor[n] = "run" /\ clearCh[n] = 1
    /\ clearCh' = [clearCh EXCEPT ![n] = 0]
    /\ UNCHANGED <<pc, target, state, idVars, replied, ctxDone, beDisposed, onDispose, actor,
                   connVars, hubVars, published>>

ActorExits(n) ==
    /\ actor[n] = "run" /\ ctxDone[n]
    /\ actor' = [actor EXCEPT ![n] = "exit"]
    /\ UNCHANGED <<pc, target, state, idVars, replied, ctxDone, beDisposed, onDispose, clearCh,
                   connVars, hubVars, published>>

(* A publication of a peer that has a response to its login: the reader    *)
(* drops it before LOGINED and lets it through in DISCONNECT ...           *)
Publish(n) ==
    /\ n \in opts.publishing /\ published[n] = "no"
    /\ pc[<<"read", n>>] = "idle" /\ \E a \in Requests : <<a, n>> \in replied
    /\ published' = [published EXCEPT ![n] =
         IF state[n] = "EXCHANGED_SECRET" THEN "dropped" ELSE "queued"]
    /\ UNCHANGED <<pc, target, state, idVars, replied, ctxDone, beDisposed, onDispose, actor,
                   clearCh, connVars, hubVars>>

(* ... and onReceivePublish hands it to Client.Group *)
OnReceivePublish(n) ==
    /\ published[n] = "queued" /\ LoopFree(n)
    /\ published' = [published EXCEPT ![n] = IF group[n] = Nil THEN "self" ELSE group[n]]
    /\ UNCHANGED <<pc, target, state, idVars, replied, ctxDone, beDisposed, onDispose, actor,
                   clearCh, connVars, hubVars>>

-----------------------------------------------------------------------------
OnClientLogin(p) == Takeover(p) \/ AddClient(p) \/ JoinGroup(p) \/ Listen(p)

Dispose(p) ==
    \/ CheckDisposed(p) \/ MarkDisposed(p) \/ ClearSubTopics(p) \/ CloseConn(p)
    \/ DisconnectClears(p) \/ Disconnected(p) \/ RaiseDispose(p) \/ LeaveGroup(p)

Next ==
    \/ \E n \in Clients :
         \/ Accept(n) \/ ReadEnds(n) \/ LoopReturns(n) \/ HeartbeatTimeout(n)
         \/ ActorClears(n) \/ ActorExits(n) \/ Publish(n) \/ OnReceivePublish(n)
    \/ \E p \in Jobs : Login(p) \/ LoginReplied(p) \/ LoginDone(p) \/ LoginTimeout(p)
    \/ \E p \in Procs : OnClientLogin(p) \/ Dispose(p)

Spec == Init /\ [][Next]_vars

(* A goroutine that can take its next step takes it; a job's wait ends *)
Fairness ==
    /\ \A p \in Procs : WF_vars(OnClientLogin(p) \/ Dispose(p))
    /\ \A p \in Jobs : WF_vars(LoginDone(p) \/ LoginTimeout(p))
    /\ \A n \in Clients : WF_vars(ActorClears(n) \/ ActorExits(n))

FairSpec == Spec /\ Fairness

-----------------------------------------------------------------------------
(* The Clients n and m may be logged in under the same id *)
SharesId(n, m) == \E a, b \in Requests :
    login[n][a] # Nil /\ login[m][b] # Nil /\ login[n][a].id = login[m][b].id

(* Nobody disposes a Client but its own goroutines and the login of a peer *)
(* that uses an id of its peer's (hub.go:246), although a login may change *)
(* ClientId between any two steps of onClientLogin (hub.go:45).            *)
OnlySharedIdDisposed == \A p \in Procs : target[p] # p[2] => SharesId(p[2], target[p])

(* "after the login a client enters its room, or the world, by itself"     *)
(* (ReadMe.md:33): a Client whose login has ended in onClientLogin, and    *)
(* that nobody disposes, is found in the hub and in its group.  It is not  *)
(* so when an earlier connection of its id is disposed late (hub.go:259),  *)
(* nor for a peer that logs in again as somebody else (hub.go:45).         *)
InRoom(n, params) == clients[params.id] = n /\ members[params.room][params.id] = n

Doomed(n) == beDisposed[n] \/ \E p \in Procs : pc[p] \in {"check", "mark"} /\ target[p] = n

LoginedInRoom == \A p \in Jobs :
    pc[p] = "end" /\ ~Doomed(p[2]) => InRoom(p[2], login[p[2]][p[1]])

(* As far as the code keeps that: a peer that keeps to one id and room can *)
(* only be put out by another connection of its id, one that got as far as *)
(* OnLogin or was disposed (hub.go:246, 259).                              *)
OneLogin(n) == \A a, b \in Requests :
    login[n][a] # Nil /\ login[n][b] # Nil => login[n][a] = login[n][b]

RaisedOnLogin == {"takeover", "add", "join", "listen", "check", "mark", "clear", "close", "clear2",
                  "down", "raise", "leave", "end"}

Rival(n) == \E m \in Clients \ {n} :
    SharesId(n, m) /\ (beDisposed[m] \/ \E a \in Requests : pc[<<a, m>>] \in RaisedOnLogin)

OnlySameIdDisplaces == \A p \in Jobs :
    pc[p] = "end" /\ OneLogin(p[2]) /\ ~Doomed(p[2]) =>
        InRoom(p[2], login[p[2]][p[1]]) \/ Rival(p[2])

(* "the server publishes in the client's room" (ReadMe.md:34): once a      *)
(* login has put the Client into its group, no publication is dropped or   *)
(* stays with the Client, and it goes to a room its peer has logged in to. *)
(* Between the response and that moment it may be dropped or stay.         *)
InGroup(n) == \E a \in Requests : pc[<<a, n>>] \in {"listen", "end"}
RoomsOf(n) == {login[n][a].room : a \in {a \in Requests : login[n][a] # Nil}}

PublishGoesToRoom ==
    [][\A n \in Clients : published'[n] # published[n] /\ InGroup(n) =>
         published'[n] \in {"queued"} \cup RoomsOf(n)]_vars

(* "after the login a client enters its room" (ReadMe.md:33): a login that *)
(* raised OnLogin comes to the end of onClientLogin.                       *)
LoginCompletes == \A p \in Jobs : pc[p] = "takeover" ~> pc[p] = "end"

(* Nothing but that hang holds up a goroutine that logs in, disposes or    *)
(* closes: two of them may dispose one Client, or each other, and wait for *)
(* closeMu, clearCh and OnDispose (client.go:704, tcp_conn.go:134).        *)
Hang == \E p \in Procs : /\ pc[p] \in {"clear", "clear2"}
                         /\ clearCh[target[p]] = 1 /\ actor[target[p]] = "exit"

AllRest == \A p \in Procs : pc[p] \in {"idle", "reply", "done", "end"}

GoroutinesGoOn == []<>AllRest \/ <>Hang
=============================================================================
