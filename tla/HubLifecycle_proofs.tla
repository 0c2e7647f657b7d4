------------------------ MODULE HubLifecycle_proofs ------------------------
(***************************************************************************)
(* For any number of connections, ids, rooms and login requests, with and  *)
(* without NeedLogin: OnlySharedIdDisposed, OnlySameIdDisplaces and        *)
(* PublishGoesToRoom.  A Client has an id of its peer's from its first     *)
(* login on, which a later login may change; entries are filed under such  *)
(* ids; and a dispose touches only entries of a Client that it has marked. *)
(***************************************************************************)
EXTENDS HubLifecycle, TLAPS

LEMMA ProcsAre ==
    /\ \A p \in Procs : p[1] \in {"accept", "read", "loop"} \cup Requests /\ p[2] \in Clients
    /\ \A p \in Procs : p = <<p[1], p[2]>>
    /\ \A n \in Clients : <<"accept", n>> \in Procs /\ <<"read", n>> \in Procs /\ <<"loop", n>> \in Procs
  BY DEF Procs

LEMMA JobsAre ==
    /\ \A p \in Jobs : p \in Procs /\ p[1] \in Requests /\ p[2] \in Clients /\ p = <<p[1], p[2]>>
    /\ \A n \in Clients, a \in Requests : <<a, n>> \in Jobs
    /\ \A p \in Jobs : p[1] \notin {"accept", "read", "loop"}
  BY HubLifecycleAssumption DEF Procs, Jobs

(* The login parameters never change *)
LEMMA LoginsAre ==
    ASSUME TypeOK
    PROVE  \A n \in Clients, a \in Requests :
             login[n][a] # Nil => /\ login[n][a].id \in Ids
                                  /\ login[n][a].room \in Groups
  BY DEF TypeOK, AllOptions, login, LoginParams, Groups

LEMMA TypesStart == Init => TypeOK
  BY HubLifecycleAssumption, ProcsAre DEF Init, TypeOK, Keys, Groups

LEMMA TypesKept == TypeOK /\ [Next]_vars => TypeOK'
<1> SUFFICES ASSUME TypeOK, [Next]_vars PROVE TypeOK'
  OBVIOUS
<1> USE HubLifecycleAssumption, ProcsAre DEF TypeOK, Goto, connVars, hubVars, idVars
<1>1. ASSUME NEW n \in Clients, Accept(n)
      PROVE  TypeOK'
  <2>1. PICK l \in {"end", "takeover"}, s \in {"EXCHANGED_SECRET", "LOGINED"} :
          pc' = [pc EXCEPT ![<<"accept", n>>] = l] /\ state' = [state EXCEPT ![n] = s]
    BY <1>1 DEF Accept
  <2>2. UNCHANGED <<target, opts, clientId, groupId, group, replied, ctxDone, beDisposed, onDispose,
                    actor, clearCh, isClosed, closeMu, clients, members, published>>
    BY <1>1 DEF Accept
  <2> QED BY <2>1, <2>2
<1>2. ASSUME NEW p \in Jobs, Login(p)
      PROVE  TypeOK'
  <2>1. p \in Procs /\ p[2] \in Clients /\ p[1] \in Requests
    BY JobsAre
  <2>2. login[p[2]][p[1]].id \in Keys /\ login[p[2]][p[1]].room \in Groups
    BY <1>2, <2>1, LoginsAre DEF Login, Keys, Groups, LoginParams
  <2>3. PICK l \in {"reply", "done"} : pc' = [pc EXCEPT ![p] = l]
    BY <1>2 DEF Login
  <2> QED BY <1>2, <2>1, <2>2, <2>3 DEF Login
<1>3. ASSUME NEW p \in Jobs, LoginReplied(p) \/ LoginDone(p) \/ LoginTimeout(p)
      PROVE  TypeOK'
  <2>0. p \in Procs /\ p[2] \in Clients
    BY JobsAre
  <2>1. CASE LoginReplied(p)
    BY <2>1 DEF LoginReplied
  <2>2. CASE LoginDone(p)
    BY <2>0, <2>2 DEF LoginDone, Logined
  <2>3. CASE LoginTimeout(p)
    BY <2>0, <2>3 DEF LoginTimeout
  <2> QED BY <1>3, <2>1, <2>2, <2>3
<1>4. ASSUME NEW n \in Clients, \/ ReadEnds(n) \/ LoopReturns(n) \/ HeartbeatTimeout(n)
                                \/ ActorClears(n) \/ ActorExits(n) \/ Publish(n) \/ OnReceivePublish(n)
      PROVE  TypeOK'
  <2>1. CASE ReadEnds(n)
    BY <2>1 DEF ReadEnds
  <2>2. CASE LoopReturns(n)
    BY <2>2 DEF LoopReturns
  <2>3. CASE HeartbeatTimeout(n)
    BY <2>3 DEF HeartbeatTimeout
  <2>4. CASE ActorClears(n)
    BY <2>4 DEF ActorClears
  <2>5. CASE ActorExits(n)
    BY <2>5 DEF ActorExits
  <2>6. CASE Publish(n)
    BY <2>6 DEF Publish
  <2>7. CASE OnReceivePublish(n)
    BY <2>7 DEF OnReceivePublish
  <2> QED BY <1>4, <2>1, <2>2, <2>3, <2>4, <2>5, <2>6, <2>7
<1>5. ASSUME NEW p \in Procs, OnClientLogin(p)
      PROVE  TypeOK'
  <2>1. CASE Takeover(p)
    BY <2>1 DEF Takeover, OwnEntry
  <2>2. CASE AddClient(p)
    BY <2>2 DEF AddClient
  <2>3. CASE JoinGroup(p)
    BY <2>3 DEF JoinGroup, GroupOf
  <2>4. CASE Listen(p)
    BY <2>4 DEF Listen
  <2> QED BY <1>5, <2>1, <2>2, <2>3, <2>4 DEF OnClientLogin
<1>6. ASSUME NEW p \in Procs, Dispose(p)
      PROVE  TypeOK'
  <2>1. CASE CheckDisposed(p)
    BY <2>1 DEF CheckDisposed, AfterDispose
  <2>2. CASE MarkDisposed(p)
    BY <2>2 DEF MarkDisposed
  <2>3. CASE ClearSubTopics(p)
    BY <2>3 DEF ClearSubTopics, SendClear
  <2>4. CASE CloseConn(p)
    <3>1. CASE isClosed[target[p]]
      <4>1. PICK l \in {"end", "raise"} : pc' = [pc EXCEPT ![p] = l]
        BY <2>4, <3>1 DEF CloseConn, AfterClose
      <4>2. UNCHANGED <<target, state, opts, clientId, groupId, group, replied, ctxDone, beDisposed,
                        onDispose, actor, clearCh, isClosed, closeMu, clients, members, published>>
        BY <2>4, <3>1 DEF CloseConn
      <4> QED BY <4>1, <4>2
    <3>2. CASE ~isClosed[target[p]]
      <4>1. /\ closeMu' = [closeMu EXCEPT ![target[p]] = p]
            /\ isClosed' = [isClosed EXCEPT ![target[p]] = TRUE]
            /\ pc' = [pc EXCEPT ![p] = "clear2"]
            /\ UNCHANGED <<target, state, opts, clientId, groupId, group, replied, ctxDone, beDisposed,
                           onDispose, actor, clearCh, clients, members, published>>
        BY <2>4, <3>2 DEF CloseConn
      <4>2. closeMu' \in [Clients -> Procs \cup {Nil}]
        BY <4>1
      <4> QED BY <4>1, <4>2
    <3> QED BY <3>1, <3>2
  <2>5. CASE DisconnectClears(p)
    BY <2>5 DEF DisconnectClears, SendClear
  <2>6. CASE Disconnected(p)
    BY <2>6 DEF Disconnected, AfterClose
  <2>7. CASE RaiseDispose(p)
    <3>1. clients' \in [Keys -> Clients \cup {Nil}]
      BY <2>7 DEF RaiseDispose, RemovedKey
    <3>2. PICK l \in {"leave", "add", "idle"} : pc' = [pc EXCEPT ![p] = l]
      BY <2>7 DEF RaiseDispose, AfterDispose
    <3>3. UNCHANGED <<target, state, opts, clientId, groupId, group, replied, ctxDone, beDisposed, onDispose,
                      actor, clearCh, isClosed, closeMu, members, published>>
      BY <2>7 DEF RaiseDispose
    <3> QED BY <3>1, <3>2, <3>3
  <2>8. CASE LeaveGroup(p)
    BY <2>8 DEF LeaveGroup, AfterDispose, RemovedKey
  <2> QED BY <1>6, <2>1, <2>2, <2>3, <2>4, <2>5, <2>6, <2>7, <2>8 DEF Dispose
<1>7. CASE UNCHANGED vars
  BY <1>7 DEF vars
<1> QED BY <1>1, <1>2, <1>3, <1>4, <1>5, <1>6, <1>7 DEF Next

-----------------------------------------------------------------------------
(* Every variable keeps its type: in particular clearCh never holds more   *)
(* than its one place (pub_sub.go:82).                                     *)
THEOREM Typed == Spec => []TypeOK
  BY TypesStart, TypesKept, PTL DEF Spec

-----------------------------------------------------------------------------
(* What the steps leave alone *)
LEMMA Unchanged ==
    ASSUME TypeOK, [Next]_vars
    PROVE  /\ opts' = opts
           /\ (\E p \in Jobs : Login(p)) \/ UNCHANGED <<clientId, groupId>>
           /\ (\E p \in Procs : Takeover(p)) \/ UNCHANGED target
           /\ (\E p \in Procs : JoinGroup(p)) \/ UNCHANGED group
           /\ (\E p \in Procs : MarkDisposed(p)) \/ UNCHANGED beDisposed
<1> USE DEF OnClientLogin, Dispose, idVars, vars
<1>1. opts' = opts
  BY DEF Next, Accept, Login, LoginReplied, LoginDone, LoginTimeout, ReadEnds, LoopReturns, HeartbeatTimeout,
     ActorClears, ActorExits, Publish, OnReceivePublish, Takeover, AddClient, JoinGroup, Listen,
     CheckDisposed, MarkDisposed, ClearSubTopics, SendClear, CloseConn, DisconnectClears, Disconnected,
     RaiseDispose, LeaveGroup
<1>2. (\E p \in Jobs : Login(p)) \/ UNCHANGED <<clientId, groupId>>
  BY DEF Next, Accept, LoginReplied, LoginDone, LoginTimeout, ReadEnds, LoopReturns, HeartbeatTimeout,
     ActorClears, ActorExits, Publish, OnReceivePublish, Takeover, AddClient, JoinGroup, Listen,
     CheckDisposed, MarkDisposed, ClearSubTopics, SendClear, CloseConn, DisconnectClears, Disconnected,
     RaiseDispose, LeaveGroup
<1>3. (\E p \in Procs : Takeover(p)) \/ UNCHANGED target
  BY DEF Next, Accept, Login, LoginReplied, LoginDone, LoginTimeout, ReadEnds, LoopReturns, HeartbeatTimeout,
     ActorClears, ActorExits, Publish, OnReceivePublish, AddClient, JoinGroup, Listen,
     CheckDisposed, MarkDisposed, ClearSubTopics, SendClear, CloseConn, DisconnectClears, Disconnected,
     RaiseDispose, LeaveGroup
<1>4. (\E p \in Procs : JoinGroup(p)) \/ UNCHANGED group
  BY DEF Next, Accept, Login, LoginReplied, LoginDone, LoginTimeout, ReadEnds, LoopReturns, HeartbeatTimeout,
     ActorClears, ActorExits, Publish, OnReceivePublish, Takeover, AddClient, Listen,
     CheckDisposed, MarkDisposed, ClearSubTopics, SendClear, CloseConn, DisconnectClears, Disconnected,
     RaiseDispose, LeaveGroup
<1>5. (\E p \in Procs : MarkDisposed(p)) \/ UNCHANGED beDisposed
  BY DEF Next, Accept, Login, LoginReplied, LoginDone, LoginTimeout, ReadEnds, LoopReturns, HeartbeatTimeout,
     ActorClears, ActorExits, Publish, OnReceivePublish, Takeover, AddClient, JoinGroup, Listen,
     CheckDisposed, ClearSubTopics, SendClear, CloseConn, DisconnectClears, Disconnected,
     RaiseDispose, LeaveGroup
<1> QED BY <1>1, <1>2, <1>3, <1>4, <1>5

LEMMA ClientsChange ==
    ASSUME TypeOK, [Next]_vars
    PROVE  (\E p \in Procs : Takeover(p) \/ AddClient(p) \/ RaiseDispose(p)) \/ UNCHANGED clients
  BY DEF OnClientLogin, Dispose, hubVars, vars,
     Next, Accept, Login, LoginReplied, LoginDone, LoginTimeout, ReadEnds, LoopReturns, HeartbeatTimeout,
     ActorClears, ActorExits, Publish, OnReceivePublish, JoinGroup, Listen,
     CheckDisposed, MarkDisposed, ClearSubTopics, SendClear, CloseConn, DisconnectClears, Disconnected,
     LeaveGroup

LEMMA MembersChange ==
    ASSUME TypeOK, [Next]_vars
    PROVE  (\E p \in Procs : JoinGroup(p) \/ LeaveGroup(p)) \/ UNCHANGED members
  BY DEF OnClientLogin, Dispose, hubVars, vars,
     Next, Accept, Login, LoginReplied, LoginDone, LoginTimeout, ReadEnds, LoopReturns, HeartbeatTimeout,
     ActorClears, ActorExits, Publish, OnReceivePublish, Takeover, AddClient, Listen,
     CheckDisposed, MarkDisposed, ClearSubTopics, SendClear, CloseConn, DisconnectClears, Disconnected,
     RaiseDispose

-----------------------------------------------------------------------------
(* A Client has its random id or one of its peer's, and is filed under     *)
(* such ids only                                                           *)
OwnIds(n) == {n} \cup {login[n][a].id : a \in {a \in Requests : login[n][a] # Nil}}

IdsAreOwn ==
    /\ \A n \in Clients : clientId[n] \in OwnIds(n)
    /\ \A k \in Keys : clients[k] # Nil => k \in OwnIds(clients[k])

LEMMA SameIdShared ==
    ASSUME TypeOK, NEW n \in Clients, NEW m \in Clients, n # m,
           NEW k, k \in OwnIds(n), k \in OwnIds(m)
    PROVE  SharesId(n, m)
<1>1. \A c \in Clients : k \in OwnIds(c) =>
        k = c \/ (k \in Ids /\ \E a \in Requests : login[c][a] # Nil /\ login[c][a].id = k)
  BY LoginsAre DEF OwnIds
<1>2. k \notin Clients \/ k \notin Ids
  BY HubLifecycleAssumption
<1>3. \E a \in Requests : login[n][a] # Nil /\ login[n][a].id = k
  BY <1>1, <1>2
<1>4. \E a \in Requests : login[m][a] # Nil /\ login[m][a].id = k
  BY <1>1, <1>2
<1> QED BY <1>3, <1>4 DEF SharesId

LEMMA IdsKept == TypeOK /\ IdsAreOwn /\ [Next]_vars => IdsAreOwn'
<1> SUFFICES ASSUME TypeOK, IdsAreOwn, [Next]_vars PROVE IdsAreOwn'
  OBVIOUS
<1>0. \A n : OwnIds(n)' = OwnIds(n)
  BY Unchanged DEF OwnIds, login
<1>1. ASSUME NEW n \in Clients PROVE clientId'[n] \in OwnIds(n)
  <2>1. CASE UNCHANGED clientId
    BY <2>1 DEF IdsAreOwn
  <2>2. ASSUME NEW p \in Jobs, Login(p) PROVE clientId'[n] \in OwnIds(n)
    <3>1. /\ login[p[2]][p[1]] # Nil /\ p[1] \in Requests
          /\ clientId' = [clientId EXCEPT ![p[2]] = login[p[2]][p[1]].id]
      BY <2>2, JobsAre DEF Login
    <3>2. CASE p[2] = n
      BY <3>1, <3>2 DEF OwnIds, TypeOK
    <3>3. CASE p[2] # n
      BY <3>1, <3>3 DEF IdsAreOwn, TypeOK
    <3> QED BY <3>2, <3>3
  <2> QED BY <2>1, <2>2, Unchanged
<1>2. ASSUME NEW k \in Keys, clients'[k] # Nil PROVE k \in OwnIds(clients'[k])
  <2>1. CASE clients'[k] = clients[k]
    BY <1>2, <2>1 DEF IdsAreOwn
  <2>2. CASE clients'[k] # clients[k]
    <3>1. PICK p \in Procs : Takeover(p) \/ AddClient(p) \/ RaiseDispose(p)
      BY <2>2, ClientsChange
    <3>2. AddClient(p)
      <4>1. ~Takeover(p)
        BY <1>2, <2>2 DEF Takeover, TypeOK
      <4>2. ~RaiseDispose(p)
        BY <1>2, <2>2 DEF RaiseDispose, TypeOK
      <4> QED BY <3>1, <4>1, <4>2
    <3>3. clients'[k] = p[2] /\ k = clientId[p[2]] /\ p[2] \in Clients
      BY <2>2, <3>2, ProcsAre DEF AddClient, TypeOK
    <3> QED BY <3>3 DEF IdsAreOwn
  <2> QED BY <2>1, <2>2
<1> QED BY <1>0, <1>1, <1>2 DEF IdsAreOwn

LEMMA TargetsKept == TypeOK /\ IdsAreOwn /\ OnlySharedIdDisposed /\ [Next]_vars => OnlySharedIdDisposed'
<1> SUFFICES ASSUME TypeOK, IdsAreOwn, OnlySharedIdDisposed, [Next]_vars
             PROVE  OnlySharedIdDisposed'
  OBVIOUS
<1>0. \A n, m : SharesId(n, m)' <=> SharesId(n, m)
  BY Unchanged DEF SharesId, login
<1> SUFFICES ASSUME NEW q \in Procs, NEW t, t = target'[q], t # q[2]
             PROVE  SharesId(q[2], t)
  BY <1>0 DEF OnlySharedIdDisposed
<1>1. CASE target'[q] = target[q]
  <2>1. SharesId(q[2], target[q])
    BY <1>1 DEF OnlySharedIdDisposed
  <2> QED BY <1>1, <2>1
<1>2. CASE target'[q] # target[q]
  <2>1. PICK p \in Procs : Takeover(p)
    BY <1>2, Unchanged
  <2>2. p = q
    BY <1>2, <2>1 DEF Takeover, TypeOK
  <2> DEFINE n == q[2]
             old == clients[clientId[n]]
  <2>3. n \in Clients /\ clientId[n] \in Keys
    BY ProcsAre DEF TypeOK
  <2>4. old # Nil /\ target'[q] = old
    BY <2>1, <2>2 DEF Takeover, OwnEntry, TypeOK
  <2>5. old \in Clients /\ old # n
    BY <2>3, <2>4 DEF TypeOK
  <2>6. clientId[n] \in OwnIds(n) /\ clientId[n] \in OwnIds(old)
    BY <2>3, <2>4 DEF IdsAreOwn
  <2>7. SharesId(n, old)
    BY <2>3, <2>5, <2>6, SameIdShared
  <2> QED BY <2>4, <2>7
<1> QED BY <1>1, <1>2

LEMMA IdsStart == Init => IdsAreOwn /\ OnlySharedIdDisposed
<1> SUFFICES ASSUME Init PROVE IdsAreOwn /\ OnlySharedIdDisposed
  OBVIOUS
<1>1. IdsAreOwn
  BY DEF Init, IdsAreOwn, OwnIds
<1>2. OnlySharedIdDisposed
  BY DEF Init, OnlySharedIdDisposed
<1> QED BY <1>1, <1>2

(* A Client is disposed by its own goroutines and by the login of a peer   *)
(* that uses an id of its peer's, and by nobody else, however often and as *)
(* whom the peers log in (hub.go:45, 246-250, client.go:173).              *)
THEOREM TakeoverHitsSharedId == Spec => []OnlySharedIdDisposed
  BY IdsStart, IdsKept, TargetsKept, Typed, PTL DEF Spec

-----------------------------------------------------------------------------
(* The steps of one goroutine, by where it is and where it goes *)
Disposing == {"clear", "close", "clear2", "down", "raise", "leave"}

Edge(p, l) ==
    \/ p[1] = "accept" /\ pc[p] = "idle" /\ l \in {"end", "takeover"}
    \/ p \in Jobs /\ l \in {"reply", "done"} /\ pc[p] = "idle" /\ Login(p)
    \/ p \in Jobs /\ pc[p] = "reply" /\ (l \in {"idle", "done"} \/ (l = "takeover" /\ LoginDone(p)))
    \/ p[1] = "read" /\ pc[p] = "idle" /\ l = "close"
    \/ p[1] = "loop" /\ pc[p] = "idle" /\ l \in {"end", "check"}
    \/ pc[p] = "takeover" /\ l \in {"add", "check"}
    \/ pc[p] = "add" /\ l = "join" /\ AddClient(p)
    \/ pc[p] = "join" /\ l = "listen" /\ JoinGroup(p)
    \/ pc[p] = "listen" /\ l = "end"
    \/ pc[p] = "check" /\ (l = "mark" \/ (l = AfterDispose(p) /\ beDisposed[target[p]]))
    \/ pc[p] = "mark" /\ l = "clear" /\ MarkDisposed(p)
    \/ pc[p] \in {"clear", "close", "clear2", "down"} /\ l \in {"close", "clear2", "down", AfterClose(p)}
    \/ pc[p] \in {"raise", "leave"} /\ l \in {"leave", AfterDispose(p)}

LEMMA Moves ==
    ASSUME TypeOK, [Next]_vars
    PROVE  pc' = pc \/ \E p \in Procs : \E l : pc' = [pc EXCEPT ![p] = l] /\ Edge(p, l)
<1> DEFINE Found == \E p \in Procs : \E l : pc' = [pc EXCEPT ![p] = l] /\ Edge(p, l)
<1> SUFFICES ASSUME pc' # pc PROVE Found
  OBVIOUS
<1> USE DEF Goto
<1>1. ASSUME NEW n \in Clients, Accept(n) PROVE Found
  <2>1. PICK l \in {"end", "takeover"} : pc' = [pc EXCEPT ![<<"accept", n>>] = l]
    BY <1>1 DEF Accept
  <2>2. Edge(<<"accept", n>>, l)
    BY <1>1, <2>1 DEF Accept, Edge
  <2> QED BY <2>1, <2>2, ProcsAre
<1>2. ASSUME NEW p \in Jobs, Login(p) PROVE Found
  <2>1. PICK l \in {"reply", "done"} : pc' = [pc EXCEPT ![p] = l]
    BY <1>2 DEF Login
  <2>2. pc[p] = "idle"
    BY <1>2 DEF Login
  <2>3. Edge(p, l)
    BY <1>2, <2>1, <2>2 DEF Edge
  <2> QED BY <2>1, <2>3, JobsAre
<1>3. ASSUME NEW p \in Jobs, LoginDone(p) \/ LoginTimeout(p) PROVE Found
  <2>1. CASE LoginDone(p)
    <3>1. PICK l \in {"done", "takeover"} : pc' = [pc EXCEPT ![p] = l]
      BY <2>1 DEF LoginDone, Logined
    <3>2. pc[p] = "reply"
      BY <2>1 DEF LoginDone
    <3>3. Edge(p, l)
      BY <2>1, <3>2 DEF Edge
    <3> QED BY <3>1, <3>3, JobsAre
  <2>2. CASE LoginTimeout(p)
    <3>1. pc' = [pc EXCEPT ![p] = "idle"] /\ pc[p] = "reply"
      BY <2>2 DEF LoginTimeout
    <3>2. Edge(p, "idle")
      BY <3>1 DEF Edge
    <3> QED BY <3>1, <3>2, JobsAre
  <2> QED BY <1>3, <2>1, <2>2
<1>4. ASSUME NEW n \in Clients, ReadEnds(n) PROVE Found
  <2>1. pc' = [pc EXCEPT ![<<"read", n>>] = "close"] /\ Edge(<<"read", n>>, "close")
    BY <1>4 DEF ReadEnds, Edge
  <2> QED BY <2>1, ProcsAre
<1>5. ASSUME NEW n \in Clients, LoopReturns(n) \/ HeartbeatTimeout(n) PROVE Found
  <2>1. PICK l \in {"end", "check"} : pc' = [pc EXCEPT ![<<"loop", n>>] = l]
    BY <1>5 DEF LoopReturns, HeartbeatTimeout
  <2>2. Edge(<<"loop", n>>, l)
    BY <1>5, <2>1 DEF LoopReturns, HeartbeatTimeout, LoopFree, Edge
  <2> QED BY <2>1, <2>2, ProcsAre
<1>6. ASSUME NEW p \in Procs, OnClientLogin(p) PROVE Found
  <2>1. CASE Takeover(p)
    <3>1. PICK l \in {"add", "check"} : pc' = [pc EXCEPT ![p] = l]
      BY <2>1 DEF Takeover
    <3>2. Edge(p, l)
      BY <2>1, <3>1 DEF Takeover, Edge
    <3> QED BY <3>1, <3>2
  <2>2. CASE AddClient(p)
    <3>1. pc' = [pc EXCEPT ![p] = "join"] /\ pc[p] = "add"
      BY <2>2 DEF AddClient
    <3>2. Edge(p, "join")
      BY <2>2, <3>1 DEF Edge
    <3> QED BY <3>1, <3>2
  <2>3. CASE JoinGroup(p)
    <3>1. pc' = [pc EXCEPT ![p] = "listen"] /\ pc[p] = "join"
      BY <2>3 DEF JoinGroup
    <3>2. Edge(p, "listen")
      BY <2>3, <3>1 DEF Edge
    <3> QED BY <3>1, <3>2
  <2>4. CASE Listen(p)
    <3>1. pc' = [pc EXCEPT ![p] = "end"] /\ Edge(p, "end")
      BY <2>4 DEF Listen, Edge
    <3> QED BY <3>1
  <2> QED BY <1>6, <2>1, <2>2, <2>3, <2>4 DEF OnClientLogin
<1>7. ASSUME NEW p \in Procs, Dispose(p) PROVE Found
  <2>1. CASE CheckDisposed(p)
    <3>1. pc' = [pc EXCEPT ![p] = IF beDisposed[target[p]] THEN AfterDispose(p) ELSE "mark"] /\ pc[p] = "check"
      BY <2>1 DEF CheckDisposed
    <3>2. Edge(p, IF beDisposed[target[p]] THEN AfterDispose(p) ELSE "mark")
      BY <3>1 DEF Edge
    <3> QED BY <3>1, <3>2
  <2>2. CASE MarkDisposed(p)
    <3>1. pc' = [pc EXCEPT ![p] = "clear"] /\ pc[p] = "mark"
      BY <2>2 DEF MarkDisposed
    <3>2. Edge(p, "clear")
      BY <2>2, <3>1 DEF Edge
    <3> QED BY <3>1, <3>2
  <2>3. CASE ClearSubTopics(p) \/ CloseConn(p) \/ DisconnectClears(p) \/ Disconnected(p)
    <3>1. PICK l \in {"close", "clear2", "down", AfterClose(p)} : pc' = [pc EXCEPT ![p] = l]
      BY <2>3 DEF ClearSubTopics, SendClear, CloseConn, DisconnectClears, Disconnected
    <3>2. pc[p] \in {"clear", "close", "clear2", "down"}
      BY <2>3 DEF ClearSubTopics, CloseConn, DisconnectClears, Disconnected
    <3>3. Edge(p, l)
      BY <3>1, <3>2 DEF Edge
    <3> QED BY <3>1, <3>3
  <2>4. CASE RaiseDispose(p) \/ LeaveGroup(p)
    <3>1. PICK l \in {"leave", AfterDispose(p)} : pc' = [pc EXCEPT ![p] = l]
      BY <2>4 DEF RaiseDispose, LeaveGroup
    <3>2. pc[p] \in {"raise", "leave"}
      BY <2>4 DEF RaiseDispose, LeaveGroup
    <3>3. Edge(p, l)
      BY <3>1, <3>2 DEF Edge
    <3> QED BY <3>1, <3>3
  <2> QED BY <1>7, <2>1, <2>2, <2>3, <2>4 DEF Dispose
<1>8. CASE UNCHANGED pc
  BY <1>8
<1>9. (\E n \in Clients : ActorClears(n) \/ ActorExits(n) \/ Publish(n) \/ OnReceivePublish(n))
      \/ (\E p \in Jobs : LoginReplied(p)) \/ UNCHANGED vars => UNCHANGED pc
  BY DEF LoginReplied, ActorClears, ActorExits, Publish, OnReceivePublish, vars
<1> QED BY <1>1, <1>2, <1>3, <1>4, <1>5, <1>6, <1>7, <1>8, <1>9 DEF Next

(* The same, for one goroutine *)
LEMMA MovesOne ==
    ASSUME TypeOK, [Next]_vars, NEW q \in Procs
    PROVE  pc'[q] = pc[q] \/ Edge(q, pc'[q])
<1>1. CASE pc' = pc
  BY <1>1
<1>2. CASE pc' # pc
  <2>1. PICK p \in Procs : \E l : pc' = [pc EXCEPT ![p] = l] /\ Edge(p, l)
    BY <1>2, Moves
  <2>2. PICK l : pc' = [pc EXCEPT ![p] = l] /\ Edge(p, l)
    BY <2>1
  <2>3. CASE p = q
    <3>1. pc'[q] = l
      BY <2>2, <2>3 DEF TypeOK
    <3> QED BY <2>2, <2>3, <3>1
  <2>4. CASE p # q
    BY <2>2, <2>4 DEF TypeOK
  <2> QED BY <2>3, <2>4
<1> QED BY <1>1, <1>2

LEMMA TargetStays ==
    ASSUME TypeOK, [Next]_vars, NEW p \in Procs, pc[p] # "takeover"
    PROVE  target'[p] = target[p]
  BY Unchanged DEF Takeover, TypeOK

LEMMA DisposedStays ==
    ASSUME TypeOK, [Next]_vars, NEW n \in Clients, beDisposed[n]
    PROVE  beDisposed'[n]
<1>1. CASE UNCHANGED beDisposed
  BY <1>1
<1>2. ASSUME NEW p \in Procs, MarkDisposed(p) PROVE beDisposed'[n]
  BY <1>2 DEF MarkDisposed, TypeOK
<1> QED BY <1>1, <1>2, Unchanged

-----------------------------------------------------------------------------
(* Which goroutine is where, and that it disposes no Client it has not     *)
(* marked                                                                  *)
Roles ==
    \A p \in Procs :
      /\ p[1] = "read" => pc[p] \in {"idle", "close", "clear2", "down", "end"}
      /\ p[1] = "loop" => pc[p] \notin {"takeover", "add", "join", "listen", "reply", "done"}
      /\ p[1] # "read" /\ pc[p] \in Disposing => beDisposed[target[p]]

LEMMA RolesKept == TypeOK /\ Roles /\ [Next]_vars => Roles'
<1> SUFFICES ASSUME TypeOK, Roles, [Next]_vars, NEW p \in Procs
             PROVE  /\ p[1] = "read" => pc'[p] \in {"idle", "close", "clear2", "down", "end"}
                    /\ p[1] = "loop" => pc'[p] \notin {"takeover", "add", "join", "listen", "reply", "done"}
                    /\ p[1] # "read" /\ pc'[p] \in Disposing => beDisposed'[target'[p]]
  BY DEF Roles
<1>0. pc'[p] = pc[p] \/ Edge(p, pc'[p])
  BY MovesOne
<1>1. p[1] = "read" => pc'[p] \in {"idle", "close", "clear2", "down", "end"}
  BY <1>0, JobsAre DEF Roles, Edge, AfterClose
<1>2. p[1] = "loop" => pc'[p] \notin {"takeover", "add", "join", "listen", "reply", "done"}
  BY <1>0, JobsAre DEF Roles, Edge, AfterClose, AfterDispose
<1>3. ASSUME p[1] # "read", pc'[p] \in Disposing PROVE beDisposed'[target'[p]]
  <2>1. CASE pc[p] \in Disposing
    <3>1. beDisposed[target[p]] /\ target[p] \in Clients /\ target'[p] = target[p]
      BY <1>3, <2>1, TargetStays DEF Roles, TypeOK, Disposing
    <3> QED BY <3>1, DisposedStays
  <2>2. CASE pc[p] \notin Disposing
    <3>1. pc[p] = "mark" /\ MarkDisposed(p)
      BY <1>0, <1>3, <2>2 DEF Edge, Disposing, AfterDispose
    <3>2. target'[p] = target[p]
      BY <3>1, TargetStays
    <3> QED BY <3>1, <3>2 DEF MarkDisposed, TypeOK
  <2> QED BY <2>1, <2>2
<1> QED BY <1>1, <1>2, <1>3

-----------------------------------------------------------------------------
(* A login request is served after accept has ended, and leaves the        *)
(* Client with an id and a room of its peer's: with the only one, where    *)
(* the peer keeps to one.                                                  *)
LoggedInAs(n, params) == clientId[n] = params.id /\ groupId[n] = params.room

Begun ==
    /\ \A n \in Clients : ~Serving(n) => clientId[n] = n
    /\ \A n \in Clients, a \in Requests : pc[<<a, n>>] # "idle" =>
         /\ Serving(n) /\ login[n][a] # Nil
         /\ groupId[n] \in RoomsOf(n)
         /\ OneLogin(n) => LoggedInAs(n, login[n][a])

LEMMA ServingStays ==
    ASSUME TypeOK, [Next]_vars, NEW n \in Clients, Serving(n)
    PROVE  Serving(n)'
<1>1. pc'[<<"accept", n>>] = pc[<<"accept", n>>] \/ Edge(<<"accept", n>>, pc'[<<"accept", n>>])
  BY MovesOne, ProcsAre
<1> QED BY <1>1 DEF Serving, Edge

LEMMA BegunKept == TypeOK /\ Begun /\ [Next]_vars => Begun'
<1> SUFFICES ASSUME TypeOK, Begun, [Next]_vars PROVE Begun'
  OBVIOUS
<1>0. /\ login' = login
      /\ \A n : RoomsOf(n)' = RoomsOf(n) /\ (OneLogin(n)' <=> OneLogin(n))
  BY Unchanged DEF login, RoomsOf, OneLogin
<1>1. ASSUME NEW n \in Clients, ~Serving(n)' PROVE clientId'[n] = n
  <2>1. ~Serving(n) /\ clientId[n] = n
    BY <1>1, ServingStays DEF Begun
  <2>2. ASSUME NEW p \in Jobs, Login(p) PROVE clientId'[n] = n
    BY <2>1, <2>2 DEF Login, TypeOK
  <2> QED BY <2>1, <2>2, Unchanged
<1>2. ASSUME NEW n \in Clients, NEW a \in Requests, pc'[<<a, n>>] # "idle"
      PROVE  /\ Serving(n)' /\ login[n][a] # Nil
             /\ groupId'[n] \in RoomsOf(n)
             /\ OneLogin(n) => clientId'[n] = login[n][a].id /\ groupId'[n] = login[n][a].room
  <2> DEFINE p == <<a, n>>
  <2>1. p \in Jobs /\ p \in Procs /\ p[1] = a /\ p[2] = n /\ p[1] \notin {"accept", "read", "loop"}
    BY JobsAre
  <2>2. pc[p] # "idle" \/ Login(p)
    BY <1>2, <2>1, MovesOne DEF Edge
  <2>3. Serving(n)' /\ login[n][a] # Nil
    BY <2>1, <2>2, ServingStays DEF Begun, Login
  <2>4. CASE UNCHANGED <<clientId, groupId>>
    <3>1. CASE pc[p] # "idle"
      BY <2>3, <2>4, <3>1 DEF Begun, LoggedInAs
    <3>2. CASE Login(p)
      <4>1. clientId'[n] = login[n][a].id /\ groupId'[n] = login[n][a].room
        BY <2>1, <3>2 DEF Login, TypeOK
      <4> QED BY <2>3, <4>1 DEF RoomsOf
    <3> QED BY <2>2, <3>1, <3>2
  <2>5. ASSUME NEW q \in Jobs, Login(q)
        PROVE  /\ groupId'[n] \in RoomsOf(n)
               /\ OneLogin(n) => clientId'[n] = login[n][a].id /\ groupId'[n] = login[n][a].room
    <3>1. /\ login[q[2]][q[1]] # Nil /\ q[1] \in Requests /\ q[2] \in Clients
          /\ clientId' = [clientId EXCEPT ![q[2]] = login[q[2]][q[1]].id]
          /\ groupId' = [groupId EXCEPT ![q[2]] = login[q[2]][q[1]].room]
      BY <2>5, JobsAre DEF Login
    <3>2. CASE q[2] = n
      <4>1. clientId'[n] = login[n][q[1]].id /\ groupId'[n] = login[n][q[1]].room
        BY <3>1, <3>2 DEF TypeOK
      <4>2. OneLogin(n) => login[n][q[1]] = login[n][a]
        BY <2>3, <3>1, <3>2 DEF OneLogin
      <4> QED BY <3>1, <3>2, <4>1, <4>2 DEF RoomsOf
    <3>3. CASE q[2] # n
      <4>1. clientId'[n] = clientId[n] /\ groupId'[n] = groupId[n]
        BY <3>1, <3>3 DEF TypeOK
      <4>2. pc[p] # "idle"
        BY <1>2, <2>1, <2>5, <3>3 DEF Login, Goto, TypeOK
      <4> QED BY <4>1, <4>2 DEF Begun, LoggedInAs
    <3> QED BY <3>2, <3>3
  <2> QED BY <2>3, <2>4, <2>5, Unchanged
<1>3. Begun'
  BY <1>0, <1>1, <1>2 DEF Begun, LoggedInAs
<1> QED BY <1>3

-----------------------------------------------------------------------------
(* What has happened once stays so                                         *)
LEMMA RaisedStays ==
    ASSUME TypeOK, [Next]_vars, NEW p \in Jobs, pc[p] \in RaisedOnLogin
    PROVE  pc'[p] \in RaisedOnLogin
<1>1. p \in Procs /\ p[1] \notin {"accept", "read", "loop"}
  BY JobsAre
<1>2. pc'[p] = pc[p] \/ Edge(p, pc'[p])
  BY <1>1, MovesOne
<1> QED BY <1>1, <1>2 DEF Edge, AfterDispose, AfterClose, RaisedOnLogin

LEMMA SharingStays ==
    ASSUME TypeOK, [Next]_vars
    PROVE  /\ login' = login
           /\ \A n, m : SharesId(n, m)' <=> SharesId(n, m)
           /\ \A n : RoomsOf(n)' = RoomsOf(n) /\ OwnIds(n)' = OwnIds(n) /\ (OneLogin(n)' <=> OneLogin(n))
  BY Unchanged DEF login, RoomsOf, OneLogin, SharesId, OwnIds

LEMMA RivalStays ==
    ASSUME TypeOK, [Next]_vars, NEW n \in Clients, Rival(n)
    PROVE  Rival(n)'
<1>1. PICK m \in Clients \ {n} :
        SharesId(n, m) /\ (beDisposed[m] \/ \E a \in Requests : pc[<<a, m>>] \in RaisedOnLogin)
  BY DEF Rival
<1>2. SharesId(n, m)'
  BY <1>1, SharingStays
<1>3. CASE beDisposed[m]
  <2>1. beDisposed'[m]
    BY <1>1, <1>3, DisposedStays
  <2> QED BY <1>1, <1>2, <2>1 DEF Rival
<1>4. ASSUME NEW a \in Requests, pc[<<a, m>>] \in RaisedOnLogin PROVE Rival(n)'
  <2>1. pc'[<<a, m>>] \in RaisedOnLogin
    BY <1>1, <1>4, JobsAre, RaisedStays
  <2> QED BY <1>1, <1>2, <2>1 DEF Rival, RaisedOnLogin
<1> QED BY <1>1, <1>3, <1>4

LEMMA DoomedStays ==
    ASSUME TypeOK, [Next]_vars, NEW n \in Clients, Doomed(n)
    PROVE  Doomed(n)'
<1>1. CASE beDisposed[n]
  BY <1>1, DisposedStays DEF Doomed
<1>2. ASSUME NEW p \in Procs, pc[p] \in {"check", "mark"}, target[p] = n PROVE Doomed(n)'
  <2>1. target'[p] = n
    BY <1>2, TargetStays
  <2>2. pc'[p] = pc[p] \/ Edge(p, pc'[p])
    BY MovesOne
  <2>3. CASE pc'[p] \in {"check", "mark"}
    BY <2>1, <2>3 DEF Doomed
  <2>4. CASE pc'[p] \notin {"check", "mark"}
    <3>1. beDisposed[n] \/ MarkDisposed(p)
      BY <1>2, <2>2, <2>4, JobsAre DEF Edge
    <3>2. beDisposed'[n]
      <4>1. CASE MarkDisposed(p)
        BY <1>2, <4>1 DEF MarkDisposed, TypeOK
      <4> QED BY <3>1, <4>1, DisposedStays
    <3> QED BY <3>2 DEF Doomed
  <2> QED BY <2>3, <2>4
<1> QED BY <1>1, <1>2 DEF Doomed

-----------------------------------------------------------------------------
(* Only goroutines of n itself, a rival, or the dispose of n touch what is *)
(* filed under an id that n's peer has logged in with                      *)
LEMMA OthersAreRivals ==
    ASSUME TypeOK, Roles, Begun, IdsAreOwn, [Next]_vars,
           NEW n \in Clients, NEW id \in Ids, id \in OwnIds(n),
           NEW p \in Procs, pc[p] \in {"takeover", "add", "join"}, pc'[p] # pc[p],
           clientId[p[2]] = id, p[2] # n
    PROVE  Rival(n)'
<1> DEFINE m == p[2]
<1>1. m \in Clients /\ p = <<p[1], m>> /\ p[1] \in {"accept", "read", "loop"} \cup Requests
  BY ProcsAre
<1>2. Serving(m)
  BY <1>1, HubLifecycleAssumption DEF Begun
<1>3. p[1] \in Requests
  BY <1>1, <1>2 DEF Serving, Roles
<1>4. p \in Jobs
  BY <1>1, <1>3, JobsAre
<1>5. pc'[p] \in RaisedOnLogin
  BY <1>4, RaisedStays DEF RaisedOnLogin
<1>6. id \in OwnIds(m)
  BY <1>1 DEF IdsAreOwn
<1>7. SharesId(n, m)
  BY <1>1, <1>6, SameIdShared
<1>8. SharesId(n, m)'
  BY <1>7, SharingStays
<1> QED BY <1>1, <1>3, <1>5, <1>8 DEF Rival, RaisedOnLogin

LEMMA DisposersAreRivals ==
    ASSUME TypeOK, Roles, IdsAreOwn, [Next]_vars,
           NEW n \in Clients, NEW id \in Ids, id \in OwnIds(n),
           NEW p \in Procs, pc[p] \in {"raise", "leave"}, clientId[target[p]] = id
    PROVE  Doomed(n)' \/ Rival(n)'
<1>0. p[1] # "read" /\ beDisposed[target[p]] /\ target[p] \in Clients
  BY DEF TypeOK, Roles, Disposing
<1>1. PICK m \in Clients : m = target[p] /\ beDisposed[m]
  BY <1>0
<1>2. beDisposed'[m]
  BY <1>1, DisposedStays
<1>3. CASE m = n
  BY <1>2, <1>3 DEF Doomed
<1>4. CASE m # n
  <2>1. SharesId(n, m)
    <3>1. id \in OwnIds(m)
      BY <1>1 DEF IdsAreOwn
    <3> QED BY <1>1, <1>4, <3>1, SameIdShared
  <2>2. SharesId(n, m)'
    BY <2>1, SharingStays
  <2> QED BY <1>1, <1>2, <1>4, <2>2 DEF Rival
<1> QED BY <1>3, <1>4

LEMMA EntryStays ==
    ASSUME TypeOK, Roles, Begun, IdsAreOwn, [Next]_vars,
           NEW n \in Clients, NEW id \in Ids, id \in OwnIds(n), clients[id] = n
    PROVE  clients'[id] = n \/ Rival(n)' \/ Doomed(n)'
<1> SUFFICES ASSUME clients'[id] # n PROVE Rival(n)' \/ Doomed(n)'
  OBVIOUS
<1>0. PICK p \in Procs : Takeover(p) \/ AddClient(p) \/ RaiseDispose(p)
  BY ClientsChange
<1>1. CASE Takeover(p)
  <2>1. clientId[p[2]] = id
    BY <1>1 DEF Takeover, OwnEntry, TypeOK
  <2>2. pc[p] = "takeover" /\ pc'[p] \in {"add", "check"}
    BY <1>1 DEF Takeover, Goto, TypeOK
  <2>3. CASE p[2] = n
    <3>1. pc'[p] = "check" /\ target'[p] = n
      BY <1>1, <2>1, <2>3, HubLifecycleAssumption DEF Takeover, OwnEntry, Goto, TypeOK
    <3> QED BY <3>1 DEF Doomed
  <2>4. CASE p[2] # n
    BY <2>1, <2>2, <2>4, OthersAreRivals
  <2> QED BY <2>3, <2>4
<1>2. CASE AddClient(p)
  <2>1. clientId[p[2]] = id /\ p[2] # n
    BY <1>2 DEF AddClient, TypeOK
  <2>2. pc[p] = "add" /\ pc'[p] = "join"
    BY <1>2 DEF AddClient, Goto, TypeOK
  <2> QED BY <2>1, <2>2, OthersAreRivals
<1>3. CASE RaiseDispose(p)
  <2>1. clientId[target[p]] = id /\ pc[p] = "raise"
    <3>1. clients' = [clients EXCEPT ![clientId[target[p]]] = Nil]
      BY <1>3 DEF RaiseDispose, RemovedKey
    <3> QED BY <1>3, <3>1 DEF RaiseDispose, TypeOK
  <2> QED BY <2>1, DisposersAreRivals
<1> QED BY <1>0, <1>1, <1>2, <1>3

LEMMA MemberStays ==
    ASSUME TypeOK, Roles, Begun, IdsAreOwn, [Next]_vars,
           NEW n \in Clients, NEW id \in Ids, id \in OwnIds(n), NEW g \in Groups, members[g][id] = n
    PROVE  members'[g][id] = n \/ Rival(n)' \/ Doomed(n)'
<1> SUFFICES ASSUME members'[g][id] # n PROVE Rival(n)' \/ Doomed(n)'
  OBVIOUS
<1>0. PICK p \in Procs : JoinGroup(p) \/ LeaveGroup(p)
  BY MembersChange
<1>1. CASE JoinGroup(p)
  <2>1. clientId[p[2]] = id /\ p[2] # n
    BY <1>1 DEF JoinGroup, GroupOf, TypeOK, Keys
  <2>2. pc[p] = "join" /\ pc'[p] = "listen"
    BY <1>1 DEF JoinGroup, Goto, TypeOK
  <2> QED BY <2>1, <2>2, OthersAreRivals
<1>2. CASE LeaveGroup(p)
  <2>1. clientId[target[p]] = id /\ pc[p] = "leave"
    BY <1>2 DEF LeaveGroup, RemovedKey, TypeOK, Keys
  <2> QED BY <2>1, DisposersAreRivals
<1> QED BY <1>0, <1>1, <1>2

-----------------------------------------------------------------------------
(* Where a login's steps have put its Client *)
Placed ==
    \A n \in Clients, a \in Requests : OneLogin(n) /\ ~Doomed(n) /\ ~Rival(n) =>
      /\ pc[<<a, n>>] \in {"join", "listen", "end"} => clients[login[n][a].id] = n
      /\ pc[<<a, n>>] \in {"listen", "end"} => members[login[n][a].room][login[n][a].id] = n

LEMMA PlacedKept == TypeOK /\ Roles /\ Begun /\ IdsAreOwn /\ Placed /\ [Next]_vars => Placed'
<1> SUFFICES ASSUME TypeOK, Roles, Begun, IdsAreOwn, Placed, [Next]_vars PROVE Placed'
  OBVIOUS
<1> SUFFICES ASSUME NEW n \in Clients, NEW a \in Requests, OneLogin(n), ~Doomed(n)', ~Rival(n)'
             PROVE  /\ pc'[<<a, n>>] \in {"join", "listen", "end"} => clients'[login[n][a].id] = n
                    /\ pc'[<<a, n>>] \in {"listen", "end"} =>
                         members'[login[n][a].room][login[n][a].id] = n
  BY SharingStays DEF Placed
<1> DEFINE p == <<a, n>>
<1>1. p \in Jobs /\ p \in Procs /\ p[1] = a /\ p[2] = n /\ p[1] \notin {"accept", "read", "loop"}
  BY JobsAre
<1>2. ~Doomed(n) /\ ~Rival(n)
  BY DoomedStays, RivalStays
<1>3. pc'[p] = pc[p] \/ Edge(p, pc'[p])
  BY <1>1, MovesOne
<1>4. ASSUME pc[p] # "idle"
      PROVE  /\ login[n][a].id \in Ids /\ login[n][a].id \in OwnIds(n) /\ login[n][a].room \in Groups
             /\ clientId[n] = login[n][a].id /\ groupId[n] = login[n][a].room
  BY <1>4, LoginsAre DEF Begun, LoggedInAs, OwnIds
<1>5. ASSUME pc'[p] \in {"join", "listen", "end"} PROVE clients'[login[n][a].id] = n
  <2>1. pc[p] \in {"join", "listen", "end"} \/ (pc[p] = "add" /\ AddClient(p))
    BY <1>1, <1>3, <1>5 DEF Edge, AfterDispose, AfterClose
  <2>2. CASE pc[p] \in {"join", "listen", "end"}
    <3>1. clients[login[n][a].id] = n
      BY <1>2, <2>2 DEF Placed
    <3> QED BY <1>4, <2>2, <3>1, EntryStays
  <2>3. CASE pc[p] = "add" /\ AddClient(p)
    BY <1>1, <1>4, <2>3 DEF AddClient, TypeOK
  <2> QED BY <2>1, <2>2, <2>3
<1>6. ASSUME pc'[p] \in {"listen", "end"} PROVE members'[login[n][a].room][login[n][a].id] = n
  <2>1. pc[p] \in {"listen", "end"} \/ (pc[p] = "join" /\ JoinGroup(p))
    BY <1>1, <1>3, <1>6 DEF Edge, AfterDispose, AfterClose
  <2>2. CASE pc[p] \in {"listen", "end"}
    <3>1. members[login[n][a].room][login[n][a].id] = n
      BY <1>2, <2>2 DEF Placed
    <3> QED BY <1>4, <2>2, <3>1, MemberStays
  <2>3. CASE pc[p] = "join" /\ JoinGroup(p)
    BY <1>1, <1>4, <2>3 DEF JoinGroup, GroupOf, TypeOK, Keys
  <2> QED BY <2>1, <2>2, <2>3
<1> QED BY <1>5, <1>6

LEMMA PlacedStart == Init => Roles /\ Begun /\ Placed
<1> SUFFICES ASSUME Init PROVE Roles /\ Begun /\ Placed
  OBVIOUS
<1>1. Roles
  BY DEF Init, Roles, Disposing
<1>2. \A n \in Clients, a \in Requests : pc[<<a, n>>] = "idle"
  BY JobsAre DEF Init
<1>3. Begun
  BY <1>2 DEF Init, Begun
<1>4. Placed
  BY <1>2 DEF Placed
<1> QED BY <1>1, <1>3, <1>4

LEMMA PlacedEnough == Placed => OnlySameIdDisplaces
  BY JobsAre DEF Placed, OnlySameIdDisplaces, InRoom

(* However often its peer logs in with its one id and room, a Client that  *)
(* has come to the end of onClientLogin, and that nobody disposes, is in   *)
(* the hub and in that room (hub.go:245-267), unless another connection    *)
(* that shares the id has raised OnLogin or was disposed (hub.go:246, 259).*)
THEOREM PlacedWhereItLoggedIn == Spec => []OnlySameIdDisplaces
<1>1. Init => TypeOK /\ Roles /\ Begun /\ IdsAreOwn /\ Placed
  BY TypesStart, IdsStart, PlacedStart
<1>2. TypeOK /\ Roles /\ Begun /\ IdsAreOwn /\ Placed /\ [Next]_vars
        => (TypeOK /\ Roles /\ Begun /\ IdsAreOwn /\ Placed)'
  BY TypesKept, RolesKept, BegunKept, IdsKept, PlacedKept
<1> QED BY <1>1, <1>2, PlacedEnough, PTL DEF Spec

-----------------------------------------------------------------------------
(* Where a Client's publications go once a login of its peer's has put it  *)
(* into a group                                                            *)
Grouped ==
    \A n \in Clients, a \in Requests :
      /\ pc[<<a, n>>] \in RaisedOnLogin => state[n] # "EXCHANGED_SECRET"
      /\ pc[<<a, n>>] \in {"listen", "end"} => group[n] \in RoomsOf(n)

LEMMA StateChange ==
    ASSUME TypeOK, [Next]_vars, NEW n \in Clients, state'[n] = "EXCHANGED_SECRET"
    PROVE  state[n] = "EXCHANGED_SECRET" \/ ~Serving(n)
<1>1. ASSUME NEW m \in Clients, Accept(m) PROVE state[n] = "EXCHANGED_SECRET" \/ ~Serving(n)
  BY <1>1 DEF Accept, Serving, TypeOK
<1>2. ASSUME NEW p \in Jobs, LoginDone(p) PROVE state[n] = "EXCHANGED_SECRET"
  BY <1>2, JobsAre DEF LoginDone, TypeOK
<1>3. ASSUME NEW p \in Procs, Disconnected(p) PROVE state[n] = "EXCHANGED_SECRET"
  BY <1>3 DEF Disconnected, TypeOK
<1>4. \/ \E m \in Clients : Accept(m)
      \/ \E p \in Jobs : LoginDone(p)
      \/ \E p \in Procs : Disconnected(p)
      \/ UNCHANGED state
  BY DEF OnClientLogin, Dispose, idVars, vars,
     Next, Login, LoginReplied, LoginTimeout, ReadEnds, LoopReturns, HeartbeatTimeout,
     ActorClears, ActorExits, Publish, OnReceivePublish, Takeover, AddClient, JoinGroup, Listen,
     CheckDisposed, MarkDisposed, ClearSubTopics, SendClear, CloseConn, DisconnectClears,
     RaiseDispose, LeaveGroup
<1> QED BY <1>1, <1>2, <1>3, <1>4

LEMMA GroupedKept == TypeOK /\ Roles /\ Begun /\ Grouped /\ [Next]_vars => Grouped'
<1> SUFFICES ASSUME TypeOK, Roles, Begun, Grouped, [Next]_vars, NEW n \in Clients, NEW a \in Requests
             PROVE  /\ pc'[<<a, n>>] \in RaisedOnLogin => state'[n] # "EXCHANGED_SECRET"
                    /\ pc'[<<a, n>>] \in {"listen", "end"} => group'[n] \in RoomsOf(n)
  BY SharingStays DEF Grouped, RaisedOnLogin
<1> DEFINE p == <<a, n>>
<1>1. p \in Jobs /\ p \in Procs /\ p[1] = a /\ p[2] = n /\ p[1] \notin {"accept", "read", "loop"}
  BY JobsAre
<1>2. pc'[p] = pc[p] \/ Edge(p, pc'[p])
  BY <1>1, MovesOne
<1>3. ASSUME pc'[p] \in RaisedOnLogin PROVE state'[n] # "EXCHANGED_SECRET"
  <2>1. CASE pc[p] \in RaisedOnLogin
    <3>1. state[n] # "EXCHANGED_SECRET" /\ Serving(n)
      BY <2>1 DEF Grouped, Begun, RaisedOnLogin
    <3> QED BY <3>1, StateChange
  <2>2. CASE pc[p] \notin RaisedOnLogin
    <3>1. LoginDone(p)
      BY <1>1, <1>2, <1>3, <2>2 DEF Edge, RaisedOnLogin, AfterDispose, AfterClose
    <3> QED BY <1>1, <3>1 DEF LoginDone, TypeOK
  <2> QED BY <2>1, <2>2
<1>4. ASSUME pc'[p] \in {"listen", "end"} PROVE group'[n] \in RoomsOf(n)
  <2>1. pc[p] \in {"listen", "end"} \/ (pc[p] = "join" /\ JoinGroup(p))
    BY <1>1, <1>2, <1>4 DEF Edge, AfterDispose, AfterClose
  <2>2. pc[p] # "idle" /\ Serving(n) /\ groupId[n] \in RoomsOf(n)
    BY <2>1 DEF Begun
  <2>3. ASSUME NEW q \in Procs, JoinGroup(q), q[2] = n PROVE group'[n] \in RoomsOf(n)
    BY <2>2, <2>3 DEF JoinGroup, GroupOf, TypeOK
  <2>4. CASE pc[p] \in {"listen", "end"}
    <3>1. group[n] \in RoomsOf(n)
      BY <2>4 DEF Grouped
    <3>2. ASSUME NEW q \in Procs, JoinGroup(q), q[2] # n PROVE group'[n] = group[n]
      BY <3>2 DEF JoinGroup, TypeOK
    <3> QED BY <2>3, <3>1, <3>2, Unchanged
  <2>5. CASE JoinGroup(p)
    BY <1>1, <2>3, <2>5
  <2> QED BY <2>1, <2>4, <2>5
<1> QED BY <1>3, <1>4

LEMMA GroupedStart == Init => Grouped
<1> SUFFICES ASSUME Init PROVE Grouped
  OBVIOUS
<1>1. \A n \in Clients, a \in Requests : pc[<<a, n>>] = "idle"
  BY JobsAre DEF Init
<1> QED BY <1>1 DEF Grouped, RaisedOnLogin

LEMMA PublishesRight ==
    ASSUME TypeOK, Grouped, [Next]_vars
    PROVE  [\A n \in Clients : published'[n] # published[n] /\ InGroup(n) =>
              published'[n] \in {"queued"} \cup RoomsOf(n)]_vars
<1> SUFFICES ASSUME NEW n \in Clients, published'[n] # published[n], InGroup(n)
             PROVE  published'[n] \in {"queued"} \cup RoomsOf(n)
  OBVIOUS
<1>1. PICK a \in Requests : pc[<<a, n>>] \in {"listen", "end"}
  BY DEF InGroup
<1>2. state[n] # "EXCHANGED_SECRET" /\ group[n] \in RoomsOf(n)
  BY <1>1 DEF Grouped, RaisedOnLogin
<1>3. group[n] # Nil
  BY <1>2, LoginsAre, HubLifecycleAssumption DEF RoomsOf, Groups
<1>4. \E m \in Clients : Publish(m) \/ OnReceivePublish(m)
  BY DEF OnClientLogin, Dispose, idVars, vars,
     Next, Accept, Login, LoginReplied, LoginDone, LoginTimeout, ReadEnds, LoopReturns, HeartbeatTimeout,
     ActorClears, ActorExits, Takeover, AddClient, JoinGroup, Listen,
     CheckDisposed, MarkDisposed, ClearSubTopics, SendClear, CloseConn, DisconnectClears, Disconnected,
     RaiseDispose, LeaveGroup
<1>5. PICK m \in Clients : Publish(m) \/ OnReceivePublish(m)
  BY <1>4
<1>6. CASE Publish(m)
  BY <1>2, <1>6 DEF Publish, TypeOK
<1>7. CASE OnReceivePublish(m)
  BY <1>2, <1>3, <1>7 DEF OnReceivePublish, TypeOK
<1> QED BY <1>5, <1>6, <1>7

(* From the step on that puts the Client into its group, no publication of *)
(* its peer's is dropped for want of a login or kept from the group, which *)
(* is one its peer has logged in to (client.go:361-367, hub.go:251-257).   *)
(* Between the response to the login and that step it may be either.       *)
THEOREM PublishedInItsRoom == Spec => PublishGoesToRoom
<1>1. Init => TypeOK /\ Roles /\ Begun /\ Grouped
  BY TypesStart, PlacedStart, GroupedStart
<1>2. TypeOK /\ Roles /\ Begun /\ Grouped /\ [Next]_vars => (TypeOK /\ Roles /\ Begun /\ Grouped)'
  BY TypesKept, RolesKept, BegunKept, GroupedKept
<1>3. TypeOK /\ Roles /\ Begun /\ Grouped /\ [Next]_vars =>
        [\A n \in Clients : published'[n] # published[n] /\ InGroup(n) =>
           published'[n] \in {"queued"} \cup RoomsOf(n)]_vars
  BY PublishesRight
<1> QED BY <1>1, <1>2, <1>3, PTL DEF Spec, PublishGoesToRoom
=============================================================================
