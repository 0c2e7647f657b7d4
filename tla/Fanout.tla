------------------------------- MODULE Fanout -------------------------------
(***************************************************************************)
(* Publications on the hub: the run loop of a publisher's Client hands     *)
(* each one to the world, to the members of the world, to its room and to  *)
(* the members of its room, one blocking send after the other              *)
(* (client.go:356-403, group.go:42-75), while members join and are         *)
(* disposed.  Each of them has a PubSub of its own.                        *)
(***************************************************************************)
EXTENDS PubSubActor

CONSTANTS
    Clients,
    Rooms,
    World,          \* the hub's own Group, parent of the rooms
    RoomOf,         \* RoomOf[n]: the room of n, or World
    Subject,        \* the topic that is published, Filter the filter that is subscribed
    Filter,
    MaxPubs,        \* bound: publications of all the clients
    Publishing,     \* bounds: the Clients that publish, subscribe, unsubscribe,
    Subscribing,    \* lose their connection, are disposed
    Unsubscribing,
    MayLose,
    MayDispose,
    Nil

Groups == Rooms \cup {World}

ASSUME FanoutAssumption ==
    /\ Centers = Clients \cup Groups
    /\ RoomOf \in [Clients -> Groups]
    /\ World \notin Rooms /\ Clients \cap Groups = {} /\ Nil \notin Centers
    /\ MaxPubs \in Nat

VARIABLES
    group,      \* Client.Group, or Nil before the login
    members,    \* Group.clients
    at,         \* where the Client's run loop is in Group.PubTopic
    route,      \* the groups it has still to serve
    due,        \* the members when its Range began
    visited,    \* the members this Range has called back
    to,         \* the member it is sending to
    pubs,       \* number of its publications
    handed,     \* history: the publications each PubSub accepted, in order
    closed,     \* its connection is closed
    disposing,  \* where Dispose is
    panicked    \* the hub has panicked

loopVars == <<at, route, due, visited, to, pubs>>
lifeVars == <<closed, disposing>>
hubVars  == <<group, members>>
vars == <<actorVars, loopVars, lifeVars, hubVars, handed, panicked>>

Topic == {<<Subject>>} \cup {<<n, Subject>> : n \in Clients}
         \cup {<<r, n, Subject>> : r \in Rooms, n \in Clients}
Publications == [topic : Topic, from : Clients, k : Nat]

TypeOK ==
    /\ listeners \in [Centers -> {<<>>, <<Filter>>}]
    /\ subCh \in [Centers -> Seq({Filter})] /\ \A c \in Centers : Len(subCh[c]) <= SubSize
    /\ unsubCh = [c \in Centers |-> <<>>]
    /\ pubCh \in [Centers -> Seq(Publications)] /\ \A c \in Centers : Len(pubCh[c]) <= PubSize
    /\ group \in [Clients -> Groups \cup {Nil}]
    /\ members \in [Groups -> SUBSET Clients]
    /\ at \in [Clients -> {"idle", "self", "center", "range", "member"}]
    /\ route \in [Clients -> Seq(Groups)]
    /\ due \in [Clients -> SUBSET Clients] /\ visited \in [Clients -> SUBSET Clients]
    /\ to \in [Clients -> Clients]
    /\ pubs \in [Clients -> Nat]
    /\ handed \in [Centers -> Seq(Publications)]
    /\ closed \in [Clients -> BOOLEAN]
    /\ disposing \in [Clients -> {"no", "clear", "close", "leave", "end"}]
    /\ panicked \in BOOLEAN

Init ==
    /\ ActorInit
    /\ group = [n \in Clients |-> Nil]
    /\ members = [g \in Groups |-> {}]
    /\ at = [n \in Clients |-> "idle"]
    /\ route = [n \in Clients |-> <<>>]
    /\ due = [n \in Clients |-> {}]
    /\ visited = [n \in Clients |-> {}]
    /\ to = [n \in Clients |-> n]
    /\ pubs = [n \in Clients |-> 0]
    /\ handed = [c \in Centers |-> <<>>]
    /\ closed = [n \in Clients |-> FALSE]
    /\ disposing = [n \in Clients |-> "no"]
    /\ panicked = FALSE

-----------------------------------------------------------------------------
(* Group.AddClient and RemoveClient *)

Join(n) ==
    /\ group[n] = Nil
    /\ members' = [members EXCEPT ![RoomOf[n]] = @ \cup {n}]
    /\ group' = [group EXCEPT ![n] = RoomOf[n]]
    /\ UNCHANGED <<actorVars, loopVars, lifeVars, handed, panicked>>

-----------------------------------------------------------------------------
(* The run loop of n handles a packet, one of rxQueue even after its ctx   *)
(* has ended: the select takes either (client.go:143-147).                 *)

RunLoop(n) == at[n] = "idle"

(* mutant: the room's packet is renamed in place before the room gets it *)
RenamedInPlace(n, g) == <<RoomOf[n], n, Subject>>

(* What n's topic is called in g *)
NameIn(n, g) == IF g = group[n] THEN <<n, Subject>> ELSE <<group[n], n, Subject>>

ParentFirst(g) == IF g = World THEN <<World>> ELSE <<World, g>>

OnReceivePublish(n) ==
    /\ RunLoop(n) /\ n \in Publishing /\ FoldFunction(+, 0, pubs) < MaxPubs
    /\ pubs' = [pubs EXCEPT ![n] = @ + 1]
    /\ IF group[n] = Nil
       THEN at' = [at EXCEPT ![n] = "self"] /\ UNCHANGED route
       ELSE /\ at' = [at EXCEPT ![n] = "center"]
            /\ route' = [route EXCEPT ![n] = ParentFirst(group[n])]
    /\ UNCHANGED <<actorVars, due, visited, to, lifeVars, hubVars, handed, panicked>>

Hand(n, c, topic) == LET p == [topic |-> topic, from |-> n, k |-> pubs[n]] IN
    /\ PubTopic(c, p)
    /\ handed' = [handed EXCEPT ![c] = Append(@, p)]

(* There is no Group yet: the Client's own PubSub gets the packet as it is *)
PubToSelf(n) ==
    /\ at[n] = "self"
    /\ Hand(n, n, <<Subject>>)
    /\ at' = [at EXCEPT ![n] = "idle"]
    /\ UNCHANGED <<route, due, visited, to, pubs, lifeVars, hubVars, panicked>>

PubToCenter(n) == LET g == Head(route[n]) IN
    /\ at[n] = "center"
    /\ Hand(n, g, NameIn(n, g))
    /\ at' = [at EXCEPT ![n] = "range"]
    /\ due' = [due EXCEPT ![n] = members[g]]
    /\ visited' = [visited EXCEPT ![n] = {}]
    /\ UNCHANGED <<route, to, pubs, lifeVars, hubVars, panicked>>

(* mutant: an entry may be called back again *)
AnyMember(n) == members[Head(route[n])]

Unvisited(n) == members[Head(route[n])] \ visited[n]

(* sync.Map.Range calls back each entry once, and every entry that is      *)
(* there from its beginning to its end.                                    *)
RangeVisits(n, m) ==
    /\ at[n] = "range"
    /\ m \in Unvisited(n)
    /\ at' = [at EXCEPT ![n] = "member"]
    /\ to' = [to EXCEPT ![n] = m]
    /\ visited' = [visited EXCEPT ![n] = @ \cup {m}]
    /\ UNCHANGED <<actorVars, route, due, pubs, lifeVars, hubVars, handed, panicked>>

PubToMember(n) ==
    /\ at[n] = "member"
    /\ Hand(n, to[n], NameIn(n, Head(route[n])))
    /\ at' = [at EXCEPT ![n] = "range"]
    /\ UNCHANGED <<route, due, visited, to, pubs, lifeVars, hubVars, panicked>>

RangeDone(n) == due[n] \cap members[Head(route[n])] \subseteq visited[n]

RangeEnds(n) ==
    /\ at[n] = "range" /\ RangeDone(n)
    /\ route' = [route EXCEPT ![n] = Tail(@)]
    /\ at' = [at EXCEPT ![n] = IF Len(route[n]) = 1 THEN "idle" ELSE "center"]
    /\ UNCHANGED <<actorVars, due, visited, to, pubs, lifeVars, hubVars, handed, panicked>>

OnReceiveSubscribe(n) ==
    /\ RunLoop(n) /\ n \in Subscribing
    /\ ~closed[n] /\ subCh[n] = <<>> /\ listeners[n] = <<>>
    /\ SubTopic(n, Filter)
    /\ UNCHANGED <<loopVars, lifeVars, hubVars, handed, panicked>>

(* UNSUBSCRIBE_PACKET is given to onReceiveSubscribe (client.go:121) *)
OnReceiveUnsubscribe(n) ==
    /\ RunLoop(n) /\ n \in Unsubscribing
    /\ panicked' = TRUE
    /\ UNCHANGED <<actorVars, loopVars, lifeVars, hubVars, handed>>

-----------------------------------------------------------------------------
(* The end of n's connection, and Dispose *)

(* conn.Close: OnDisconnect clears the subscriptions *)
Close(n) ==
    /\ ClearAllSubTopics(n)
    /\ closed' = [closed EXCEPT ![n] = TRUE]

ConnectionLost(n) ==
    /\ n \in MayLose /\ ~closed[n]
    /\ Close(n)
    /\ UNCHANGED <<loopVars, disposing, hubVars, handed, panicked>>

Cancel(n) ==
    /\ n \in MayDispose /\ disposing[n] = "no"
    /\ disposing' = [disposing EXCEPT ![n] = "clear"]
    /\ CancelContext(n)
    /\ UNCHANGED <<loopVars, closed, hubVars, handed, panicked>>

DisposeClears(n) ==
    /\ disposing[n] = "clear"
    /\ disposing' = [disposing EXCEPT ![n] = "close"]
    /\ ClearAllSubTopics(n)
    /\ UNCHANGED <<loopVars, closed, hubVars, handed, panicked>>

DisposeCloses(n) ==
    /\ disposing[n] = "close"
    /\ disposing' = [disposing EXCEPT ![n] = "leave"]
    /\ IF closed[n] THEN UNCHANGED <<actorVars, closed>> ELSE Close(n)
    /\ UNCHANGED <<loopVars, hubVars, handed, panicked>>

(* The OnDispose listener of onClientLogin, if the login has added it *)
Leave(n) ==
    /\ disposing[n] = "leave"
    /\ disposing' = [disposing EXCEPT ![n] = "end"]
    /\ members' = IF group[n] = Nil THEN members ELSE [members EXCEPT ![group[n]] = @ \ {n}]
    /\ UNCHANGED <<actorVars, loopVars, closed, group, handed, panicked>>

Dispose(n) == DisposeClears(n) \/ DisposeCloses(n) \/ Leave(n)

-----------------------------------------------------------------------------
Actor(c) == Select(c) /\ UNCHANGED <<loopVars, lifeVars, hubVars, handed, panicked>>

Publish(n) ==
    \/ PubToSelf(n) \/ PubToCenter(n) \/ PubToMember(n) \/ RangeEnds(n)
    \/ \E m \in Clients : RangeVisits(n, m)

Next ==
    /\ ~panicked
    /\ \/ \E n \in Clients :
            \/ Join(n) \/ OnReceivePublish(n) \/ Publish(n)
            \/ OnReceiveSubscribe(n) \/ OnReceiveUnsubscribe(n)
            \/ ConnectionLost(n) \/ Cancel(n) \/ Dispose(n)
       \/ \E c \in Centers : Actor(c)

Spec == Init /\ [][Next]_vars

(* A goroutine that can go on goes on *)
Fairness ==
    /\ \A n \in Clients : WF_vars(Publish(n)) /\ WF_vars(Dispose(n))
    /\ \A c \in Centers : WF_vars(Actor(c))

FairSpec == Spec /\ Fairness

-----------------------------------------------------------------------------
(* Who is in g, or g itself *)
In(c, g) == c = g \/ (c \in Clients /\ RoomOf[c] = g)

(* "the server publishes in the client's room as ${ClientID}/${xx} and in  *)
(* the world as ${RoomId}/${ClientID}/${xx}" (ReadMe.md:34): nobody gets a *)
(* publication of another room, or one under the name it has elsewhere.    *)
(* A Client without a group is alone (client.go:366).                      *)
NamedAsDocumented ==
    \A c \in Centers : \A i \in DOMAIN handed[c] :
      LET p == handed[c][i] room == RoomOf[p.from] IN
        \/ In(c, room) /\ p.topic = <<p.from, Subject>>
        \/ In(c, World) /\ room # World /\ p.topic = <<room, p.from, Subject>>
        \/ c = p.from /\ p.topic = <<Subject>>

(* Nobody gets a publication twice, and everybody gets the publications of *)
(* one client in their order (group.go:42-56).                             *)
HandedInOrder ==
    \A c \in Centers : \A i, j \in DOMAIN handed[c] :
      i < j /\ handed[c][i].from = handed[c][j].from => handed[c][i].k < handed[c][j].k

(* Every publication that is received is published everywhere it belongs,  *)
(* and the run loop goes back to its work (ReadMe.md:34, group.go:42-56),  *)
(* while members join, lose their connection and are disposed: unless it   *)
(* has come to a disposed member, or is of a disposed Client itself, whose *)
(* pubCh is full, where it stays for ever.                                 *)
Serving(n) == CASE at[n] = "self"   -> n
                [] at[n] = "center" -> Head(route[n])
                [] at[n] = "member" -> to[n]
                [] OTHER            -> Nil

StuckForGood(n) ==
    /\ Serving(n) # Nil
    /\ LET c == Serving(n) IN ctxDone[c] /\ exited[c] /\ ~HasRoom(pubCh[c], PubSize)

FanoutEnds ==
    \A n \in Clients : at[n] # "idle" ~> at[n] = "idle" \/ StuckForGood(n) \/ panicked

(* onReceiveSubscribe asserts that it is given a SubscribePacket           *)
(* (client.go:371), and a failed assertion panics.                         *)
NoPanic == ~panicked
=============================================================================
