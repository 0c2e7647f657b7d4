---------------------------- MODULE Fanout_proofs ----------------------------
(***************************************************************************)
(* NamedAsDocumented and HandedInOrder for any number of clients, rooms    *)
(* and publications and channels of any capacity, whoever joins, loses its *)
(* connection or is disposed in the middle of a round.                     *)
(***************************************************************************)
EXTENDS Fanout, TLAPS

-----------------------------------------------------------------------------
LEMMA TakenTyped ==
    ASSUME NEW S, NEW q \in Seq(S), q # <<>>
    PROVE  Head(q) \in S /\ Tail(q) \in Seq(S) /\ Len(q) \in Nat /\ Len(Tail(q)) = Len(q) - 1
OBVIOUS

LEMMA PutTyped ==
    ASSUME NEW S, NEW q \in Seq(S), NEW e \in S
    PROVE  /\ Append(q, e) \in Seq(S) /\ Len(q) \in Nat /\ Len(Append(q, e)) = Len(q) + 1
           /\ DOMAIN q = 1..Len(q) /\ DOMAIN Append(q, e) = 1..(Len(q) + 1)
           /\ \A i \in 1..Len(q) : Append(q, e)[i] = q[i]
           /\ Append(q, e)[Len(q) + 1] = e
OBVIOUS

LEMMA NameTyped ==
    ASSUME NEW n \in Clients, NEW g \in Groups, group[n] \in Groups,
           g = group[n] \/ group[n] # World
    PROVE  NameIn(n, g) \in Topic
BY DEF NameIn, Topic, Groups

-----------------------------------------------------------------------------
(* A round goes through the world and the room, or through one of them,    *)
(* and calls members of the group at its head; a Client is a member of no  *)
(* other group than its own.                                               *)
Rounds(n) == {<<RoomOf[n]>>, <<World, RoomOf[n]>>}

OnItsRound ==
    \A n \in Clients :
        /\ group[n] \in {Nil, RoomOf[n]}
        /\ at[n] \in {"center", "range", "member"} =>
             /\ group[n] = RoomOf[n]
             /\ route[n] \in Rounds(n)
             /\ RoomOf[n] = World => route[n] = <<World>>
        /\ at[n] = "member" => RoomOf[to[n]] = Head(route[n]) /\ to[n] \in visited[n]

MembersAtHome == \A g \in Groups : \A m \in members[g] : RoomOf[m] = g

(* Whom n's current publication has still to reach, and who therefore does *)
(* not have it yet.                                                        *)
HomeOf(c) == IF c \in Clients THEN RoomOf[c] ELSE c

ToServe(n) == {route[n][i] : i \in 1..Len(route[n])}

Unserved(n, c) ==
    \/ at[n] = "self"
    \/ at[n] = "center" /\ HomeOf(c) \in ToServe(n)
    \/ /\ at[n] \in {"range", "member"} /\ HomeOf(c) \in ToServe(n)
       /\ c # Head(route[n])
       /\ HomeOf(c) = Head(route[n]) => c \notin visited[n] \/ (at[n] = "member" /\ c = to[n])

Numbered ==
    \A n \in Clients, c \in Centers : \A i \in 1..Len(handed[c]) :
        handed[c][i].from = n =>
          handed[c][i].k <= pubs[n] /\ (Unserved(n, c) => handed[c][i].k < pubs[n])

RoundInv ==
    /\ TypeOK /\ OnItsRound /\ MembersAtHome
    /\ Numbered /\ NamedAsDocumented /\ HandedInOrder

-----------------------------------------------------------------------------
LEMMA InitRound == Init => RoundInv
<1> SUFFICES ASSUME Init PROVE RoundInv
  OBVIOUS
<1>1. TypeOK
  <2>1. \A S : <<>> \in Seq(S)
    OBVIOUS
  <2>2. /\ listeners \in [Centers -> {<<>>, <<Filter>>}] /\ unsubCh = [c \in Centers |-> <<>>]
        /\ subCh \in [Centers -> Seq({Filter})] /\ \A c \in Centers : Len(subCh[c]) <= SubSize
        /\ pubCh \in [Centers -> Seq(Publications)] /\ \A c \in Centers : Len(pubCh[c]) <= PubSize
    BY <2>1, PubSubActorAssumption DEF Init, ActorInit
  <2>3. /\ route \in [Clients -> Seq(Groups)]
        /\ handed \in [Centers -> Seq(Publications)]
    BY <2>1 DEF Init
  <2>4. /\ group \in [Clients -> Groups \cup {Nil}]
        /\ members \in [Groups -> SUBSET Clients]
        /\ at \in [Clients -> {"idle", "self", "center", "range", "member"}]
        /\ due \in [Clients -> SUBSET Clients] /\ visited \in [Clients -> SUBSET Clients]
        /\ to \in [Clients -> Clients]
        /\ pubs \in [Clients -> Nat]
        /\ closed \in [Clients -> BOOLEAN]
        /\ disposing \in [Clients -> {"no", "clear", "close", "leave", "end"}]
        /\ panicked \in BOOLEAN
    BY DEF Init
  <2> QED BY <2>2, <2>3, <2>4 DEF TypeOK
<1>2. OnItsRound /\ MembersAtHome
  BY DEF Init, OnItsRound, MembersAtHome
<1>3. \A c \in Centers : handed[c] = <<>>
  BY DEF Init
<1>4. Numbered
  BY <1>3 DEF Numbered
<1>5. NamedAsDocumented /\ HandedInOrder
  BY <1>3 DEF NamedAsDocumented, HandedInOrder
<1> QED BY <1>1, <1>2, <1>4, <1>5 DEF RoundInv

-----------------------------------------------------------------------------
(* TypeOK, action by action.  The calls of the actor first.                *)
ActorTyped ==
    /\ listeners \in [Centers -> {<<>>, <<Filter>>}]
    /\ subCh \in [Centers -> Seq({Filter})] /\ \A c \in Centers : Len(subCh[c]) <= SubSize
    /\ unsubCh = [c \in Centers |-> <<>>]
    /\ pubCh \in [Centers -> Seq(Publications)] /\ \A c \in Centers : Len(pubCh[c]) <= PubSize

LEMMA SubTopicTyped ==
    ASSUME ActorTyped, NEW c \in Centers, SubTopic(c, Filter)
    PROVE  ActorTyped'
<1>1. /\ subCh[c] \in Seq({Filter}) /\ Len(subCh[c]) < SubSize /\ SubSize \in Nat
      /\ subCh' = [subCh EXCEPT ![c] = Append(subCh[c], Filter)]
  BY PubSubActorAssumption DEF ActorTyped, SubTopic, HasRoom
<1>2. /\ Append(subCh[c], Filter) \in Seq({Filter}) /\ Len(subCh[c]) \in Nat
      /\ Len(Append(subCh[c], Filter)) = Len(subCh[c]) + 1
  BY <1>1, PutTyped
<1>3. subCh' \in [Centers -> Seq({Filter})] /\ \A d \in Centers : Len(subCh'[d]) <= SubSize
  BY <1>1, <1>2 DEF ActorTyped
<1> QED BY <1>3 DEF ActorTyped, SubTopic

LEMMA PubTopicTyped ==
    ASSUME ActorTyped, NEW c \in Centers, NEW p \in Publications, PubTopic(c, p)
    PROVE  ActorTyped'
<1>1. /\ pubCh[c] \in Seq(Publications) /\ Len(pubCh[c]) < PubSize /\ PubSize \in Nat
      /\ pubCh' = [pubCh EXCEPT ![c] = Append(pubCh[c], p)]
  BY PubSubActorAssumption DEF ActorTyped, PubTopic, HasRoom, Enqueue
<1>2. /\ Append(pubCh[c], p) \in Seq(Publications) /\ Len(pubCh[c]) \in Nat
      /\ Len(Append(pubCh[c], p)) = Len(pubCh[c]) + 1
  BY <1>1, PutTyped
<1>3. pubCh' \in [Centers -> Seq(Publications)] /\ \A d \in Centers : Len(pubCh'[d]) <= PubSize
  BY <1>1, <1>2 DEF ActorTyped
<1> QED BY <1>3 DEF ActorTyped, PubTopic

LEMMA SelectTyped ==
    ASSUME ActorTyped, NEW c \in Centers, Select(c)
    PROVE  ActorTyped'
<1>1. CASE TakeSub(c)
  <2>1. /\ Head(subCh[c]) = Filter /\ Tail(subCh[c]) \in Seq({Filter})
        /\ Len(Tail(subCh[c])) = Len(subCh[c]) - 1 /\ Len(subCh[c]) \in Nat
    BY <1>1, TakenTyped DEF ActorTyped, TakeSub
  <2>2. Len(Tail(subCh[c])) <= SubSize
    BY <2>1, PubSubActorAssumption DEF ActorTyped
  <2>3. subCh' \in [Centers -> Seq({Filter})] /\ \A d \in Centers : Len(subCh'[d]) <= SubSize
    BY <2>1, <2>2, <1>1 DEF ActorTyped, TakeSub
  <2>4. AddListener(listeners[c], Filter) \in {<<>>, <<Filter>>}
    <3>1. CASE listeners[c] = <<>>
      BY <3>1 DEF AddListener
    <3>2. CASE listeners[c] = <<Filter>>
      <4>1. Contains(<<Filter>>, Filter)
        BY DEF Contains
      <4> QED BY <3>2, <4>1 DEF AddListener
    <3> QED BY <3>1, <3>2 DEF ActorTyped
  <2>5. listeners' \in [Centers -> {<<>>, <<Filter>>}]
    BY <2>1, <2>4, <1>1 DEF ActorTyped, TakeSub
  <2> QED BY <2>3, <2>5, <1>1 DEF ActorTyped, TakeSub
<1>2. CASE TakeUnsub(c)
  BY <1>2 DEF ActorTyped, TakeUnsub
<1>3. CASE TakePub(c)
  <2>1. /\ Tail(pubCh[c]) \in Seq(Publications)
        /\ Len(Tail(pubCh[c])) = Len(pubCh[c]) - 1 /\ Len(pubCh[c]) \in Nat
    BY <1>3, TakenTyped DEF ActorTyped, TakePub
  <2>2. Len(Tail(pubCh[c])) <= PubSize
    BY <2>1, PubSubActorAssumption DEF ActorTyped
  <2>3. pubCh' \in [Centers -> Seq(Publications)] /\ \A d \in Centers : Len(pubCh'[d]) <= PubSize
    BY <2>1, <2>2, <1>3 DEF ActorTyped, TakePub
  <2> QED BY <2>3, <1>3 DEF ActorTyped, TakePub
<1>4. CASE TakeClear(c)
  BY <1>4 DEF ActorTyped, TakeClear
<1>5. CASE Exit(c)
  BY <1>5 DEF ActorTyped, Exit
<1> QED BY <1>1, <1>2, <1>3, <1>4, <1>5 DEF Select

LEMMA ActorIsTyped == TypeOK => ActorTyped
BY DEF TypeOK, ActorTyped

(* What n hands over *)
Publication(n, topic) == [topic |-> topic, from |-> n, k |-> pubs[n]]

LEMMA HandTyped ==
    ASSUME TypeOK, NEW n \in Clients, NEW c \in Centers, NEW topic \in Topic, Hand(n, c, topic)
    PROVE  /\ ActorTyped'
           /\ handed' = [handed EXCEPT ![c] = Append(handed[c], Publication(n, topic))]
           /\ handed' \in [Centers -> Seq(Publications)]
<1>1. Publication(n, topic) \in Publications
  BY DEF TypeOK, Publication, Publications
<1>2. PubTopic(c, Publication(n, topic))
  BY DEF Hand, Publication
<1>3. ActorTyped'
  BY <1>1, <1>2, ActorIsTyped, PubTopicTyped
<1>4. handed' = [handed EXCEPT ![c] = Append(handed[c], Publication(n, topic))]
  BY DEF Hand, Publication
<1>5. handed[c] \in Seq(Publications)
  BY DEF TypeOK
<1>6. Append(handed[c], Publication(n, topic)) \in Seq(Publications)
  BY <1>1, <1>5, PutTyped
<1>7. handed' \in [Centers -> Seq(Publications)]
  BY <1>4, <1>6 DEF TypeOK
<1> QED BY <1>3, <1>4, <1>7

(* The group at the head of a round, and what is called in it *)
LEMMA RoundFacts ==
    ASSUME TypeOK, OnItsRound, NEW n \in Clients, at[n] \in {"center", "range", "member"}
    PROVE  /\ route[n] \in Seq(Groups) /\ route[n] # <<>>
           /\ Head(route[n]) \in Groups /\ Head(route[n]) \in Centers
           /\ NameIn(n, Head(route[n])) \in Topic
           /\ Head(route[n]) \in ToServe(n)
           /\ \/ /\ ToServe(n) = {RoomOf[n]} /\ Head(route[n]) = RoomOf[n] /\ Tail(route[n]) = <<>>
                 /\ Len(route[n]) = 1
              \/ /\ ToServe(n) = {World, RoomOf[n]} /\ Head(route[n]) = World
                 /\ Tail(route[n]) = <<RoomOf[n]>> /\ Len(route[n]) = 2 /\ RoomOf[n] # World
           /\ NameIn(n, Head(route[n])) =
                IF Head(route[n]) = RoomOf[n] THEN <<n, Subject>> ELSE <<RoomOf[n], n, Subject>>
<1>1. group[n] = RoomOf[n] /\ RoomOf[n] \in Groups /\ World \in Groups /\ Groups \subseteq Centers
  BY FanoutAssumption DEF OnItsRound, Groups
<1>2. route[n] = <<RoomOf[n]>> \/ (route[n] = <<World, RoomOf[n]>> /\ RoomOf[n] # World)
  <2>1. route[n] \in Rounds(n) /\ (RoomOf[n] = World => route[n] = <<World>>)
    BY DEF OnItsRound
  <2> QED BY <2>1 DEF Rounds
<1>3. CASE route[n] = <<RoomOf[n]>>
  <2>1. Head(route[n]) = RoomOf[n] /\ Tail(route[n]) = <<>> /\ Len(route[n]) = 1
    BY <1>3
  <2>2. ToServe(n) = {RoomOf[n]}
    BY <1>3 DEF ToServe
  <2>3. NameIn(n, Head(route[n])) \in Topic
    BY <1>1, <2>1, NameTyped
  <2> QED BY <1>1, <1>3, <2>1, <2>2, <2>3 DEF NameIn
<1>4. CASE route[n] = <<World, RoomOf[n]>> /\ RoomOf[n] # World
  <2>1. Head(route[n]) = World /\ Tail(route[n]) = <<RoomOf[n]>> /\ Len(route[n]) = 2
    BY <1>4
  <2>2. ToServe(n) = {World, RoomOf[n]}
    <3>1. 1..Len(route[n]) = {1, 2} /\ route[n][1] = World /\ route[n][2] = RoomOf[n]
      BY <2>1, <1>4
    <3> QED BY <3>1 DEF ToServe
  <2>3. NameIn(n, Head(route[n])) \in Topic
    BY <1>1, <1>4, <2>1, NameTyped
  <2> QED BY <1>1, <1>4, <2>1, <2>2, <2>3 DEF NameIn
<1> QED BY <1>2, <1>3, <1>4

LEMMA NextTyped ==
    ASSUME TypeOK, OnItsRound, [Next]_vars
    PROVE  TypeOK'
<1> USE ActorIsTyped
<1>1. ASSUME NEW n \in Clients, Join(n) PROVE TypeOK'
  <2>1. RoomOf[n] \in Groups
    BY FanoutAssumption
  <2> QED BY <1>1, <2>1 DEF TypeOK, Join, actorVars, loopVars, lifeVars
<1>2. ASSUME NEW n \in Clients, OnReceivePublish(n) PROVE TypeOK'
  <2>1. route' \in [Clients -> Seq(Groups)]
    <3>1. CASE group[n] = Nil
      BY <1>2, <3>1 DEF TypeOK, OnReceivePublish
    <3>2. CASE group[n] # Nil
      <4>1. group[n] \in Groups /\ World \in Groups
        BY <3>2 DEF TypeOK, Groups
      <4>2. ParentFirst(group[n]) \in Seq(Groups)
        BY <4>1 DEF ParentFirst
      <4> QED BY <4>2, <3>2, <1>2 DEF TypeOK, OnReceivePublish
    <3> QED BY <3>1, <3>2
  <2>2. /\ at' \in [Clients -> {"idle", "self", "center", "range", "member"}]
        /\ pubs' \in [Clients -> Nat]
    <3>1. pubs' = [pubs EXCEPT ![n] = pubs[n] + 1]
      BY <1>2, Zenon DEF OnReceivePublish
    <3>2. at' = [at EXCEPT ![n] = "self"] \/ at' = [at EXCEPT ![n] = "center"]
      BY <1>2 DEF OnReceivePublish
    <3>3. at' \in [Clients -> {"idle", "self", "center", "range", "member"}]
      BY <3>2 DEF TypeOK
    <3>4. pubs[n] + 1 \in Nat
      BY DEF TypeOK
    <3>5. pubs' \in [Clients -> Nat]
      BY <3>1, <3>4 DEF TypeOK
    <3> QED BY <3>3, <3>5
  <2> QED BY <1>2, <2>1, <2>2 DEF TypeOK, OnReceivePublish, actorVars, lifeVars, hubVars
<1>3. ASSUME NEW n \in Clients, Publish(n) PROVE TypeOK'
  <2>1. CASE PubToSelf(n)
    <3>1. n \in Centers /\ <<Subject>> \in Topic
      BY FanoutAssumption DEF Topic
    <3>2. Hand(n, n, <<Subject>>)
      BY <2>1 DEF PubToSelf
    <3>3. ActorTyped' /\ handed' \in [Centers -> Seq(Publications)]
      BY <3>1, <3>2, HandTyped
    <3> QED BY <2>1, <3>3 DEF TypeOK, ActorTyped, PubToSelf, lifeVars, hubVars
  <2>2. CASE PubToCenter(n)
    <3>1. at[n] = "center" /\ Hand(n, Head(route[n]), NameIn(n, Head(route[n])))
      BY <2>2 DEF PubToCenter
    <3>2. Head(route[n]) \in Centers /\ Head(route[n]) \in Groups /\ NameIn(n, Head(route[n])) \in Topic
      BY <3>1, RoundFacts
    <3>3. ActorTyped' /\ handed' \in [Centers -> Seq(Publications)]
      BY <3>1, <3>2, HandTyped
    <3>4. members[Head(route[n])] \in SUBSET Clients
      BY <3>2 DEF TypeOK
    <3> QED BY <2>2, <3>3, <3>4 DEF TypeOK, ActorTyped, PubToCenter, lifeVars, hubVars
  <2>3. CASE PubToMember(n)
    <3>1. at[n] = "member" /\ Hand(n, to[n], NameIn(n, Head(route[n])))
      BY <2>3 DEF PubToMember
    <3>2. to[n] \in Centers /\ NameIn(n, Head(route[n])) \in Topic
      BY <3>1, RoundFacts, FanoutAssumption DEF TypeOK
    <3>3. ActorTyped' /\ handed' \in [Centers -> Seq(Publications)]
      BY <3>1, <3>2, HandTyped
    <3> QED BY <2>3, <3>3 DEF TypeOK, ActorTyped, PubToMember, lifeVars, hubVars
  <2>4. CASE RangeEnds(n)
    <3>1. at[n] = "range"
      BY <2>4 DEF RangeEnds
    <3>2. Tail(route[n]) \in Seq(Groups)
      BY <3>1, RoundFacts, TakenTyped
    <3> QED BY <2>4, <3>2 DEF TypeOK, RangeEnds, actorVars, lifeVars, hubVars
  <2>5. ASSUME NEW m \in Clients, RangeVisits(n, m) PROVE TypeOK'
    BY <2>5 DEF TypeOK, RangeVisits, actorVars, lifeVars, hubVars
  <2> QED BY <1>3, <2>1, <2>2, <2>3, <2>4, <2>5 DEF Publish
<1>4. ASSUME NEW n \in Clients, OnReceiveSubscribe(n) PROVE TypeOK'
  <2>1. n \in Centers /\ SubTopic(n, Filter)
    BY <1>4, FanoutAssumption DEF OnReceiveSubscribe
  <2>2. ActorTyped'
    BY <2>1, SubTopicTyped
  <2> QED BY <1>4, <2>2 DEF TypeOK, ActorTyped, OnReceiveSubscribe, loopVars, lifeVars, hubVars
<1>5. ASSUME NEW n \in Clients, OnReceiveUnsubscribe(n) PROVE TypeOK'
  BY <1>5 DEF TypeOK, OnReceiveUnsubscribe, actorVars, loopVars, lifeVars, hubVars
<1>6. ASSUME NEW n \in Clients, ConnectionLost(n) PROVE TypeOK'
  BY <1>6 DEF TypeOK, ConnectionLost, Close, ClearAllSubTopics, loopVars, hubVars
<1>7. ASSUME NEW n \in Clients, Cancel(n) PROVE TypeOK'
  BY <1>7 DEF TypeOK, Cancel, CancelContext, loopVars, hubVars
<1>8. ASSUME NEW n \in Clients, Dispose(n) PROVE TypeOK'
  <2>1. CASE DisposeClears(n)
    BY <2>1 DEF TypeOK, DisposeClears, ClearAllSubTopics, loopVars, hubVars
  <2>2. CASE DisposeCloses(n)
    BY <2>2 DEF TypeOK, DisposeCloses, Close, ClearAllSubTopics, actorVars, loopVars, hubVars
  <2>3. CASE Leave(n)
    BY <2>3 DEF TypeOK, Leave, actorVars, loopVars
  <2> QED BY <1>8, <2>1, <2>2, <2>3 DEF Dispose
<1>9. ASSUME NEW c \in Centers, Actor(c) PROVE TypeOK'
  <2>1. ActorTyped'
    BY <1>9, SelectTyped DEF Actor
  <2> QED BY <1>9, <2>1 DEF TypeOK, ActorTyped, Actor, loopVars, lifeVars, hubVars
<1>10. CASE UNCHANGED vars
  BY <1>10 DEF TypeOK, vars, actorVars, loopVars, lifeVars, hubVars
<1> QED BY <1>1, <1>2, <1>3, <1>4, <1>5, <1>6, <1>7, <1>8, <1>9, <1>10 DEF Next

-----------------------------------------------------------------------------
(* Where the run loops are, action by action *)
LEMMA NextOnItsRound ==
    ASSUME TypeOK, OnItsRound, MembersAtHome, [Next]_vars
    PROVE  OnItsRound' /\ MembersAtHome'
<1>1. ASSUME NEW n \in Clients, Join(n) PROVE OnItsRound' /\ MembersAtHome'
  <2>1. group[n] = Nil /\ group' = [group EXCEPT ![n] = RoomOf[n]]
        /\ members' = [members EXCEPT ![RoomOf[n]] = members[RoomOf[n]] \cup {n}]
        /\ UNCHANGED <<at, route, visited, to>>
    BY <1>1 DEF Join, loopVars
  <2>2. MembersAtHome'
    BY <2>1, FanoutAssumption DEF MembersAtHome, TypeOK
  <2>3. OnItsRound'
    BY <2>1 DEF OnItsRound, TypeOK, Rounds
  <2> QED BY <2>2, <2>3
<1>2. ASSUME NEW n \in Clients, OnReceivePublish(n) PROVE OnItsRound' /\ MembersAtHome'
  <2>1. UNCHANGED <<group, members, visited, to>>
    BY <1>2 DEF OnReceivePublish, hubVars
  <2>2. CASE group[n] = Nil
    <3>1. at' = [at EXCEPT ![n] = "self"] /\ route' = route
      BY <1>2, <2>2 DEF OnReceivePublish
    <3> QED BY <2>1, <3>1 DEF OnItsRound, MembersAtHome, TypeOK, Rounds
  <2>3. CASE group[n] # Nil
    <3>1. at' = [at EXCEPT ![n] = "center"] /\ route' = [route EXCEPT ![n] = ParentFirst(group[n])]
      BY <1>2, <2>3 DEF OnReceivePublish
    <3>2. group[n] = RoomOf[n]
      BY <2>3 DEF OnItsRound
    <3>3. ParentFirst(group[n]) \in Rounds(n) /\ (RoomOf[n] = World => ParentFirst(group[n]) = <<World>>)
      BY <3>2 DEF ParentFirst, Rounds
    <3> QED BY <2>1, <3>1, <3>2, <3>3 DEF OnItsRound, MembersAtHome, TypeOK, Rounds
  <2> QED BY <2>2, <2>3
<1>3. ASSUME NEW n \in Clients, Publish(n) PROVE OnItsRound' /\ MembersAtHome'
  <2>1. UNCHANGED <<group, members>>
    BY <1>3 DEF Publish, PubToSelf, PubToCenter, PubToMember, RangeEnds, RangeVisits, hubVars
  <2>2. MembersAtHome'
    BY <2>1 DEF MembersAtHome
  <2>3. CASE PubToSelf(n)
    BY <2>1, <2>2, <2>3 DEF PubToSelf, OnItsRound, TypeOK, Rounds
  <2>4. CASE PubToCenter(n)
    BY <2>1, <2>2, <2>4 DEF PubToCenter, OnItsRound, TypeOK, Rounds
  <2>5. CASE PubToMember(n)
    BY <2>1, <2>2, <2>5 DEF PubToMember, OnItsRound, TypeOK, Rounds
  <2>6. CASE RangeEnds(n)
    <3>1. at[n] = "range" /\ route' = [route EXCEPT ![n] = Tail(route[n])]
          /\ at' = [at EXCEPT ![n] = IF Len(route[n]) = 1 THEN "idle" ELSE "center"]
          /\ UNCHANGED <<visited, to>>
      BY <2>6 DEF RangeEnds
    <3>2. Len(route[n]) = 1 \/ (Len(route[n]) = 2 /\ Tail(route[n]) = <<RoomOf[n]>> /\ RoomOf[n] # World)
      BY <3>1, RoundFacts
    <3>3. CASE Len(route[n]) = 1
      BY <2>1, <2>2, <3>1, <3>3 DEF OnItsRound, TypeOK, Rounds
    <3>4. CASE Len(route[n]) = 2 /\ Tail(route[n]) = <<RoomOf[n]>> /\ RoomOf[n] # World
      <4>1. at' = [at EXCEPT ![n] = "center"] /\ route'[n] \in Rounds(n)
        BY <3>1, <3>4 DEF Rounds, TypeOK
      <4> QED BY <2>1, <2>2, <3>1, <3>4, <4>1 DEF OnItsRound, TypeOK, Rounds
    <3> QED BY <3>2, <3>3, <3>4
  <2>7. ASSUME NEW m \in Clients, RangeVisits(n, m) PROVE OnItsRound' /\ MembersAtHome'
    <3>1. at[n] = "range" /\ m \in members[Head(route[n])]
      BY <2>7 DEF RangeVisits, Unvisited
    <3>2. RoomOf[m] = Head(route[n])
      BY <3>1, RoundFacts DEF MembersAtHome
    <3>3. m \in visited'[n]
      BY <2>7 DEF RangeVisits, TypeOK
    <3> QED BY <2>1, <2>2, <2>7, <3>2, <3>3 DEF RangeVisits, OnItsRound, TypeOK, Rounds
  <2> QED BY <1>3, <2>3, <2>4, <2>5, <2>6, <2>7 DEF Publish
<1>4. ASSUME NEW n \in Clients, Leave(n) PROVE OnItsRound' /\ MembersAtHome'
  <2>1. UNCHANGED <<group, at, route, visited, to>>
    BY <1>4 DEF Leave, loopVars
  <2>2. MembersAtHome'
    BY <1>4 DEF Leave, MembersAtHome, TypeOK
  <2> QED BY <2>1, <2>2 DEF OnItsRound, Rounds
<1>5. ASSUME UNCHANGED <<group, members, at, route, visited, to>>
      PROVE  OnItsRound' /\ MembersAtHome'
  BY <1>5 DEF OnItsRound, MembersAtHome, Rounds
<1>6. ASSUME NEW n \in Clients,
             OnReceiveSubscribe(n) \/ OnReceiveUnsubscribe(n) \/ ConnectionLost(n) \/ Cancel(n)
             \/ DisposeClears(n) \/ DisposeCloses(n)
      PROVE  UNCHANGED <<group, members, at, route, visited, to>>
  BY <1>6 DEF OnReceiveSubscribe, OnReceiveUnsubscribe, ConnectionLost, Cancel, DisposeClears,
     DisposeCloses, loopVars, hubVars
<1>7. ASSUME NEW c \in Centers, Actor(c)
      PROVE  UNCHANGED <<group, members, at, route, visited, to>>
  BY <1>7 DEF Actor, loopVars, hubVars
<1>8. CASE UNCHANGED vars
  BY <1>5, <1>8 DEF vars, loopVars, hubVars
<1> QED BY <1>1, <1>2, <1>3, <1>4, <1>5, <1>6, <1>7, <1>8 DEF Next, Dispose

-----------------------------------------------------------------------------
(* What a step does to the numbers, the names and the order: first a step  *)
(* that hands nothing over and leaves nobody anew without a publication,   *)
(* then one that hands n's publication to c, which did not have it.        *)
LEMMA NothingHanded ==
    ASSUME Numbered, NamedAsDocumented, HandedInOrder, TypeOK, UNCHANGED <<handed, pubs>>,
           \A m \in Clients, d \in Centers : Unserved(m, d)' => Unserved(m, d)
    PROVE  Numbered' /\ NamedAsDocumented' /\ HandedInOrder'
<1>1. Numbered'
  BY DEF Numbered
<1>2. NamedAsDocumented' /\ HandedInOrder'
  BY DEF NamedAsDocumented, HandedInOrder
<1> QED BY <1>1, <1>2

(* What c calls a publication of n *)
Named(n, c, topic) ==
    \/ In(c, RoomOf[n]) /\ topic = <<n, Subject>>
    \/ In(c, World) /\ RoomOf[n] # World /\ topic = <<RoomOf[n], n, Subject>>
    \/ c = n /\ topic = <<Subject>>

LEMMA HandKeeps ==
    ASSUME TypeOK, Numbered, NamedAsDocumented, HandedInOrder,
           NEW n \in Clients, NEW c \in Centers, NEW topic \in Topic, Hand(n, c, topic), pubs' = pubs,
           Named(n, c, topic), Unserved(n, c), ~Unserved(n, c)',
           \A m \in Clients, d \in Centers : Unserved(m, d)' => Unserved(m, d)
    PROVE  Numbered' /\ NamedAsDocumented' /\ HandedInOrder'
<1> DEFINE p == Publication(n, topic)
           l == Len(handed[c]) + 1
<1>1. p \in Publications /\ p.from = n /\ p.k = pubs[n] /\ p.topic = topic /\ pubs[n] \in Nat
  BY DEF TypeOK, Publication, Publications
<1>2. \A d \in Centers : handed[d] \in Seq(Publications)
  BY DEF TypeOK
<1>3. /\ handed' = [handed EXCEPT ![c] = Append(handed[c], p)]
      /\ handed' \in [Centers -> Seq(Publications)]
  BY HandTyped
<1>4. /\ DOMAIN handed'[c] = 1..l /\ Len(handed'[c]) = l /\ handed'[c][l] = p
      /\ \A i \in 1..Len(handed[c]) : handed'[c][i] = handed[c][i]
      /\ DOMAIN handed[c] = 1..Len(handed[c]) /\ Len(handed[c]) \in Nat
  <2>1. handed'[c] = Append(handed[c], p)
    BY <1>3 DEF TypeOK
  <2> QED BY <2>1, <1>1, <1>2, PutTyped
<1>5. \A d \in Centers \ {c} : handed'[d] = handed[d]
  BY <1>3 DEF TypeOK
<1> HIDE DEF p, l
<1>6. \A i \in 1..Len(handed[c]) : handed[c][i].from = n => handed[c][i].k < pubs[n]
  BY DEF Numbered
<1>8. 1..l = 1..Len(handed[c]) \cup {l}
  BY <1>4 DEF l
<1>9. Numbered'
  <2> SUFFICES ASSUME NEW m \in Clients, NEW d \in Centers, NEW i \in 1..Len(handed'[d]),
                      handed'[d][i].from = m
               PROVE  /\ handed'[d][i].k <= pubs[m]
                      /\ Unserved(m, d)' => handed'[d][i].k < pubs[m]
    BY DEF Numbered
  <2>1. CASE d = c /\ i = l
    BY <2>1, <1>1, <1>4
  <2>2. CASE i \in 1..Len(handed[d]) /\ handed'[d][i] = handed[d][i]
    BY <2>2 DEF Numbered
  <2> QED BY <2>1, <2>2, <1>4, <1>5, <1>8
<1>10. NamedAsDocumented'
  <2> SUFFICES ASSUME NEW d \in Centers, NEW i \in DOMAIN handed'[d]
               PROVE  Named(handed'[d][i].from, d, handed'[d][i].topic)
    BY DEF NamedAsDocumented, Named
  <2>1. CASE d = c /\ i = l
    BY <2>1, <1>1, <1>4
  <2>2. CASE i \in DOMAIN handed[d] /\ handed'[d][i] = handed[d][i]
    BY <2>2 DEF NamedAsDocumented, Named
  <2> QED BY <2>1, <2>2, <1>4, <1>5, <1>8
<1>11. HandedInOrder'
  <2> SUFFICES ASSUME NEW d \in Centers, NEW i \in DOMAIN handed'[d], NEW j \in DOMAIN handed'[d],
                      i < j, handed'[d][i].from = handed'[d][j].from
               PROVE  handed'[d][i].k < handed'[d][j].k
    BY DEF HandedInOrder
  <2>1. CASE d # c
    BY <2>1, <1>5 DEF HandedInOrder
  <2>2. CASE d = c /\ j \in 1..Len(handed[c])
    <3>1. i \in 1..Len(handed[c])
      BY <2>2, <1>4, <1>8 DEF l
    <3> QED BY <2>2, <3>1, <1>4 DEF HandedInOrder
  <2>3. CASE d = c /\ j = l
    <3>1. i \in 1..Len(handed[c])
      BY <2>3, <1>4, <1>8 DEF l
    <3> QED BY <2>3, <3>1, <1>1, <1>4, <1>6
  <2> QED BY <2>1, <2>2, <2>3, <1>4, <1>8
<1> QED BY <1>9, <1>10, <1>11

-----------------------------------------------------------------------------
(* Numbers, names and order, action by action *)
LEMMA PublishKeeps ==
    ASSUME RoundInv, NEW n \in Clients, Publish(n)
    PROVE  Numbered' /\ NamedAsDocumented' /\ HandedInOrder'
<1> USE DEF RoundInv
<1>1. CASE PubToSelf(n)
  <2>1. at[n] = "self" /\ Hand(n, n, <<Subject>>) /\ at' = [at EXCEPT ![n] = "idle"]
        /\ UNCHANGED <<route, visited, to, pubs>>
    BY <1>1 DEF PubToSelf
  <2>2. Unserved(n, n) /\ ~Unserved(n, n)'
    BY <2>1 DEF Unserved, TypeOK
  <2>3. \A m \in Clients, d \in Centers : Unserved(m, d)' => Unserved(m, d)
    BY <2>1 DEF Unserved, TypeOK, ToServe
  <2>4. n \in Centers /\ <<Subject>> \in Topic /\ Named(n, n, <<Subject>>)
    BY FanoutAssumption DEF Topic, Named
  <2> QED BY <2>1, <2>2, <2>3, <2>4, HandKeeps
<1>2. CASE PubToCenter(n)
  <2> PICK g : g = Head(route[n])
    OBVIOUS
  <2>1. at[n] = "center" /\ Hand(n, g, NameIn(n, g)) /\ at' = [at EXCEPT ![n] = "range"]
        /\ visited' = [visited EXCEPT ![n] = {}] /\ UNCHANGED <<route, to, pubs>>
    BY <1>2 DEF PubToCenter
  <2>2. g \in Groups /\ g \in Centers /\ NameIn(n, g) \in Topic /\ g \in ToServe(n) /\ g \notin Clients
    BY <2>1, RoundFacts, FanoutAssumption
  <2>3. Named(n, g, NameIn(n, g))
    BY <2>1, RoundFacts DEF Named, In
  <2>4. Unserved(n, g)
    BY <2>1, <2>2 DEF Unserved, HomeOf
  <2>5. ~Unserved(n, g)'
    BY <2>1 DEF Unserved, TypeOK
  <2>6. \A m \in Clients, d \in Centers : Unserved(m, d)' => Unserved(m, d)
    BY <2>1 DEF Unserved, TypeOK, ToServe, HomeOf
  <2> QED BY <2>1, <2>2, <2>3, <2>4, <2>5, <2>6, HandKeeps
<1>3. CASE PubToMember(n)
  <2> PICK g, c : g = Head(route[n]) /\ c = to[n]
    OBVIOUS
  <2>1. at[n] = "member" /\ Hand(n, c, NameIn(n, g)) /\ at' = [at EXCEPT ![n] = "range"]
        /\ UNCHANGED <<route, visited, to, pubs>>
    BY <1>3 DEF PubToMember
  <2>2. g \in Groups /\ NameIn(n, g) \in Topic /\ g \in ToServe(n) /\ g \notin Clients
        /\ c \in Clients /\ c \in Centers
    BY <2>1, RoundFacts, FanoutAssumption DEF TypeOK
  <2>3. RoomOf[c] = g /\ c \in visited[n]
    BY <2>1 DEF OnItsRound
  <2>4. Named(n, c, NameIn(n, g))
    BY <2>1, <2>2, <2>3, RoundFacts DEF Named, In
  <2>5. Unserved(n, c)
    BY <2>1, <2>2, <2>3 DEF Unserved, HomeOf
  <2>6. ~Unserved(n, c)'
    BY <2>1, <2>2, <2>3 DEF Unserved, HomeOf, TypeOK
  <2>7. \A m \in Clients, d \in Centers : Unserved(m, d)' => Unserved(m, d)
    BY <2>1 DEF Unserved, TypeOK, ToServe, HomeOf
  <2> QED BY <2>1, <2>2, <2>4, <2>5, <2>6, <2>7, HandKeeps
<1>4. CASE RangeEnds(n)
  <2>1. at[n] = "range" /\ route' = [route EXCEPT ![n] = Tail(route[n])]
        /\ at' = [at EXCEPT ![n] = IF Len(route[n]) = 1 THEN "idle" ELSE "center"]
        /\ UNCHANGED <<visited, to, pubs, handed>>
    BY <1>4 DEF RangeEnds
  <2>2. ASSUME NEW m \in Clients, NEW d \in Centers, Unserved(m, d)' PROVE Unserved(m, d)
    <3>1. CASE m # n
      BY <3>1, <2>1, <2>2 DEF Unserved, TypeOK, ToServe
    <3>2. CASE m = n
      <4>1. Len(route[n]) # 1 /\ at'[n] = "center" /\ HomeOf(d) \in ToServe(n)'
        BY <2>1, <2>2, <3>2 DEF Unserved, TypeOK
      <4>2. /\ ToServe(n) = {World, RoomOf[n]} /\ Head(route[n]) = World
            /\ Tail(route[n]) = <<RoomOf[n]>> /\ RoomOf[n] # World
        BY <4>1, <2>1, RoundFacts
      <4>3. route'[n] = <<RoomOf[n]>>
        BY <4>2, <2>1 DEF TypeOK
      <4>4. ToServe(n)' = {RoomOf[n]}
        BY <4>3 DEF ToServe
      <4>5. HomeOf(World) = World
        BY FanoutAssumption DEF HomeOf, Groups
      <4> QED BY <2>1, <3>2, <4>1, <4>2, <4>4, <4>5 DEF Unserved
    <3> QED BY <3>1, <3>2
  <2> QED BY <2>1, <2>2, NothingHanded
<1>5. ASSUME NEW m \in Clients, RangeVisits(n, m)
      PROVE  Numbered' /\ NamedAsDocumented' /\ HandedInOrder'
  <2>1. at[n] = "range" /\ m \notin visited[n] /\ at' = [at EXCEPT ![n] = "member"]
        /\ to' = [to EXCEPT ![n] = m] /\ visited' = [visited EXCEPT ![n] = visited[n] \cup {m}]
        /\ UNCHANGED <<route, pubs, handed>>
    BY <1>5 DEF RangeVisits, Unvisited
  <2>2. ASSUME NEW l \in Clients, NEW d \in Centers, Unserved(l, d)' PROVE Unserved(l, d)
    <3>1. CASE l = n
      BY <2>1, <2>2, <3>1 DEF Unserved, TypeOK, ToServe
    <3>2. CASE l # n
      <4>1. at'[l] = at[l] /\ visited'[l] = visited[l] /\ ToServe(l)' = ToServe(l)
        BY <2>1, <3>2 DEF TypeOK, ToServe
      <4> QED BY <2>1, <2>2, <4>1 DEF Unserved
    <3> QED BY <3>1, <3>2
  <2> QED BY <2>1, <2>2, NothingHanded
<1> QED BY <1>1, <1>2, <1>3, <1>4, <1>5 DEF Publish

LEMMA NextKeeps ==
    ASSUME RoundInv, [Next]_vars
    PROVE  Numbered' /\ NamedAsDocumented' /\ HandedInOrder'
<1> USE DEF RoundInv
<1>1. ASSUME UNCHANGED <<at, route, visited, to, pubs, handed>>
      PROVE  Numbered' /\ NamedAsDocumented' /\ HandedInOrder'
  <2>1. \A m \in Clients, d \in Centers : Unserved(m, d)' => Unserved(m, d)
    BY <1>1 DEF Unserved, ToServe
  <2> QED BY <1>1, <2>1, NothingHanded
<1>2. ASSUME NEW n \in Clients, OnReceivePublish(n)
      PROVE  Numbered' /\ NamedAsDocumented' /\ HandedInOrder'
  <2>1. pubs' = [pubs EXCEPT ![n] = pubs[n] + 1]
    BY <1>2, Zenon DEF OnReceivePublish
  <2>2. UNCHANGED <<handed, visited, to>>
    BY <1>2 DEF OnReceivePublish
  <2>3. \A m \in Clients \ {n} : at'[m] = at[m] /\ route'[m] = route[m]
    <3>1. /\ \E v : at' = [at EXCEPT ![n] = v]
          /\ route' = route \/ \E v : route' = [route EXCEPT ![n] = v]
      BY <1>2, Zenon DEF OnReceivePublish
    <3> QED BY <3>1 DEF TypeOK
  <2>4. Numbered'
    <3> SUFFICES ASSUME NEW m \in Clients, NEW d \in Centers, NEW i \in 1..Len(handed[d]),
                        handed[d][i].from = m
                 PROVE  handed[d][i].k <= pubs'[m] /\ (Unserved(m, d)' => handed[d][i].k < pubs'[m])
      BY <2>2 DEF Numbered
    <3>1. handed[d][i].k <= pubs[m] /\ (Unserved(m, d) => handed[d][i].k < pubs[m])
      BY DEF Numbered
    <3>2. CASE m = n
      <4>1. handed[d][i].k \in Nat
        <5>1. handed[d][i] \in Publications
          BY DEF TypeOK
        <5> QED BY <5>1 DEF Publications
      <4>2. pubs'[n] = pubs[n] + 1 /\ pubs[n] \in Nat
        BY <2>1 DEF TypeOK
      <4> QED BY <3>1, <3>2, <4>1, <4>2
    <3>3. CASE m # n
      <4>1. pubs'[m] = pubs[m]
        BY <2>1, <3>3 DEF TypeOK
      <4>2. Unserved(m, d)' => Unserved(m, d)
        BY <2>2, <2>3, <3>3 DEF Unserved, ToServe
      <4> QED BY <3>1, <4>1, <4>2
    <3> QED BY <3>2, <3>3
  <2>5. NamedAsDocumented' /\ HandedInOrder'
    BY <2>2 DEF NamedAsDocumented, HandedInOrder
  <2> QED BY <2>4, <2>5
<1>3. ASSUME NEW n \in Clients, Publish(n)
      PROVE  Numbered' /\ NamedAsDocumented' /\ HandedInOrder'
  BY <1>3, PublishKeeps
<1>4. ASSUME NEW n \in Clients,
             Join(n) \/ OnReceiveSubscribe(n) \/ OnReceiveUnsubscribe(n) \/ ConnectionLost(n)
             \/ Cancel(n) \/ Dispose(n)
      PROVE  UNCHANGED <<at, route, visited, to, pubs, handed>>
  BY <1>4 DEF Join, OnReceiveSubscribe, OnReceiveUnsubscribe, ConnectionLost, Cancel, Dispose,
     DisposeClears, DisposeCloses, Leave, loopVars
<1>5. ASSUME NEW c \in Centers, Actor(c)
      PROVE  UNCHANGED <<at, route, visited, to, pubs, handed>>
  BY <1>5 DEF Actor, loopVars
<1>6. CASE UNCHANGED vars
  BY <1>1, <1>6 DEF vars, loopVars
<1> QED BY <1>1, <1>2, <1>3, <1>4, <1>5, <1>6 DEF Next

LEMMA RoundInductive == RoundInv /\ [Next]_vars => RoundInv'
BY NextTyped, NextOnItsRound, NextKeeps DEF RoundInv

LEMMA RoundHolds == Spec => []RoundInv
<1>1. Init => RoundInv
  BY InitRound
<1>2. RoundInv /\ [Next]_vars => RoundInv'
  BY RoundInductive
<1> QED BY <1>1, <1>2, PTL DEF Spec

(* Every variable has its type; no more than SubSize subscriptions and     *)
(* PubSize publications wait in a PubSub (pub_sub.go:20-32).               *)
THEOREM Typed == Spec => []TypeOK
<1>1. RoundInv => TypeOK
  BY DEF RoundInv
<1> QED BY <1>1, RoundHolds, PTL

(* Nobody gets a publication of another room, or under a name that is not  *)
(* the one it has where it is received (group.go:42-75, client.go:356).    *)
THEOREM PublishedUnderItsName == Spec => []NamedAsDocumented
<1>1. RoundInv => NamedAsDocumented
  BY DEF RoundInv
<1> QED BY <1>1, RoundHolds, PTL

(* Nobody gets a publication twice, though it goes to the world and to the *)
(* room, and nobody gets one client's publications out of their order      *)
(* (group.go:42-56).                                                       *)
THEOREM PublishedInOrder == Spec => []HandedInOrder
<1>1. RoundInv => HandedInOrder
  BY DEF RoundInv
<1> QED BY <1>1, RoundHolds, PTL
=============================================================================
