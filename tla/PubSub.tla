------------------------------- MODULE PubSub -------------------------------
(***************************************************************************)
(* Goroutines that call one PubSub: run loops that subscribe, unsubscribe  *)
(* and publish, and the goroutine that disposes its owner.  A call returns *)
(* when its send succeeds (pub_sub.go:73-88).                              *)
(***************************************************************************)
EXTENDS PubSubActor

CONSTANTS
    Callers,
    Filters,   \* filters that are subscribed
    Subjects,  \* topics that are published
    MaxCalls,  \* bound: calls of one caller
    Nil

ASSUME PubSubAssumption == MaxCalls \in Nat

VARIABLES
    call,   \* caller: the call it is in, or Nil
    calls,  \* caller: number of its calls so far
    owed    \* history: <<publication, filter>> that were accepted while the filter was listening

vars == <<actorVars, call, calls, owed>>

Calls == [op : {"sub", "unsub"}, arg : Filters] \cup [op : {"pub"}, arg : Subjects]
         \cup [op : {"clear"}, arg : {Nil}]
Publications == [topic : Subjects, from : Callers, k : 1..MaxCalls]

TypeOK ==
    /\ listeners \in [Centers -> Seq(Filters)]
    /\ subCh \in [Centers -> Seq(Filters)] /\ \A c \in Centers : Len(subCh[c]) <= SubSize
    /\ unsubCh \in [Centers -> Seq(Filters)] /\ \A c \in Centers : Len(unsubCh[c]) <= SubSize
    /\ pubCh \in [Centers -> Seq(Publications)] /\ \A c \in Centers : Len(pubCh[c]) <= PubSize
    /\ clearCh \in [Centers -> 0..1]
    /\ ctxDone \in [Centers -> BOOLEAN] /\ exited \in [Centers -> BOOLEAN]
    /\ heard \in [Centers -> Seq([pub : Publications, called : SUBSET (Nat \X Filters)])]
    /\ call \in [Callers -> Calls \cup {Nil}]
    /\ calls \in [Callers -> 0..MaxCalls]
    /\ owed \in [Centers -> SUBSET (Publications \X Filters)]

Init ==
    /\ ActorInit
    /\ call = [k \in Callers |-> Nil]
    /\ calls = [k \in Callers |-> 0]
    /\ owed = [c \in Centers |-> {}]

-----------------------------------------------------------------------------
(* An unsubscription or a clear ends what its listeners are owed *)
Waived(op, f) == op.op = "clear" \/ (op.op = "unsub" /\ op.arg = f)

Call(k, op) ==
    /\ call[k] = Nil /\ calls[k] < MaxCalls
    /\ call' = [call EXCEPT ![k] = op]
    /\ calls' = [calls EXCEPT ![k] = @ + 1]
    /\ owed' = [c \in Centers |-> {o \in owed[c] : ~Waived(op, o[2])}]
    /\ UNCHANGED actorVars

Return(k) == call' = [call EXCEPT ![k] = Nil]

SendSub(k, c) ==
    /\ call[k] # Nil /\ call[k].op = "sub"
    /\ SubTopic(c, call[k].arg)
    /\ Return(k)
    /\ UNCHANGED <<calls, owed>>

SendUnsub(k, c) ==
    /\ call[k] # Nil /\ call[k].op = "unsub"
    /\ UnsubTopic(c, call[k].arg)
    /\ Return(k)
    /\ UNCHANGED <<calls, owed>>

SendClear(k, c) ==
    /\ call[k] # Nil /\ call[k].op = "clear"
    /\ ClearAllSubTopics(c)
    /\ Return(k)
    /\ UNCHANGED <<calls, owed>>

(* f is listening in c and nobody has begun to take it away *)
Listening(c, f) ==
    /\ Contains(listeners[c], f)
    /\ ~Contains(unsubCh[c], f) /\ clearCh[c] = 0
    /\ \A k \in Callers : call[k] # Nil => ~Waived(call[k], f)

SendPub(k, c) == LET p == [topic |-> call[k].arg, from |-> k, k |-> calls[k]] IN
    /\ call[k] # Nil /\ call[k].op = "pub"
    /\ PubTopic(c, p)
    /\ Return(k)
    /\ owed' = [owed EXCEPT ![c] =
         @ \cup {<<p, f>> : f \in {g \in Filters : Listening(c, g) /\ Validates(g, p.topic)}}]
    /\ UNCHANGED calls

Cancel(c) ==
    /\ ~ctxDone[c]
    /\ CancelContext(c)
    /\ UNCHANGED <<call, calls, owed>>

Actor(c) == Select(c) /\ UNCHANGED <<call, calls, owed>>

Send(k, c) == SendSub(k, c) \/ SendUnsub(k, c) \/ SendClear(k, c) \/ SendPub(k, c)

Next ==
    \/ \E k \in Callers, op \in Calls : Call(k, op)
    \/ \E k \in Callers, c \in Centers : Send(k, c)
    \/ \E c \in Centers : Actor(c) \/ Cancel(c)

Spec == Init /\ [][Next]_vars

(* The actor's select takes one of its ready cases; a send that can go on does *)
Fairness ==
    /\ \A c \in Centers : WF_vars(Actor(c))
    /\ \A k \in Callers, c \in Centers : WF_vars(Send(k, c))

FairSpec == Spec /\ Fairness

-----------------------------------------------------------------------------
(* A topic has one listener at most (pub_sub.go:38-48) *)
NoDuplicates == \A c \in Centers : IsInjective(listeners[c])

(* When an unsubscription has been handled its filter listens no more,     *)
(* however often it was subscribed: the actor removes one listener only    *)
(* (pub_sub.go:49-55) and relies on beContain (pub_sub.go:39-48).          *)
UnsubscribedIsGone ==
    [][\A c \in Centers : Len(unsubCh'[c]) < Len(unsubCh[c]) =>
         ~Contains(listeners'[c], Head(unsubCh[c]))]_vars

Hears(round, f) == \E x \in round.called : x[2] = f

(* A publication that is accepted while a filter listens reaches that      *)
(* filter's callback, unless an unsubscription or a clear is called before *)
(* it does: the other filters' unsubscriptions never get in the way        *)
(* (pub_sub.go:50-64).                                                     *)
ListenersHear ==
    \A c \in Centers : \A o \in owed[c] :
       \/ \E i \in DOMAIN heard[c] : heard[c][i].pub = o[1] /\ Hears(heard[c][i], o[2])
       \/ Contains(pubCh[c], o[1])

(* A callback hears the publications of one caller in the order of their   *)
(* calls, and none twice (pub_sub.go:56-64).                               *)
HeardInOrder ==
    \A c \in Centers : \A i, j \in DOMAIN heard[c] :
       LET p == heard[c][i] q == heard[c][j] IN
       \A x \in p.called, y \in q.called :
         x[2] = y[2] /\ p.pub.from = q.pub.from =>
           IF i = j THEN x = y ELSE i < j => p.pub.k < q.pub.k

(* While the owner's context lives no call waits for ever (pub_sub.go:73-88) *)
CallsReturn ==
    \A k \in Callers, c \in Centers : call[k] # Nil ~> (call[k] = Nil \/ ctxDone[c])
=============================================================================
