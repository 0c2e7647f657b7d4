--------------------------- MODULE PubSub_proofs ---------------------------
(***************************************************************************)
(* The properties of PubSub for any number of callers, filters and calls,  *)
(* and channels of any capacity.  The actor removes one listener only, so  *)
(* UnsubscribedIsGone rests on NoDuplicates; ListenersHear and             *)
(* HeardInOrder rest on PubSubInv.  Then, what the loop in Validate, which *)
(* the actor calls for every listener, computes for any filter and topic.  *)
(***************************************************************************)
EXTENDS PubSub, TopicMatch, TLAPS

ST == INSTANCE SequenceTheorems

Channels ==
    /\ listeners \in [Centers -> Seq(Filters)]
    /\ subCh \in [Centers -> Seq(Filters)]
    /\ unsubCh \in [Centers -> Seq(Filters)]
    /\ call \in [Callers -> Calls \cup {Nil}]

OneListener == Channels /\ NoDuplicates

-----------------------------------------------------------------------------
(* Appending what a sequence does not contain keeps it injective *)
LEMMA AddListenerFacts ==
    ASSUME NEW S, NEW s \in Seq(S), NEW f \in S, IsInjective(s)
    PROVE  AddListener(s, f) \in Seq(S) /\ IsInjective(AddListener(s, f))
<1>1. CASE Contains(s, f)
  BY <1>1 DEF AddListener
<1>2. CASE ~Contains(s, f)
  <2>1. AddListener(s, f) = Append(s, f)
    BY <1>2 DEF AddListener
  <2>2. Append(s, f) \in Seq(S) /\ Len(Append(s, f)) = Len(s) + 1
    OBVIOUS
  <2>3. \A i \in 1..Len(s) : Append(s, f)[i] = s[i] /\ s[i] # f
    BY <1>2 DEF Contains
  <2>4. Append(s, f)[Len(s) + 1] = f
    OBVIOUS
  <2>5. \A i, j \in 1..(Len(s) + 1) : Append(s, f)[i] = Append(s, f)[j] => i = j
    <3> SUFFICES ASSUME NEW i \in 1..(Len(s) + 1), NEW j \in 1..(Len(s) + 1),
                        Append(s, f)[i] = Append(s, f)[j]
                 PROVE  i = j
      OBVIOUS
    <3>1. CASE i \in 1..Len(s) /\ j \in 1..Len(s)
      BY <3>1, <2>3 DEF IsInjective
    <3>2. CASE i = Len(s) + 1 \/ j = Len(s) + 1
      BY <3>2, <2>3, <2>4
    <3> QED BY <3>1, <3>2
  <2> QED BY <2>1, <2>2, <2>5 DEF IsInjective
<1> QED BY <1>1, <1>2

(* RemoveAt closes the gap *)
LEMMA RemoveAtFacts ==
    ASSUME NEW S, NEW s \in Seq(S), NEW k \in 1..Len(s)
    PROVE  /\ RemoveAt(s, k) \in Seq(S)
           /\ Len(RemoveAt(s, k)) = Len(s) - 1
           /\ \A i \in 1..(Len(s) - 1) : RemoveAt(s, k)[i] = IF i < k THEN s[i] ELSE s[i + 1]
<1> DEFINE before == SubSeq(s, 1, k - 1)
           after == SubSeq(s, k + 1, Len(s))
<1>1. Len(s) \in Nat /\ k \in Nat /\ 1 <= k /\ k <= Len(s)
  OBVIOUS
<1>2. \A i \in 1..Len(s) : s[i] \in S
  OBVIOUS
<1>3. /\ before \in Seq(S) /\ Len(before) = k - 1
      /\ \A i \in 1..(k - 1) : before[i] = s[i]
  <2>1. \A i \in 1..(k - 1) : s[i] \in S
    BY <1>1, <1>2
  <2>2. /\ SubSeq(s, 1, k - 1) \in Seq(S)
        /\ Len(SubSeq(s, 1, k - 1)) = IF 1 <= k - 1 THEN k - 1 - 1 + 1 ELSE 0
        /\ \A i \in 1..(k - 1 - 1 + 1) : SubSeq(s, 1, k - 1)[i] = s[1 + i - 1]
    BY <1>1, <2>1, ST!SubSeqProperties
  <2> QED BY <1>1, <2>2
<1>4. /\ after \in Seq(S) /\ Len(after) = Len(s) - k
      /\ \A i \in 1..(Len(s) - k) : after[i] = s[k + i]
  <2>1. \A i \in (k + 1)..Len(s) : s[i] \in S
    BY <1>1, <1>2
  <2>2. /\ SubSeq(s, k + 1, Len(s)) \in Seq(S)
        /\ Len(SubSeq(s, k + 1, Len(s))) = IF k + 1 <= Len(s) THEN Len(s) - (k + 1) + 1 ELSE 0
        /\ \A i \in 1..(Len(s) - (k + 1) + 1) : SubSeq(s, k + 1, Len(s))[i] = s[k + 1 + i - 1]
    BY <1>1, <2>1, ST!SubSeqProperties
  <2> QED BY <1>1, <2>2
<1>5. RemoveAt(s, k) = before \o after
  BY DEF RemoveAt
<1> HIDE DEF before, after
<1>6. /\ before \o after \in Seq(S)
      /\ Len(before \o after) = Len(before) + Len(after)
      /\ \A i \in 1..(Len(before) + Len(after)) :
            (before \o after)[i] = IF i <= Len(before) THEN before[i] ELSE after[i - Len(before)]
  BY <1>3, <1>4, ST!ConcatProperties
<1>7. \A i \in 1..(Len(s) - 1) : (before \o after)[i] = IF i < k THEN s[i] ELSE s[i + 1]
  <2> SUFFICES ASSUME NEW i \in 1..(Len(s) - 1)
               PROVE  (before \o after)[i] = IF i < k THEN s[i] ELSE s[i + 1]
    OBVIOUS
  <2>0. i \in Int /\ (i < k \/ i >= k)
    BY <1>1
  <2>1. CASE i < k
    BY <1>1, <1>3, <1>4, <1>6, <2>1
  <2>2. CASE i >= k
    <3>1. (before \o after)[i] = after[i - (k - 1)]
      BY <1>1, <1>3, <1>4, <1>6, <2>2
    <3>2. after[i - (k - 1)] = s[k + (i - (k - 1))]
      BY <1>1, <1>4, <2>0, <2>2
    <3> QED BY <1>1, <2>2, <3>1, <3>2
  <2> QED BY <2>0, <2>1, <2>2
<1> QED BY <1>1, <1>3, <1>4, <1>5, <1>6, <1>7

(* Removing the only place of f leaves an injective sequence without f *)
LEMMA RemoveListenerFacts ==
    ASSUME NEW S, NEW s \in Seq(S), NEW f, IsInjective(s)
    PROVE  /\ RemoveListener(s, f) \in Seq(S)
           /\ IsInjective(RemoveListener(s, f))
           /\ ~Contains(RemoveListener(s, f), f)
<1>1. CASE ~\E i \in 1..Len(s) : s[i] = f
  BY <1>1 DEF RemoveListener, RemoveFirst, Contains
<1>2. CASE \E i \in 1..Len(s) : s[i] = f
  <2>1. PICK k \in 1..Len(s) : s[k] = f
    BY <1>2
  <2>2. {i \in 1..Len(s) : s[i] = f} = {k}
    BY <2>1 DEF IsInjective
  <2>3. Min({k}) = k
    BY <2>1 DEF Min
  <2>4. SelectInSeq(s, LAMBDA v : v = f) = k
    BY <2>2, <2>3 DEF SelectInSeq
  <2>5. RemoveListener(s, f) = RemoveAt(s, k)
    BY <1>2, <2>4 DEF RemoveListener, RemoveFirst
  <2> DEFINE r == RemoveAt(s, k)
  <2>6. /\ r \in Seq(S) /\ Len(r) = Len(s) - 1
        /\ \A i \in 1..(Len(s) - 1) : r[i] = IF i < k THEN s[i] ELSE s[i + 1]
    BY RemoveAtFacts
  <2> HIDE DEF r
  <2>7. \A i, j \in 1..Len(s) : s[i] = s[j] => i = j
    BY DEF IsInjective
  <2>8. \A i, j \in 1..(Len(s) - 1) : r[i] = r[j] => i = j
    BY <2>1, <2>6, <2>7
  <2>9. \A i \in 1..(Len(s) - 1) : r[i] # f
    BY <2>1, <2>6, <2>7
  <2>10. RemoveListener(s, f) = r
    BY <2>5 DEF r
  <2> QED BY <2>6, <2>8, <2>9, <2>10 DEF IsInjective, Contains
<1> QED BY <1>1, <1>2

-----------------------------------------------------------------------------
LEMMA Starts == Init => OneListener
  BY DEF Init, ActorInit, OneListener, Channels, NoDuplicates, IsInjective

(* The steps that change no listener *)
LEMMA ListenersKept ==
    ASSUME OneListener, UNCHANGED listeners,
           subCh' \in [Centers -> Seq(Filters)], unsubCh' \in [Centers -> Seq(Filters)],
           call' \in [Callers -> Calls \cup {Nil}]
    PROVE  OneListener'
  BY DEF OneListener, Channels, NoDuplicates

(* What a step of the actor on center c leaves of an array of sequences *)
LEMMA TailKept ==
    ASSUME NEW S, NEW ch \in [Centers -> Seq(S)], NEW c \in Centers, ch[c] # <<>>
    PROVE  [ch EXCEPT ![c] = Tail(@)] \in [Centers -> Seq(S)] /\ Head(ch[c]) \in S
  OBVIOUS

LEMMA Keeps == OneListener /\ [Next]_vars => OneListener'
<1> SUFFICES ASSUME OneListener, [Next]_vars
             PROVE  OneListener'
  OBVIOUS
<1> USE DEF OneListener, Channels
<1>1. ASSUME NEW k \in Callers, NEW op \in Calls, Call(k, op)
      PROVE  OneListener'
  <2>1. call' \in [Callers -> Calls \cup {Nil}]
    BY <1>1 DEF Call
  <2> QED BY <1>1, <2>1, ListenersKept DEF Call, actorVars
<1>2. ASSUME NEW k \in Callers, NEW c \in Centers, Send(k, c)
      PROVE  OneListener'
  <2>1. Return(k) => call' \in [Callers -> Calls \cup {Nil}]
    BY DEF Return
  <2>2. CASE SendSub(k, c)
    <3>1. call[k].arg \in Filters
      BY <2>2 DEF SendSub, Calls
    <3>2. subCh' \in [Centers -> Seq(Filters)]
      BY <2>2, <3>1 DEF SendSub, SubTopic
    <3> QED BY <2>1, <2>2, <3>2, ListenersKept DEF SendSub, SubTopic
  <2>3. CASE SendUnsub(k, c)
    <3>1. call[k].arg \in Filters
      BY <2>3 DEF SendUnsub, Calls
    <3>2. unsubCh' \in [Centers -> Seq(Filters)]
      BY <2>3, <3>1 DEF SendUnsub, UnsubTopic
    <3> QED BY <2>1, <2>3, <3>2, ListenersKept DEF SendUnsub, UnsubTopic
  <2>4. CASE SendClear(k, c)
    BY <2>1, <2>4, ListenersKept DEF SendClear, ClearAllSubTopics
  <2>5. CASE SendPub(k, c)
    BY <2>1, <2>5, ListenersKept DEF SendPub, PubTopic
  <2> QED BY <1>2, <2>2, <2>3, <2>4, <2>5 DEF Send
<1>3. ASSUME NEW c \in Centers, Actor(c)
      PROVE  OneListener'
  <2>1. CASE TakeSub(c)
    <3>1. subCh' \in [Centers -> Seq(Filters)] /\ Head(subCh[c]) \in Filters
      BY <2>1, TailKept DEF TakeSub
    <3>2. /\ AddListener(listeners[c], Head(subCh[c])) \in Seq(Filters)
          /\ IsInjective(AddListener(listeners[c], Head(subCh[c])))
      BY <3>1, AddListenerFacts DEF NoDuplicates
    <3>3. listeners' \in [Centers -> Seq(Filters)] /\ NoDuplicates'
      BY <2>1, <3>2 DEF TakeSub, NoDuplicates
    <3> QED BY <1>3, <2>1, <3>1, <3>3 DEF TakeSub, Actor
  <2>2. CASE TakeUnsub(c)
    <3>1. unsubCh' \in [Centers -> Seq(Filters)]
      BY <2>2, TailKept DEF TakeUnsub
    <3>2. /\ RemoveListener(listeners[c], Head(unsubCh[c])) \in Seq(Filters)
          /\ IsInjective(RemoveListener(listeners[c], Head(unsubCh[c])))
      BY RemoveListenerFacts DEF NoDuplicates
    <3>3. listeners' \in [Centers -> Seq(Filters)] /\ NoDuplicates'
      BY <2>2, <3>2 DEF TakeUnsub, NoDuplicates
    <3> QED BY <1>3, <2>2, <3>1, <3>3 DEF TakeUnsub, Actor
  <2>3. CASE TakePub(c)
    BY <1>3, <2>3, ListenersKept DEF TakePub, Actor
  <2>4. CASE TakeClear(c)
    <3>1. listeners' \in [Centers -> Seq(Filters)] /\ NoDuplicates'
      BY <2>4 DEF TakeClear, NoDuplicates, IsInjective
    <3> QED BY <1>3, <2>4, <3>1 DEF TakeClear, Actor
  <2>5. CASE Exit(c)
    BY <1>3, <2>5, ListenersKept DEF Exit, Actor
  <2> QED BY <1>3, <2>1, <2>2, <2>3, <2>4, <2>5 DEF Actor, Select
<1>4. ASSUME NEW c \in Centers, Cancel(c)
      PROVE  OneListener'
  BY <1>4, ListenersKept DEF Cancel, CancelContext
<1>5. CASE UNCHANGED vars
  BY <1>5, ListenersKept DEF vars, actorVars
<1> QED BY <1>1, <1>2, <1>3, <1>4, <1>5 DEF Next

(* A topic has one listener at most (pub_sub.go:38-48) *)
THEOREM OneListenerPerTopic == Spec => []NoDuplicates
<1>1. OneListener => NoDuplicates
  BY DEF OneListener
<1> QED BY Starts, Keeps, <1>1, PTL DEF Spec

(* A step that shortens unsubCh[c] is the actor's, and removes the topic *)
LEMMA UnsubStep ==
    ASSUME OneListener, [Next]_vars, NEW c \in Centers, Len(unsubCh'[c]) < Len(unsubCh[c])
    PROVE  ~Contains(listeners'[c], Head(unsubCh[c]))
<1> USE DEF OneListener, Channels
<1>1. unsubCh' # unsubCh
  OBVIOUS
<1>2. ASSUME NEW k \in Callers, NEW d \in Centers, SendUnsub(k, d)
      PROVE  FALSE
  <2>1. unsubCh' = [unsubCh EXCEPT ![d] = Append(@, call[k].arg)] /\ call[k].arg \in Filters
    BY <1>2 DEF SendUnsub, UnsubTopic, Calls
  <2>2. Len(unsubCh'[c]) >= Len(unsubCh[c])
    BY <2>1
  <2> QED BY <2>2
<1>3. PICK d \in Centers : TakeUnsub(d)
  BY <1>1, <1>2 DEF Next, vars, actorVars, Call, Send, SendSub, SendClear, SendPub, SubTopic,
       ClearAllSubTopics, PubTopic, Cancel, CancelContext, Actor, Select, TakeSub, TakePub,
       TakeClear, Exit
<1>4. d = c
  BY <1>3 DEF TakeUnsub
<1>5. listeners'[c] = RemoveListener(listeners[c], Head(unsubCh[c]))
  BY <1>3, <1>4 DEF TakeUnsub
<1>6. ~Contains(RemoveListener(listeners[c], Head(unsubCh[c])), Head(unsubCh[c]))
  BY RemoveListenerFacts DEF NoDuplicates
<1> QED BY <1>5, <1>6

(* A handled unsubscription leaves no listener of its topic, in every      *)
(* order of the calls (pub_sub.go:49-55).                                  *)
THEOREM UnsubscribedGone == Spec => UnsubscribedIsGone
<1>1. OneListener /\ [Next]_vars =>
        [\A c \in Centers : Len(unsubCh'[c]) < Len(unsubCh[c]) =>
           ~Contains(listeners'[c], Head(unsubCh[c]))]_vars
  BY UnsubStep
<1> QED BY Starts, Keeps, <1>1, PTL DEF Spec, UnsubscribedIsGone

-----------------------------------------------------------------------------
(* What ListenersHear and HeardInOrder rest on: a call has a number, the   *)
(* publications of a caller stand in pubCh in the order of their calls and *)
(* after those that were heard, a call to come has a higher number, and    *)
(* who is owed a publication that still waits is listening.                *)
Numbered == \A k \in Callers : call[k] # Nil => calls[k] \in 1..MaxCalls

InPlace(q) == \A i, j \in 1..Len(q) : i < j /\ q[i].from = q[j].from => q[i].k < q[j].k

WaitInPlace == \A c \in Centers : InPlace(pubCh[c])

RoundsInPlace ==
    \A c \in Centers : \A i, j \in 1..Len(heard[c]) :
       i < j /\ heard[c][i].pub.from = heard[c][j].pub.from => heard[c][i].pub.k < heard[c][j].pub.k

HeardBeforeWaiting ==
    \A c \in Centers : \A i \in 1..Len(heard[c]), j \in 1..Len(pubCh[c]) :
       heard[c][i].pub.from = pubCh[c][j].from => heard[c][i].pub.k < pubCh[c][j].k

CalledOnce ==
    \A c \in Centers : \A i \in 1..Len(heard[c]) :
       \A x, y \in heard[c][i].called : x[2] = y[2] => x = y

IsPast(p, made, current) ==
    p.k <= made[p.from] /\ (current[p.from] # Nil => p.k < made[p.from])

AllPast ==
    \A c \in Centers : /\ \A j \in 1..Len(pubCh[c]) : IsPast(pubCh[c][j], calls, call)
                       /\ \A i \in 1..Len(heard[c]) : IsPast(heard[c][i].pub, calls, call)

WasHeard(c, o) == \E i \in 1..Len(heard[c]) : heard[c][i].pub = o[1] /\ Hears(heard[c][i], o[2])

Awaits(c, o) == Contains(pubCh[c], o[1]) /\ Listening(c, o[2]) /\ Validates(o[2], o[1].topic)

OwedIsComing == \A c \in Centers : \A o \in owed[c] : WasHeard(c, o) \/ Awaits(c, o)

OrderInv == Numbered /\ WaitInPlace /\ RoundsInPlace /\ HeardBeforeWaiting /\ CalledOnce /\ AllPast

PubSubInv == OneListener /\ TypeOK /\ OrderInv /\ OwedIsComing

Rounds == [pub : Publications, called : SUBSET (Nat \X Filters)]

-----------------------------------------------------------------------------
(* Sequences: the front is taken, something is put at the end *)

LEMMA Taken ==
    ASSUME NEW S, NEW q \in Seq(S), q # <<>>
    PROVE  /\ Tail(q) \in Seq(S) /\ Head(q) \in S /\ Head(q) = q[1] /\ 1 \in 1..Len(q)
           /\ Len(q) \in Nat /\ Len(Tail(q)) = Len(q) - 1
           /\ \A j \in 1..Len(Tail(q)) : /\ Tail(q)[j] = q[j + 1]
                                         /\ j + 1 \in 1..Len(q) /\ 1 < j + 1
           /\ \A j \in 1..Len(q) : j = 1 \/ (j - 1 \in 1..Len(Tail(q)) /\ Tail(q)[j - 1] = q[j])
<1>1. /\ Tail(q) \in Seq(S) /\ Head(q) \in S /\ Head(q) = q[1]
      /\ Len(q) \in Nat /\ Len(q) >= 1 /\ Len(Tail(q)) = Len(q) - 1
      /\ \A j \in 1..(Len(q) - 1) : Tail(q)[j] = q[j + 1]
  OBVIOUS
<1>2. \A j \in 1..(Len(q) - 1) : j + 1 \in 1..Len(q) /\ 1 < j + 1
  BY <1>1
<1>3. \A j \in 1..Len(q) : j = 1 \/ (j - 1 \in 1..(Len(q) - 1) /\ (j - 1) + 1 = j)
  BY <1>1
<1>4. \A j \in 1..Len(q) : j = 1 \/ (j - 1 \in 1..(Len(q) - 1) /\ Tail(q)[j - 1] = q[j])
  BY <1>1, <1>3
<1>5. 1 \in 1..Len(q)
  BY <1>1
<1> QED BY <1>1, <1>2, <1>4, <1>5

LEMMA Put ==
    ASSUME NEW S, NEW q \in Seq(S), NEW e \in S
    PROVE  /\ Append(q, e) \in Seq(S) /\ Len(q) \in Nat /\ Len(Append(q, e)) = Len(q) + 1
           /\ Append(q, e)[Len(q) + 1] = e
           /\ \A j \in 1..Len(q) : Append(q, e)[j] = q[j] /\ j \in 1..(Len(q) + 1) /\ j < Len(q) + 1
           /\ \A j \in 1..(Len(q) + 1) : j \in 1..Len(q) \/ j = Len(q) + 1
           /\ Len(q) + 1 \in 1..(Len(q) + 1)
<1>1. /\ Append(q, e) \in Seq(S) /\ Len(q) \in Nat /\ Len(Append(q, e)) = Len(q) + 1
      /\ Append(q, e)[Len(q) + 1] = e
      /\ \A j \in 1..Len(q) : Append(q, e)[j] = q[j]
  OBVIOUS
<1>2. \A j \in 1..Len(q) : j \in 1..(Len(q) + 1) /\ j < Len(q) + 1
  BY <1>1
<1>3. \A j \in 1..(Len(q) + 1) : j \in 1..Len(q) \/ j = Len(q) + 1
  BY <1>1
<1>4. Len(q) + 1 \in 1..(Len(q) + 1)
  BY <1>1
<1> QED BY <1>1, <1>2, <1>3, <1>4

LEMMA PutContains ==
    ASSUME NEW S, NEW q \in Seq(S), NEW e \in S, NEW x
    PROVE  Contains(Append(q, e), x) <=> Contains(q, x) \/ x = e
<1> DEFINE r == Append(q, e)
<1>1. /\ Len(r) = Len(q) + 1 /\ r[Len(q) + 1] = e /\ Len(q) + 1 \in 1..(Len(q) + 1)
      /\ \A j \in 1..Len(q) : r[j] = q[j] /\ j \in 1..(Len(q) + 1)
      /\ \A j \in 1..(Len(q) + 1) : j \in 1..Len(q) \/ j = Len(q) + 1
  BY Put
<1> HIDE DEF r
<1> QED BY <1>1 DEF Contains, r

LEMMA TakenContains ==
    ASSUME NEW S, NEW q \in Seq(S), q # <<>>, NEW x
    PROVE  Contains(q, x) <=> Contains(Tail(q), x) \/ x = Head(q)
<1> DEFINE r == Tail(q)
<1>1. /\ Head(q) = q[1] /\ 1 \in 1..Len(q)
      /\ \A j \in 1..Len(r) : r[j] = q[j + 1] /\ j + 1 \in 1..Len(q)
      /\ \A j \in 1..Len(q) : j = 1 \/ (j - 1 \in 1..Len(r) /\ r[j - 1] = q[j])
  BY Taken
<1> HIDE DEF r
<1> QED BY <1>1 DEF Contains, r

(* Removing one filter keeps the others *)
LEMMA RemoveKeepsOthers ==
    ASSUME NEW S, NEW s \in Seq(S), NEW f, NEW g, g # f, Contains(s, g), IsInjective(s)
    PROVE  Contains(RemoveListener(s, f), g)
<1>1. CASE ~\E i \in 1..Len(s) : s[i] = f
  BY <1>1 DEF RemoveListener, RemoveFirst, Contains
<1>2. CASE \E i \in 1..Len(s) : s[i] = f
  <2>1. PICK k \in 1..Len(s) : s[k] = f
    BY <1>2
  <2>2. {i \in 1..Len(s) : s[i] = f} = {k}
    BY <2>1 DEF IsInjective
  <2>3. Min({k}) = k
    BY <2>1 DEF Min
  <2>4. SelectInSeq(s, LAMBDA v : v = f) = k
    BY <2>2, <2>3 DEF SelectInSeq
  <2>5. RemoveListener(s, f) = RemoveAt(s, k)
    BY <1>2, <2>4 DEF RemoveListener, RemoveFirst
  <2> DEFINE r == RemoveAt(s, k)
  <2>6. /\ r \in Seq(S) /\ Len(r) = Len(s) - 1
        /\ \A i \in 1..(Len(s) - 1) : r[i] = IF i < k THEN s[i] ELSE s[i + 1]
    BY RemoveAtFacts
  <2> HIDE DEF r
  <2>0. Len(s) \in Nat
    OBVIOUS
  <2>7. PICK m \in 1..Len(s) : s[m] = g
    BY DEF Contains
  <2>8. m # k
    BY <2>1, <2>7
  <2>9. CASE m < k
    <3>1. m \in 1..(Len(s) - 1) /\ r[m] = g
      BY <2>0, <2>6, <2>7, <2>9
    <3> QED BY <3>1, <2>5, <2>6 DEF Contains, r
  <2>10. CASE k < m
    <3>1. m - 1 \in 1..(Len(s) - 1) /\ ~(m - 1 < k) /\ (m - 1) + 1 = m
      BY <2>0, <2>6, <2>10
    <3>2. r[m - 1] = g
      BY <3>1, <2>6, <2>7
    <3> QED BY <3>1, <3>2, <2>5, <2>6 DEF Contains, r
  <2> QED BY <2>8, <2>9, <2>10
<1> QED BY <1>1, <1>2

-----------------------------------------------------------------------------
(* TypeOK, action by action *)

LEMMA StartsTyped == Init => TypeOK
<1> SUFFICES ASSUME Init PROVE TypeOK
  OBVIOUS
<1>1. \A S : <<>> \in Seq(S)
  OBVIOUS
<1>2. Len(<<>>) = 0 /\ 0 <= SubSize /\ 0 <= PubSize /\ 0 \in 0..MaxCalls
  BY PubSubAssumption, PubSubActorAssumption
<1> QED BY <1>1, <1>2 DEF Init, ActorInit, TypeOK

LEMMA CallTyped ==
    ASSUME TypeOK, NEW k \in Callers, NEW op \in Calls, Call(k, op)
    PROVE  TypeOK'
<1>1. calls' \in [Callers -> 0..MaxCalls]
  <2>1. calls[k] + 1 \in 0..MaxCalls
    BY PubSubAssumption DEF TypeOK, Call
  <2> QED BY <2>1 DEF TypeOK, Call
<1>2. call' \in [Callers -> Calls \cup {Nil}]
  BY DEF TypeOK, Call
<1>3. owed' \in [Centers -> SUBSET (Publications \X Filters)]
  BY DEF TypeOK, Call
<1> QED BY <1>1, <1>2, <1>3 DEF TypeOK, Call, actorVars

LEMMA ReturnTyped ==
    ASSUME TypeOK, NEW k \in Callers, Return(k)
    PROVE  call' \in [Callers -> Calls \cup {Nil}]
BY DEF TypeOK, Return

(* What a send appends to a channel *)
LEMMA SentTyped ==
    ASSUME NEW S, NEW ch \in [Centers -> Seq(S)], NEW n \in Nat, \A d \in Centers : Len(ch[d]) <= n,
           NEW c \in Centers, Len(ch[c]) < n, NEW e \in S
    PROVE  /\ [ch EXCEPT ![c] = Append(@, e)] \in [Centers -> Seq(S)]
           /\ \A d \in Centers : Len([ch EXCEPT ![c] = Append(@, e)][d]) <= n
<1>1. Append(ch[c], e) \in Seq(S) /\ Len(Append(ch[c], e)) = Len(ch[c]) + 1 /\ Len(ch[c]) \in Nat
  BY Put
<1>2. Len(Append(ch[c], e)) <= n
  BY <1>1
<1> QED BY <1>1, <1>2

LEMMA TookTyped ==
    ASSUME NEW S, NEW ch \in [Centers -> Seq(S)], NEW n \in Nat, \A d \in Centers : Len(ch[d]) <= n,
           NEW c \in Centers, ch[c] # <<>>
    PROVE  /\ [ch EXCEPT ![c] = Tail(@)] \in [Centers -> Seq(S)] /\ Head(ch[c]) \in S
           /\ \A d \in Centers : Len([ch EXCEPT ![c] = Tail(@)][d]) <= n
<1>1. Tail(ch[c]) \in Seq(S) /\ Head(ch[c]) \in S /\ Len(Tail(ch[c])) = Len(ch[c]) - 1 /\ Len(ch[c]) \in Nat
  BY Taken
<1>2. Len(Tail(ch[c])) <= n
  BY <1>1
<1> QED BY <1>1, <1>2

(* The publication of a call *)
Made(k) == [topic |-> call[k].arg, from |-> k, k |-> calls[k]]

LEMMA MadeTyped ==
    ASSUME TypeOK, Numbered, NEW k \in Callers, call[k] # Nil, call[k].op = "pub"
    PROVE  Made(k) \in Publications
<1>1. call[k].arg \in Subjects
  BY DEF TypeOK, Calls
<1>2. calls[k] \in 1..MaxCalls
  BY DEF Numbered
<1> QED BY <1>1, <1>2 DEF Made, Publications

LEMMA SendTyped ==
    ASSUME TypeOK, Numbered, NEW k \in Callers, NEW c \in Centers, Send(k, c)
    PROVE  TypeOK'
<1>0. SubSize \in Nat /\ PubSize \in Nat
  BY PubSubActorAssumption
<1>1. CASE SendSub(k, c)
  <2>1. call[k].arg \in Filters
    BY <1>1 DEF SendSub, Calls, TypeOK
  <2>2. /\ subCh' \in [Centers -> Seq(Filters)]
        /\ \A d \in Centers : Len(subCh'[d]) <= SubSize
    BY <1>0, <1>1, <2>1, SentTyped DEF SendSub, SubTopic, HasRoom, TypeOK
  <2>3. call' \in [Callers -> Calls \cup {Nil}]
    BY <1>1, ReturnTyped DEF SendSub
  <2> QED BY <1>1, <2>2, <2>3 DEF SendSub, SubTopic, TypeOK
<1>2. CASE SendUnsub(k, c)
  <2>1. call[k].arg \in Filters
    BY <1>2 DEF SendUnsub, Calls, TypeOK
  <2>2. /\ unsubCh' \in [Centers -> Seq(Filters)]
        /\ \A d \in Centers : Len(unsubCh'[d]) <= SubSize
    BY <1>0, <1>2, <2>1, SentTyped DEF SendUnsub, UnsubTopic, HasRoom, TypeOK
  <2>3. call' \in [Callers -> Calls \cup {Nil}]
    BY <1>2, ReturnTyped DEF SendUnsub
  <2> QED BY <1>2, <2>2, <2>3 DEF SendUnsub, UnsubTopic, TypeOK
<1>3. CASE SendClear(k, c)
  <2>1. call' \in [Callers -> Calls \cup {Nil}]
    BY <1>3, ReturnTyped DEF SendClear
  <2>2. clearCh' \in [Centers -> 0..1]
    BY <1>3 DEF SendClear, ClearAllSubTopics, TypeOK
  <2> QED BY <1>3, <2>1, <2>2 DEF SendClear, ClearAllSubTopics, TypeOK
<1>4. CASE SendPub(k, c)
  <2>1. Made(k) \in Publications
    BY <1>4, MadeTyped DEF SendPub
  <2>2. pubCh' = [pubCh EXCEPT ![c] = Append(@, Made(k))] /\ Len(pubCh[c]) < PubSize
    BY <1>4 DEF SendPub, PubTopic, Enqueue, HasRoom, Made
  <2>3. /\ pubCh' \in [Centers -> Seq(Publications)]
        /\ \A d \in Centers : Len(pubCh'[d]) <= PubSize
    BY <1>0, <2>1, <2>2, SentTyped DEF TypeOK
  <2>4. call' \in [Callers -> Calls \cup {Nil}]
    BY <1>4, ReturnTyped DEF SendPub
  <2>5. owed' \in [Centers -> SUBSET (Publications \X Filters)]
    <3>1. PICK F \in SUBSET Filters : owed' = [owed EXCEPT ![c] = @ \cup {<<Made(k), f>> : f \in F}]
      BY <1>4 DEF SendPub, Made
    <3>2. {<<Made(k), f>> : f \in F} \subseteq Publications \X Filters
      BY <2>1
    <3> QED BY <3>1, <3>2 DEF TypeOK
  <2> QED BY <1>4, <2>3, <2>4, <2>5 DEF SendPub, PubTopic, TypeOK
<1> QED BY <1>1, <1>2, <1>3, <1>4 DEF Send

LEMMA CallbacksTyped ==
    ASSUME NEW s \in Seq(Filters), NEW p
    PROVE  Callbacks(s, p) \in SUBSET (Nat \X Filters)
<1>1. \A j \in 1..Len(s) : j \in Nat /\ s[j] \in Filters
  OBVIOUS
<1> QED BY <1>1 DEF Callbacks

LEMMA ActorTyped ==
    ASSUME OneListener, TypeOK, NEW c \in Centers, Actor(c)
    PROVE  TypeOK'
<1>0. SubSize \in Nat /\ PubSize \in Nat
  BY PubSubActorAssumption
<1>0a. listeners' \in [Centers -> Seq(Filters)]
  <2>1. [Next]_vars
    BY DEF Next
  <2> QED BY <2>1, Keeps DEF OneListener, Channels
<1>1. CASE TakeSub(c)
  <2>1. /\ subCh' \in [Centers -> Seq(Filters)]
        /\ \A d \in Centers : Len(subCh'[d]) <= SubSize
    BY <1>0, <1>1, TookTyped DEF TakeSub, TypeOK
  <2> QED BY <1>0a, <1>1, <2>1 DEF TakeSub, Actor, TypeOK
<1>2. CASE TakeUnsub(c)
  <2>1. /\ unsubCh' \in [Centers -> Seq(Filters)]
        /\ \A d \in Centers : Len(unsubCh'[d]) <= SubSize
    BY <1>0, <1>2, TookTyped DEF TakeUnsub, TypeOK
  <2> QED BY <1>0a, <1>2, <2>1 DEF TakeUnsub, Actor, TypeOK
<1>3. CASE TakePub(c)
  <2> DEFINE p == Head(pubCh[c])
  <2>1. /\ pubCh' \in [Centers -> Seq(Publications)] /\ p \in Publications
        /\ \A d \in Centers : Len(pubCh'[d]) <= PubSize
    BY <1>0, <1>3, TookTyped DEF TakePub, TypeOK
  <2>2. [pub |-> p, called |-> Callbacks(listeners[c], p)] \in Rounds
    BY <2>1, CallbacksTyped DEF TypeOK, Rounds
  <2>3. heard' \in [Centers -> Seq(Rounds)]
    <3>1. heard' = [heard EXCEPT ![c] = Append(@, [pub |-> p, called |-> Callbacks(listeners[c], p)])]
      BY <1>3 DEF TakePub
    <3>2. heard[c] \in Seq(Rounds) /\ heard \in [Centers -> Seq(Rounds)]
      BY DEF TypeOK, Rounds
    <3>3. Append(heard[c], [pub |-> p, called |-> Callbacks(listeners[c], p)]) \in Seq(Rounds)
      BY <2>2, <3>2, Put
    <3> QED BY <3>1, <3>2, <3>3
  <2> QED BY <1>3, <2>1, <2>3 DEF TakePub, Actor, TypeOK, Rounds
<1>4. CASE TakeClear(c)
  <2>1. clearCh' \in [Centers -> 0..1] /\ exited' \in [Centers -> BOOLEAN]
    BY <1>4 DEF TakeClear, ExitAfterClear, TypeOK
  <2> QED BY <1>0a, <1>4, <2>1 DEF TakeClear, Actor, TypeOK
<1>5. CASE Exit(c)
  <2>1. exited' \in [Centers -> BOOLEAN]
    BY <1>5 DEF Exit, TypeOK
  <2> QED BY <1>5, <2>1 DEF Exit, Actor, TypeOK
<1> QED BY <1>1, <1>2, <1>3, <1>4, <1>5 DEF Actor, Select

LEMMA NextTyped ==
    ASSUME OneListener, TypeOK, Numbered, [Next]_vars
    PROVE  TypeOK'
<1>1. ASSUME NEW c \in Centers, Cancel(c) PROVE TypeOK'
  BY <1>1 DEF Cancel, CancelContext, TypeOK
<1>2. CASE UNCHANGED vars
  BY <1>2 DEF vars, actorVars, TypeOK
<1> QED BY <1>1, <1>2, CallTyped, SendTyped, ActorTyped DEF Next

-----------------------------------------------------------------------------
(* The order of the publications *)

OrderVars == <<pubCh, heard>>

(* A step that neither publishes nor hears; numbers only grow *)
LEMMA OrderKept ==
    ASSUME OrderInv, UNCHANGED OrderVars, Numbered',
           \A k \in Callers : calls[k] <= calls'[k] /\ calls[k] \in Nat /\ calls'[k] \in Nat,
           \A k \in Callers : call'[k] # Nil => call[k] # Nil \/ calls[k] < calls'[k],
           TypeOK
    PROVE  OrderInv'
<1>1. ASSUME NEW p \in Publications, IsPast(p, calls, call) PROVE IsPast(p, calls', call')
  <2>1. p.from \in Callers /\ p.k \in Nat
    BY PubSubAssumption DEF Publications
  <2> QED BY <1>1, <2>1 DEF IsPast
<1>2. AllPast'
  <2> SUFFICES ASSUME NEW c \in Centers
               PROVE  /\ \A j \in 1..Len(pubCh[c]) : IsPast(pubCh[c][j], calls', call')
                      /\ \A i \in 1..Len(heard[c]) : IsPast(heard[c][i].pub, calls', call')
    BY DEF AllPast, OrderVars
  <2>1. pubCh[c] \in Seq(Publications) /\ heard[c] \in Seq(Rounds)
    BY DEF TypeOK, Rounds
  <2>2. \A j \in 1..Len(pubCh[c]) : pubCh[c][j] \in Publications
    BY <2>1
  <2>3. \A i \in 1..Len(heard[c]) : heard[c][i].pub \in Publications
    <3>1. \A i \in 1..Len(heard[c]) : heard[c][i] \in Rounds
      BY <2>1
    <3> QED BY <3>1 DEF Rounds
  <2> QED BY <1>1, <2>2, <2>3 DEF OrderInv, AllPast
<1> QED BY <1>2 DEF OrderInv, OrderVars, WaitInPlace, InPlace, RoundsInPlace, HeardBeforeWaiting, CalledOnce

LEMMA ReturnNumbers ==
    ASSUME TypeOK, Numbered, NEW k \in Callers, Return(k), UNCHANGED calls
    PROVE  /\ Numbered'
           /\ \A j \in Callers : calls[j] <= calls'[j] /\ calls[j] \in Nat /\ calls'[j] \in Nat
           /\ \A j \in Callers : call'[j] # Nil => call[j] # Nil
BY PubSubAssumption DEF TypeOK, Return, Numbered

LEMMA SameNumbers ==
    ASSUME TypeOK, Numbered, UNCHANGED <<call, calls>>
    PROVE  /\ Numbered'
           /\ \A j \in Callers : calls[j] <= calls'[j] /\ calls[j] \in Nat /\ calls'[j] \in Nat
           /\ \A j \in Callers : call'[j] # Nil => call[j] # Nil
BY PubSubAssumption DEF TypeOK, Numbered

LEMMA CallOrder ==
    ASSUME TypeOK, OrderInv, NEW k \in Callers, NEW op \in Calls, Call(k, op)
    PROVE  OrderInv'
<1>1. \A j \in Callers : calls[j] \in Nat /\ calls[j] <= MaxCalls
  BY PubSubAssumption DEF TypeOK
<1>2. calls'[k] = calls[k] + 1 /\ \A j \in Callers \ {k} : calls'[j] = calls[j] /\ call'[j] = call[j]
  BY DEF Call, TypeOK
<1>3. calls'[k] \in 1..MaxCalls /\ calls[k] < calls'[k]
  BY <1>1, <1>2, PubSubAssumption DEF Call
<1>4. Numbered'
  <2>1. ASSUME NEW j \in Callers, call'[j] # Nil PROVE calls'[j] \in 1..MaxCalls
    BY <1>2, <1>3, <2>1 DEF OrderInv, Numbered
  <2> QED BY <2>1 DEF Numbered
<1>5. \A j \in Callers : calls[j] <= calls'[j] /\ calls'[j] \in Nat
  BY <1>1, <1>2
<1>6. \A j \in Callers : call'[j] # Nil => call[j] # Nil \/ calls[j] < calls'[j]
  BY <1>2, <1>3
<1> QED BY <1>1, <1>4, <1>5, <1>6, OrderKept DEF Call, actorVars, OrderVars

LEMMA PubOrder ==
    ASSUME TypeOK, OrderInv, NEW k \in Callers, NEW c \in Centers, SendPub(k, c)
    PROVE  OrderInv'
<1> DEFINE q == pubCh[c]
           r == Append(pubCh[c], Made(k))
<1>1. Made(k) \in Publications /\ Made(k).from = k /\ Made(k).k = calls[k]
  BY MadeTyped DEF SendPub, OrderInv, Made
<1>2. /\ pubCh' = [pubCh EXCEPT ![c] = r] /\ UNCHANGED <<heard, calls>>
      /\ call[k] # Nil /\ call' = [call EXCEPT ![k] = Nil]
  BY DEF SendPub, PubTopic, Enqueue, Made, Return
<1>3. /\ Len(q) \in Nat /\ Len(r) = Len(q) + 1 /\ r[Len(q) + 1] = Made(k)
      /\ \A j \in 1..Len(q) : r[j] = q[j] /\ j < Len(q) + 1
      /\ \A j \in 1..(Len(q) + 1) : j \in 1..Len(q) \/ j = Len(q) + 1
  BY <1>1, Put DEF TypeOK
<1>4. pubCh'[c] = r /\ \A d \in Centers \ {c} : pubCh'[d] = pubCh[d]
  BY <1>2 DEF TypeOK
<1>5. /\ Numbered'
      /\ \A j \in Callers : call'[j] # Nil => call[j] # Nil
      /\ call'[k] = Nil
  BY <1>2, ReturnNumbers DEF Return, OrderInv, TypeOK
<1>6. \A j \in Callers : calls[j] \in Nat
  BY PubSubAssumption DEF TypeOK
<1>7. ASSUME NEW p, IsPast(p, calls, call), p.from = k PROVE p.k < Made(k).k
  BY <1>1, <1>2, <1>7 DEF IsPast
<1>8. \A j \in 1..Len(q) : IsPast(q[j], calls, call)
  BY DEF OrderInv, AllPast
<1> HIDE DEF q, r
<1>9. InPlace(r)
  <2> SUFFICES ASSUME NEW i \in 1..Len(r), NEW j \in 1..Len(r), i < j, r[i].from = r[j].from
               PROVE  r[i].k < r[j].k
    BY DEF InPlace
  <2>1. i \in 1..Len(q)
    <3>1. i # Len(q) + 1
      BY <1>3
    <3> QED BY <1>3, <3>1
  <2>2. CASE j \in 1..Len(q)
    <3>1. q[i].k < q[j].k
      BY <2>1, <2>2, <1>3 DEF OrderInv, WaitInPlace, InPlace, q
    <3> QED BY <3>1, <2>1, <2>2, <1>3
  <2>3. CASE j = Len(q) + 1
    BY <2>1, <2>3, <1>1, <1>3, <1>7, <1>8
  <2> QED BY <1>3, <2>2, <2>3
<1>10. WaitInPlace'
  BY <1>4, <1>9 DEF OrderInv, WaitInPlace, InPlace
<1>11. HeardBeforeWaiting'
  <2> SUFFICES ASSUME NEW d \in Centers, NEW i \in 1..Len(heard[d]), NEW j \in 1..Len(pubCh'[d]),
                      heard[d][i].pub.from = pubCh'[d][j].from
               PROVE  heard[d][i].pub.k < pubCh'[d][j].k
    BY <1>2 DEF HeardBeforeWaiting
  <2>1. CASE d # c
    BY <2>1, <1>4 DEF OrderInv, HeardBeforeWaiting
  <2>2. CASE d = c /\ j \in 1..Len(q)
    <3>1. pubCh'[d][j] = pubCh[d][j]
      BY <2>2, <1>3, <1>4 DEF q
    <3> QED BY <2>2, <3>1 DEF OrderInv, HeardBeforeWaiting, q
  <2>3. CASE d = c /\ j = Len(q) + 1
    <3>1. pubCh'[d][j] = Made(k) /\ IsPast(heard[d][i].pub, calls, call)
      BY <2>3, <1>3, <1>4 DEF OrderInv, AllPast
    <3> QED BY <3>1, <1>1, <1>7
  <2> QED BY <2>1, <2>2, <2>3, <1>3, <1>4
<1>12. ASSUME NEW p, IsPast(p, calls, call) PROVE IsPast(p, calls', call')
  <2>1. calls' = calls /\ (call'[p.from] # Nil => call[p.from] # Nil)
    BY <1>2
  <2> QED BY <1>12, <2>1 DEF IsPast
<1>13. IsPast(Made(k), calls', call')
  BY <1>1, <1>2, <1>5, <1>6 DEF IsPast
<1>14. AllPast'
  <2>1. ASSUME NEW d \in Centers, NEW j \in 1..Len(pubCh'[d]) PROVE IsPast(pubCh'[d][j], calls', call')
    <3>1. CASE d # c
      BY <3>1, <1>4, <1>12 DEF OrderInv, AllPast
    <3>2. CASE d = c /\ j \in 1..Len(q)
      <4>1. pubCh'[d][j] = q[j]
        BY <3>2, <1>3, <1>4
      <4> QED BY <3>2, <4>1, <1>8, <1>12
    <3>3. CASE d = c /\ j = Len(q) + 1
      <4>1. pubCh'[d][j] = Made(k)
        BY <3>3, <1>3, <1>4
      <4> QED BY <4>1, <1>13
    <3> QED BY <3>1, <3>2, <3>3, <1>3, <1>4
  <2>2. ASSUME NEW d \in Centers, NEW i \in 1..Len(heard'[d]) PROVE IsPast(heard'[d][i].pub, calls', call')
    BY <1>2, <1>12 DEF OrderInv, AllPast
  <2> QED BY <2>1, <2>2 DEF AllPast
<1>15. RoundsInPlace' /\ CalledOnce'
  BY <1>2 DEF OrderInv, RoundsInPlace, CalledOnce
<1> QED BY <1>5, <1>10, <1>11, <1>14, <1>15 DEF OrderInv

LEMMA TakePubOrder ==
    ASSUME OneListener, TypeOK, OrderInv, NEW c \in Centers, TakePub(c), UNCHANGED <<call, calls>>
    PROVE  OrderInv'
<1> DEFINE q == pubCh[c]
           p == Head(pubCh[c])
           x == [pub |-> p, called |-> Callbacks(listeners[c], p)]
           h == heard[c]
<1>1. /\ pubCh' = [pubCh EXCEPT ![c] = Tail(q)] /\ heard' = [heard EXCEPT ![c] = Append(h, x)]
      /\ q # <<>> /\ UNCHANGED <<call, calls>>
  BY DEF TakePub
<1>2. q \in Seq(Publications) /\ h \in Seq(Rounds)
  BY DEF TypeOK, Rounds
<1>3. /\ p \in Publications /\ p = q[1] /\ 1 \in 1..Len(q)
      /\ \A j \in 1..Len(Tail(q)) : Tail(q)[j] = q[j + 1] /\ j + 1 \in 1..Len(q) /\ 1 < j + 1
      /\ \A j \in 1..Len(Tail(q)) : j \in Nat
  BY <1>1, <1>2, Taken
<1>4. x \in Rounds /\ x.pub = p
  BY <1>3, CallbacksTyped DEF TypeOK, Rounds
<1>5. /\ Len(h) \in Nat /\ Len(Append(h, x)) = Len(h) + 1 /\ Append(h, x)[Len(h) + 1] = x
      /\ \A i \in 1..Len(h) : Append(h, x)[i] = h[i] /\ i < Len(h) + 1
      /\ \A i \in 1..(Len(h) + 1) : i \in 1..Len(h) \/ i = Len(h) + 1
  BY <1>2, <1>4, Put
<1>6. /\ pubCh'[c] = Tail(q) /\ heard'[c] = Append(h, x)
      /\ \A d \in Centers \ {c} : pubCh'[d] = pubCh[d] /\ heard'[d] = heard[d]
  BY <1>1 DEF TypeOK
<1>7. \A y, z \in x.called : y[2] = z[2] => y = z
  BY DEF OneListener, NoDuplicates, IsInjective, Callbacks
<1> DEFINE t == Tail(q)
           g == Append(h, x)
<1>8. /\ InPlace(q)
      /\ \A i \in 1..Len(h), j \in 1..Len(q) : h[i].pub.from = q[j].from => h[i].pub.k < q[j].k
      /\ \A i, j \in 1..Len(h) : i < j /\ h[i].pub.from = h[j].pub.from => h[i].pub.k < h[j].pub.k
      /\ \A i \in 1..Len(h) : \A y, z \in h[i].called : y[2] = z[2] => y = z
      /\ \A j \in 1..Len(q) : IsPast(q[j], calls, call)
      /\ \A i \in 1..Len(h) : IsPast(h[i].pub, calls, call)
  BY DEF OrderInv, WaitInPlace, HeardBeforeWaiting, RoundsInPlace, CalledOnce, AllPast
<1> HIDE DEF q, p, x, h, t, g
<1>9. InPlace(t)
  <2> SUFFICES ASSUME NEW i \in 1..Len(t), NEW j \in 1..Len(t), i < j, t[i].from = t[j].from
               PROVE  t[i].k < t[j].k
    BY DEF InPlace
  <2>1. t[i] = q[i + 1] /\ t[j] = q[j + 1] /\ i + 1 \in 1..Len(q) /\ j + 1 \in 1..Len(q) /\ i + 1 < j + 1
    BY <1>3 DEF t
  <2> QED BY <2>1, <1>8 DEF InPlace
<1>10. ASSUME NEW j \in 1..Len(t), p.from = t[j].from PROVE p.k < t[j].k
  <2>1. t[j] = q[j + 1] /\ j + 1 \in 1..Len(q) /\ 1 < j + 1 /\ p = q[1] /\ 1 \in 1..Len(q)
    BY <1>3 DEF t
  <2> QED BY <2>1, <1>8, <1>10 DEF InPlace
<1>11. ASSUME NEW i \in 1..Len(g), NEW j \in 1..Len(t), g[i].pub.from = t[j].from PROVE g[i].pub.k < t[j].k
  <2>1. CASE i \in 1..Len(h)
    <3>1. t[j] = q[j + 1] /\ j + 1 \in 1..Len(q) /\ g[i] = h[i]
      BY <2>1, <1>3, <1>5 DEF t, g
    <3> QED BY <2>1, <3>1, <1>8, <1>11
  <2>2. CASE i = Len(h) + 1
    <3>1. g[i].pub = p
      BY <2>2, <1>4, <1>5 DEF g
    <3> QED BY <3>1, <1>10, <1>11
  <2> QED BY <2>1, <2>2, <1>5 DEF g
<1>12. ASSUME NEW i \in 1..Len(g), NEW j \in 1..Len(g), i < j, g[i].pub.from = g[j].pub.from
       PROVE  g[i].pub.k < g[j].pub.k
  <2>1. i \in 1..Len(h) /\ g[i] = h[i]
    <3>1. i # Len(h) + 1
      BY <1>5, <1>12 DEF g
    <3> QED BY <3>1, <1>5 DEF g
  <2>2. CASE j \in 1..Len(h)
    <3>1. g[j] = h[j]
      BY <2>2, <1>5 DEF g
    <3> QED BY <2>1, <2>2, <3>1, <1>8, <1>12
  <2>3. CASE j = Len(h) + 1
    <3>1. g[j].pub = q[1] /\ 1 \in 1..Len(q)
      BY <2>3, <1>3, <1>4, <1>5 DEF g
    <3> QED BY <2>1, <3>1, <1>8, <1>12
  <2> QED BY <2>2, <2>3, <1>5 DEF g
<1>13. ASSUME NEW i \in 1..Len(g) PROVE \A y, z \in g[i].called : y[2] = z[2] => y = z
  BY <1>5, <1>7, <1>8 DEF g
<1>14. ASSUME NEW j \in 1..Len(t) PROVE IsPast(t[j], calls, call)
  BY <1>3, <1>8 DEF t
<1>15. ASSUME NEW i \in 1..Len(g) PROVE IsPast(g[i].pub, calls, call)
  BY <1>3, <1>4, <1>5, <1>8 DEF g
<1>16. /\ pubCh'[c] = t /\ heard'[c] = g
       /\ \A d \in Centers \ {c} : pubCh'[d] = pubCh[d] /\ heard'[d] = heard[d]
  BY <1>6 DEF t, g
<1>17. WaitInPlace'
  BY <1>9, <1>16 DEF OrderInv, WaitInPlace, InPlace
<1>18. HeardBeforeWaiting'
  BY <1>11, <1>16 DEF OrderInv, HeardBeforeWaiting
<1>19. RoundsInPlace'
  BY <1>12, <1>16 DEF OrderInv, RoundsInPlace
<1>20. CalledOnce'
  BY <1>13, <1>16 DEF OrderInv, CalledOnce
<1>21. AllPast'
  <2>1. calls' = calls /\ call' = call
    BY <1>1
  <2>2. ASSUME NEW d \in Centers
        PROVE  /\ \A j \in 1..Len(pubCh'[d]) : IsPast(pubCh'[d][j], calls, call)
               /\ \A i \in 1..Len(heard'[d]) : IsPast(heard'[d][i].pub, calls, call)
    <3>1. CASE d = c
      BY <3>1, <1>14, <1>15, <1>16
    <3>2. CASE d # c
      BY <3>2, <1>16 DEF OrderInv, AllPast
    <3> QED BY <3>1, <3>2
  <2> QED BY <2>1, <2>2 DEF AllPast
<1>22. Numbered'
  BY <1>1 DEF OrderInv, Numbered
<1> QED BY <1>17, <1>18, <1>19, <1>20, <1>21, <1>22 DEF OrderInv

LEMMA NextOrder ==
    ASSUME OneListener, TypeOK, OrderInv, [Next]_vars
    PROVE  OrderInv'
<1>1. ASSUME UNCHANGED OrderVars, UNCHANGED <<call, calls>> PROVE OrderInv'
  BY <1>1, SameNumbers, OrderKept DEF OrderInv
<1>2. ASSUME NEW k \in Callers, Return(k), UNCHANGED calls, UNCHANGED OrderVars PROVE OrderInv'
  BY <1>2, ReturnNumbers, OrderKept DEF OrderInv
<1>3. ASSUME NEW k \in Callers, NEW c \in Centers, Send(k, c) PROVE OrderInv'
  <2>1. CASE SendSub(k, c)
    BY <2>1, <1>2 DEF SendSub, SubTopic, OrderVars
  <2>2. CASE SendUnsub(k, c)
    BY <2>2, <1>2 DEF SendUnsub, UnsubTopic, OrderVars
  <2>3. CASE SendClear(k, c)
    BY <2>3, <1>2 DEF SendClear, ClearAllSubTopics, OrderVars
  <2> QED BY <1>3, <2>1, <2>2, <2>3, PubOrder DEF Send
<1>4. ASSUME NEW c \in Centers, Actor(c) PROVE OrderInv'
  <2>1. CASE TakePub(c)
    BY <1>4, <2>1, TakePubOrder DEF Actor
  <2>2. CASE TakeSub(c) \/ TakeUnsub(c) \/ TakeClear(c) \/ Exit(c)
    BY <1>1, <1>4, <2>2 DEF Actor, TakeSub, TakeUnsub, TakeClear, Exit, OrderVars
  <2> QED BY <1>4, <2>1, <2>2 DEF Actor, Select
<1>5. ASSUME NEW c \in Centers, Cancel(c) PROVE OrderInv'
  BY <1>1, <1>5 DEF Cancel, CancelContext, OrderVars
<1>6. CASE UNCHANGED vars
  BY <1>1, <1>6 DEF vars, actorVars, OrderVars
<1> QED BY <1>3, <1>4, <1>5, <1>6, CallOrder DEF Next

-----------------------------------------------------------------------------
(* What is owed *)

(* A step after which whoever listened and was owed still is *)
LEMMA OwedKept ==
    ASSUME OwedIsComing, owed' = owed, heard' = heard, pubCh' = pubCh,
           \A c \in Centers : \A o \in owed[c] : Listening(c, o[2]) => Listening(c, o[2])'
    PROVE  OwedIsComing'
<1> SUFFICES ASSUME NEW c \in Centers, NEW o \in owed'[c]
             PROVE  WasHeard(c, o)' \/ Awaits(c, o)'
  BY DEF OwedIsComing
<1>1. WasHeard(c, o) \/ Awaits(c, o)
  BY DEF OwedIsComing
<1>2. WasHeard(c, o) => WasHeard(c, o)'
  BY DEF WasHeard
<1>3. Awaits(c, o) => Awaits(c, o)'
  BY DEF Awaits
<1> QED BY <1>1, <1>2, <1>3

LEMMA CallOwed ==
    ASSUME TypeOK, OwedIsComing, NEW k \in Callers, NEW op \in Calls, Call(k, op)
    PROVE  OwedIsComing'
<1> SUFFICES ASSUME NEW c \in Centers, NEW o \in owed'[c]
             PROVE  WasHeard(c, o)' \/ Awaits(c, o)'
  BY DEF OwedIsComing
<1>1. o \in owed[c] /\ ~Waived(op, o[2])
  BY DEF Call
<1>2. WasHeard(c, o) \/ Awaits(c, o)
  BY <1>1 DEF OwedIsComing
<1>3. UNCHANGED <<heard, pubCh, listeners, unsubCh, clearCh>> /\ call' = [call EXCEPT ![k] = op]
  BY DEF Call, actorVars
<1>4. WasHeard(c, o) => WasHeard(c, o)'
  BY <1>3 DEF WasHeard
<1>5. ASSUME Awaits(c, o) PROVE Awaits(c, o)'
  <2>1. \A j \in Callers : call'[j] # Nil => ~Waived(call'[j], o[2])
    BY <1>1, <1>3, <1>5 DEF Awaits, Listening, TypeOK
  <2> QED BY <2>1, <1>3, <1>5 DEF Awaits, Listening
<1> QED BY <1>2, <1>4, <1>5

LEMMA SendOwed ==
    ASSUME TypeOK, OrderInv, OwedIsComing, NEW k \in Callers, NEW c \in Centers, Send(k, c)
    PROVE  OwedIsComing'
<1>0. ASSUME Return(k), NEW f, \A j \in Callers : call[j] # Nil => ~Waived(call[j], f)
      PROVE  \A j \in Callers : call'[j] # Nil => ~Waived(call'[j], f)
  BY <1>0 DEF Return, TypeOK
<1>1. CASE SendSub(k, c)
  <2>1. /\ UNCHANGED <<heard, pubCh, listeners, unsubCh, clearCh, owed>>
        /\ Return(k)
    BY <1>1 DEF SendSub, SubTopic
  <2>2. ASSUME NEW d \in Centers, NEW f, Listening(d, f) PROVE Listening(d, f)'
    BY <1>0, <2>1, <2>2 DEF Listening
  <2> QED BY <2>1, <2>2, OwedKept
<1>2. CASE SendUnsub(k, c)
  <2>1. /\ UNCHANGED <<heard, pubCh, listeners, clearCh, owed>>
        /\ Return(k) /\ call[k] # Nil /\ call[k].op = "unsub" /\ call[k].arg \in Filters
        /\ unsubCh' = [unsubCh EXCEPT ![c] = Append(@, call[k].arg)]
    BY <1>2 DEF SendUnsub, UnsubTopic, TypeOK, Calls
  <2>2. ASSUME NEW d \in Centers, NEW f, Listening(d, f) PROVE Listening(d, f)'
    <3>1. f # call[k].arg
      BY <2>1, <2>2 DEF Listening, Waived
    <3>2. ~Contains(unsubCh'[d], f)
      <4>1. unsubCh[c] \in Seq(Filters) /\ unsubCh \in [Centers -> Seq(Filters)]
        BY DEF TypeOK
      <4>2. Contains(Append(unsubCh[c], call[k].arg), f) <=> Contains(unsubCh[c], f) \/ f = call[k].arg
        BY <2>1, <4>1, PutContains
      <4>3. unsubCh'[d] = IF d = c THEN Append(unsubCh[c], call[k].arg) ELSE unsubCh[d]
        BY <2>1, <4>1
      <4> QED BY <2>2, <3>1, <4>2, <4>3 DEF Listening
    <3> QED BY <1>0, <2>1, <2>2, <3>2 DEF Listening
  <2> QED BY <2>1, <2>2, OwedKept
<1>3. CASE SendClear(k, c)
  <2>1. /\ UNCHANGED <<heard, pubCh, listeners, unsubCh, owed>>
        /\ call[k] # Nil /\ call[k].op = "clear"
    BY <1>3 DEF SendClear, ClearAllSubTopics
  <2>2. ASSUME NEW d \in Centers, NEW f PROVE ~Listening(d, f)
    BY <2>1 DEF Listening, Waived
  <2> QED BY <2>1, <2>2, OwedKept
<1>4. CASE SendPub(k, c)
  <2>1. /\ UNCHANGED <<heard, listeners, unsubCh, clearCh>> /\ Return(k)
        /\ pubCh' = [pubCh EXCEPT ![c] = Append(@, Made(k))] /\ Made(k) \in Publications
    BY <1>4, MadeTyped DEF SendPub, PubTopic, Enqueue, Made, OrderInv
  <2>2. \A d \in Centers : \A o \in owed'[d] :
          \/ o \in owed[d]
          \/ /\ d = c /\ o[1] = Made(k)
             /\ Listening(c, o[2]) /\ Validates(o[2], o[1].topic)
    BY <1>4 DEF SendPub, Made, TypeOK
  <2>3. ASSUME NEW d \in Centers, NEW f, Listening(d, f) PROVE Listening(d, f)'
    BY <1>0, <2>1, <2>3 DEF Listening
  <2>4. /\ \A d \in Centers : \A x : Contains(pubCh[d], x) => Contains(pubCh'[d], x)
        /\ Contains(pubCh'[c], Made(k))
    <3>1. pubCh[c] \in Seq(Publications) /\ pubCh \in [Centers -> Seq(Publications)]
      BY DEF TypeOK
    <3>2. \A x : Contains(Append(pubCh[c], Made(k)), x) <=> Contains(pubCh[c], x) \/ x = Made(k)
      BY <2>1, <3>1, PutContains
    <3>3. \A d \in Centers : pubCh'[d] = IF d = c THEN Append(pubCh[c], Made(k)) ELSE pubCh[d]
      BY <2>1, <3>1
    <3> QED BY <3>2, <3>3
  <2> SUFFICES ASSUME NEW d \in Centers, NEW o \in owed'[d]
               PROVE  WasHeard(d, o)' \/ Awaits(d, o)'
    BY DEF OwedIsComing
  <2>5. CASE o \in owed[d]
    <3>1. WasHeard(d, o) \/ Awaits(d, o)
      BY <2>5 DEF OwedIsComing
    <3>2. WasHeard(d, o) => WasHeard(d, o)'
      BY <2>1 DEF WasHeard
    <3>3. Awaits(d, o) => Awaits(d, o)'
      BY <2>3, <2>4 DEF Awaits
    <3> QED BY <3>1, <3>2, <3>3
  <2>6. CASE o \notin owed[d]
    <3>1. d = c /\ o[1] = Made(k) /\ Listening(c, o[2]) /\ Validates(o[2], o[1].topic)
      BY <2>2, <2>6
    <3>2. Listening(d, o[2])' /\ Contains(pubCh'[d], o[1])
      BY <2>3, <2>4, <3>1
    <3> QED BY <3>1, <3>2 DEF Awaits
  <2> QED BY <2>5, <2>6
<1> QED BY <1>1, <1>2, <1>3, <1>4 DEF Send

LEMMA TakePubOwed ==
    ASSUME TypeOK, OwedIsComing, NEW c \in Centers, TakePub(c), UNCHANGED <<call, calls, owed>>
    PROVE  OwedIsComing'
<1> DEFINE q == pubCh[c]
           p == Head(pubCh[c])
           x == [pub |-> p, called |-> Callbacks(listeners[c], p)]
           h == heard[c]
<1>1. /\ pubCh' = [pubCh EXCEPT ![c] = Tail(q)] /\ heard' = [heard EXCEPT ![c] = Append(h, x)]
      /\ q # <<>> /\ UNCHANGED <<listeners, unsubCh, clearCh>>
  BY DEF TakePub
<1>2. q \in Seq(Publications) /\ h \in Seq(Rounds) /\ p \in Publications
  BY <1>1, Taken DEF TypeOK, Rounds
<1>3. x \in Rounds
  BY <1>2, CallbacksTyped DEF TypeOK, Rounds
<1>4. /\ pubCh'[c] = Tail(q) /\ heard'[c] = Append(h, x)
      /\ \A d \in Centers \ {c} : pubCh'[d] = pubCh[d] /\ heard'[d] = heard[d]
  BY <1>1 DEF TypeOK
<1>5. /\ Len(Append(h, x)) = Len(h) + 1 /\ Append(h, x)[Len(h) + 1] = x
      /\ \A i \in 1..Len(h) : Append(h, x)[i] = h[i] /\ i \in 1..(Len(h) + 1)
      /\ Len(h) + 1 \in 1..(Len(h) + 1)
  BY <1>2, <1>3, Put
<1>6. \A y : Contains(q, y) <=> Contains(Tail(q), y) \/ y = p
  BY <1>1, <1>2, TakenContains
<1>7. ASSUME NEW f, Contains(listeners[c], f), Validates(f, p.topic) PROVE Hears(x, f)
  <2>1. PICK i \in 1..Len(listeners[c]) : listeners[c][i] = f
    BY <1>7 DEF Contains
  <2>2. <<i, listeners[c][i]>> \in Callbacks(listeners[c], p)
    BY <1>7, <2>1 DEF Callbacks
  <2>3. <<i, f>>[2] = f
    OBVIOUS
  <2> QED BY <2>1, <2>2, <2>3 DEF Hears
<1> HIDE DEF q, p, x, h
<1> SUFFICES ASSUME NEW d \in Centers, NEW o \in owed[d]
             PROVE  WasHeard(d, o)' \/ Awaits(d, o)'
  BY DEF OwedIsComing
<1>8. WasHeard(d, o) \/ Awaits(d, o)
  BY DEF OwedIsComing
<1>9. ASSUME WasHeard(d, o) PROVE WasHeard(d, o)'
  <2>1. CASE d # c
    BY <1>4, <1>9, <2>1 DEF WasHeard
  <2>2. CASE d = c
    <3>1. PICK i \in 1..Len(h) : h[i].pub = o[1] /\ Hears(h[i], o[2])
      BY <1>9, <2>2 DEF WasHeard, h
    <3> QED BY <3>1, <2>2, <1>4, <1>5 DEF WasHeard
  <2> QED BY <2>1, <2>2
<1>10. ASSUME Awaits(d, o) PROVE WasHeard(d, o)' \/ Awaits(d, o)'
  <2>1. Listening(d, o[2])'
    BY <1>1, <1>10 DEF Awaits, Listening
  <2>2. CASE d # c
    BY <1>4, <1>10, <2>1, <2>2 DEF Awaits
  <2>3. CASE d = c /\ Contains(Tail(q), o[1])
    BY <1>4, <1>10, <2>1, <2>3 DEF Awaits
  <2>4. CASE d = c /\ o[1] = p
    <3>1. Hears(x, o[2]) /\ x.pub = o[1]
      BY <1>7, <1>10, <2>4 DEF Awaits, Listening, x
    <3> QED BY <3>1, <2>4, <1>4, <1>5 DEF WasHeard
  <2>5. Contains(pubCh[d], o[1])
    BY <1>10 DEF Awaits
  <2> QED BY <2>2, <2>3, <2>4, <2>5, <1>6 DEF q
<1> QED BY <1>8, <1>9, <1>10

LEMMA ActorOwed ==
    ASSUME OneListener, TypeOK, OwedIsComing, NEW c \in Centers, Actor(c)
    PROVE  OwedIsComing'
<1>1. CASE TakeSub(c)
  <2>1. /\ UNCHANGED <<heard, pubCh, unsubCh, clearCh, owed, call>> /\ subCh[c] # <<>>
        /\ listeners' = [listeners EXCEPT ![c] = AddListener(@, Head(subCh[c]))]
    BY <1>1 DEF TakeSub, Actor
  <2>2. ASSUME NEW d \in Centers, NEW f, Listening(d, f) PROVE Listening(d, f)'
    <3>1. Contains(listeners'[d], f)
      <4>1. listeners \in [Centers -> Seq(Filters)] /\ Head(subCh[c]) \in Filters
        BY <2>1, Taken DEF TypeOK
      <4>2. Contains(Append(listeners[c], Head(subCh[c])), f)
              <=> Contains(listeners[c], f) \/ f = Head(subCh[c])
        BY <4>1, PutContains
      <4>3. Contains(listeners[d], f)
        BY <2>2 DEF Listening
      <4>4. listeners'[d] = IF d = c THEN AddListener(listeners[c], Head(subCh[c])) ELSE listeners[d]
        BY <2>1, <4>1
      <4> QED BY <4>2, <4>3, <4>4 DEF AddListener
    <3> QED BY <2>1, <2>2, <3>1 DEF Listening
  <2> QED BY <2>1, <2>2, OwedKept
<1>2. CASE TakeUnsub(c)
  <2>1. /\ UNCHANGED <<heard, pubCh, clearCh, owed, call>> /\ unsubCh[c] # <<>>
        /\ listeners' = [listeners EXCEPT ![c] = RemoveListener(@, Head(unsubCh[c]))]
        /\ unsubCh' = [unsubCh EXCEPT ![c] = Tail(@)]
    BY <1>2 DEF TakeUnsub, Actor
  <2>2. listeners \in [Centers -> Seq(Filters)] /\ unsubCh \in [Centers -> Seq(Filters)]
    BY DEF TypeOK
  <2>3. /\ \A d \in Centers : unsubCh'[d] = IF d = c THEN Tail(unsubCh[c]) ELSE unsubCh[d]
        /\ \A d \in Centers : listeners'[d] = IF d = c THEN RemoveListener(listeners[c], Head(unsubCh[c]))
                                              ELSE listeners[d]
    BY <2>1, <2>2
  <2>4. \A x : Contains(unsubCh[c], x) <=> Contains(Tail(unsubCh[c]), x) \/ x = Head(unsubCh[c])
    BY <2>1, <2>2, TakenContains
  <2>5. ASSUME NEW d \in Centers, NEW f, Listening(d, f) PROVE Listening(d, f)'
    <3>1. Contains(listeners[d], f) /\ ~Contains(unsubCh[d], f)
      BY <2>5 DEF Listening
    <3>2. ~Contains(unsubCh'[d], f)
      BY <2>3, <2>4, <3>1
    <3>3. Contains(listeners'[d], f)
      <4>1. CASE d # c
        BY <2>3, <3>1, <4>1
      <4>2. CASE d = c
        <5>1. f # Head(unsubCh[c])
          BY <2>4, <3>1, <4>2
        <5>2. IsInjective(listeners[c]) /\ listeners[c] \in Seq(Filters)
          BY <2>2 DEF OneListener, NoDuplicates
        <5>3. Contains(RemoveListener(listeners[c], Head(unsubCh[c])), f)
          BY <3>1, <4>2, <5>1, <5>2, RemoveKeepsOthers
        <5> QED BY <2>3, <4>2, <5>3
      <4> QED BY <4>1, <4>2
    <3> QED BY <2>1, <2>5, <3>2, <3>3 DEF Listening
  <2> QED BY <2>1, <2>5, OwedKept
<1>3. CASE TakePub(c)
  BY <1>3, TakePubOwed DEF Actor
<1>4. CASE TakeClear(c)
  <2>1. /\ UNCHANGED <<heard, pubCh, unsubCh, owed, call>> /\ clearCh[c] = 1
        /\ listeners' = [listeners EXCEPT ![c] = <<>>] /\ clearCh' = [clearCh EXCEPT ![c] = 0]
    BY <1>4 DEF TakeClear, Actor
  <2>2. ASSUME NEW d \in Centers, NEW f, Listening(d, f) PROVE Listening(d, f)'
    <3>1. d # c
      BY <2>1, <2>2 DEF Listening
    <3>2. listeners'[d] = listeners[d] /\ clearCh'[d] = clearCh[d]
      BY <2>1, <3>1 DEF TypeOK
    <3> QED BY <2>1, <2>2, <3>2 DEF Listening
  <2> QED BY <2>1, <2>2, OwedKept
<1>5. CASE Exit(c)
  <2>1. UNCHANGED <<heard, pubCh, listeners, unsubCh, clearCh, owed, call>>
    BY <1>5 DEF Exit, Actor
  <2> QED BY <2>1, OwedKept DEF Listening
<1> QED BY <1>1, <1>2, <1>3, <1>4, <1>5 DEF Actor, Select

LEMMA NextOwed ==
    ASSUME OneListener, TypeOK, OrderInv, OwedIsComing, [Next]_vars
    PROVE  OwedIsComing'
<1>1. ASSUME NEW c \in Centers, Cancel(c) PROVE OwedIsComing'
  BY <1>1, OwedKept DEF Cancel, CancelContext, Listening
<1>2. CASE UNCHANGED vars
  BY <1>2, OwedKept DEF vars, actorVars, Listening
<1> QED BY <1>1, <1>2, CallOwed, SendOwed, ActorOwed DEF Next

-----------------------------------------------------------------------------
LEMMA PubSubAlways == Spec => []PubSubInv
<1>1. Init => PubSubInv
  <2> SUFFICES ASSUME Init PROVE PubSubInv
    OBVIOUS
  <2>1. Numbered /\ OwedIsComing
    BY DEF Init, Numbered, OwedIsComing
  <2>2. \A c \in Centers : pubCh[c] = <<>> /\ heard[c] = <<>>
    BY DEF Init, ActorInit
  <2>3. Len(<<>>) = 0 /\ 1..0 = {}
    OBVIOUS
  <2>4. WaitInPlace /\ RoundsInPlace /\ HeardBeforeWaiting /\ CalledOnce /\ AllPast
    BY <2>2, <2>3 DEF WaitInPlace, InPlace, RoundsInPlace, HeardBeforeWaiting, CalledOnce, AllPast
  <2> QED BY <2>1, <2>4, Starts, StartsTyped DEF PubSubInv, OrderInv
<1>2. PubSubInv /\ [Next]_vars => PubSubInv'
  BY Keeps, NextTyped, NextOrder, NextOwed DEF PubSubInv, OrderInv
<1> QED BY <1>1, <1>2, PTL DEF Spec

(* The channels keep their capacities (pub_sub.go:25-30) and hold what was *)
(* sent on them.                                                           *)
THEOREM Typed == Spec => []TypeOK
<1>1. PubSubInv => TypeOK
  BY DEF PubSubInv
<1> QED BY PubSubAlways, <1>1, PTL

(* Nobody's unsubscription takes a publication away from another listener, *)
(* in whatever order the actor takes its channels (pub_sub.go:34-70).      *)
THEOREM WhoListensHears == Spec => []ListenersHear
<1>1. PubSubInv => ListenersHear
  <2> SUFFICES ASSUME PubSubInv, NEW c \in Centers, NEW o \in owed[c]
               PROVE  \/ \E i \in DOMAIN heard[c] : heard[c][i].pub = o[1] /\ Hears(heard[c][i], o[2])
                      \/ Contains(pubCh[c], o[1])
    BY DEF ListenersHear
  <2>1. WasHeard(c, o) \/ Awaits(c, o)
    BY DEF PubSubInv, OwedIsComing
  <2>2. DOMAIN heard[c] = 1..Len(heard[c])
    BY DEF PubSubInv, TypeOK
  <2> QED BY <2>1, <2>2 DEF WasHeard, Awaits
<1> QED BY PubSubAlways, <1>1, PTL

(* A callback hears the publications of one caller in the order of their   *)
(* calls, and none twice (pub_sub.go:56-64, 87).                           *)
THEOREM HeardAsCalled == Spec => []HeardInOrder
<1>1. PubSubInv => HeardInOrder
  <2> SUFFICES ASSUME PubSubInv, NEW c \in Centers
               PROVE  \A i, j \in DOMAIN heard[c] :
                        LET p == heard[c][i] q == heard[c][j] IN
                        \A x \in p.called, y \in q.called :
                          x[2] = y[2] /\ p.pub.from = q.pub.from =>
                            IF i = j THEN x = y ELSE i < j => p.pub.k < q.pub.k
    BY DEF HeardInOrder
  <2>1. DOMAIN heard[c] = 1..Len(heard[c])
    BY DEF PubSubInv, TypeOK
  <2>2. \A i \in 1..Len(heard[c]) : \A x, y \in heard[c][i].called : x[2] = y[2] => x = y
    BY DEF PubSubInv, OrderInv, CalledOnce
  <2>3. \A i, j \in 1..Len(heard[c]) : i < j /\ heard[c][i].pub.from = heard[c][j].pub.from
                                         => heard[c][i].pub.k < heard[c][j].pub.k
    BY DEF PubSubInv, OrderInv, RoundsInPlace
  <2> QED BY <2>1, <2>2, <2>3
<1> QED BY PubSubAlways, <1>1, PTL

-----------------------------------------------------------------------------
(* TopicListener.Validate *)

(* The levels before level have passed, and none of them was a "#". *)
PassedSoFar ==
    \A k \in 1..(level - 1) : topicSplits[k] # "#" /\ topicSplits[k] \in {"+", pubTopic[k]}

LoopInv ==
    /\ LoopTypeOK
    /\ verdict = "run" /\ level > 0 => Len(topicSplits) <= Len(pubTopic) /\ PassedSoFar
    /\ ComputesValidates

LEMMA SplitsAre ==
    ASSUME NEW q \in Splits
    PROVE  Len(q) \in Nat \ {0} /\ DOMAIN q = 1..Len(q)
BY DEF Splits

(* level stays a position of the filter or the one behind it: the loop of  *)
(* pub_sub.go:106 ends.                                                    *)
THEOREM LoopTyped == LoopSpec => []LoopTypeOK
<1>1. LoopInit => LoopTypeOK
  BY DEF LoopInit, LoopTypeOK
<1>2. LoopTypeOK /\ [LoopNext]_loopVars => LoopTypeOK'
  <2> SUFFICES ASSUME LoopTypeOK, [LoopNext]_loopVars PROVE LoopTypeOK'
    OBVIOUS
  <2>0. Len(topicSplits) \in Nat
    BY SplitsAre DEF LoopTypeOK
  <2>1. CASE CompareLengths
    BY <2>0, <2>1 DEF CompareLengths, LoopTypeOK
  <2>2. CASE MultiLevel
    BY <2>0, <2>2 DEF MultiLevel, LoopTypeOK
  <2>3. CASE LevelPasses
    BY <2>0, <2>3 DEF LevelPasses, InLoop, LoopTypeOK
  <2>4. CASE LevelDiffers
    BY <2>0, <2>4 DEF LevelDiffers, LoopTypeOK
  <2>5. CASE EndOfFilter
    BY <2>0, <2>5 DEF EndOfFilter, LoopTypeOK
  <2>6. CASE UNCHANGED loopVars
    BY <2>6 DEF loopVars, LoopTypeOK
  <2> QED
    BY <2>1, <2>2, <2>3, <2>4, <2>5, <2>6 DEF LoopNext
<1> QED
  BY <1>1, <1>2, PTL DEF LoopSpec

(* The loop, with its early returns, computes Validates (pub_sub.go:102). *)
THEOREM LoopComputesValidates == LoopSpec => []ComputesValidates
<1>1. LoopInit => LoopInv
  BY DEF LoopInit, LoopInv, LoopTypeOK, ComputesValidates
<1>2. LoopInv /\ LoopTypeOK' /\ [LoopNext]_loopVars => LoopInv'
  <2> SUFFICES ASSUME LoopInv, LoopTypeOK', [LoopNext]_loopVars PROVE LoopInv'
    OBVIOUS
  <2>0. Len(topicSplits) \in Nat /\ Len(pubTopic) \in Nat /\ level \in Nat
    BY SplitsAre DEF LoopInv, LoopTypeOK
  <2>1. CASE CompareLengths
    BY <2>0, <2>1 DEF CompareLengths, TooLong, LoopInv, LoopTypeOK, PassedSoFar, ComputesValidates, Validates
  <2>2. CASE MultiLevel
    <3>1. Validates(topicSplits, pubTopic)
      BY <2>0, <2>2 DEF MultiLevel, InLoop, LoopInv, PassedSoFar, Validates
    <3> QED
      BY <2>0, <2>2, <3>1 DEF MultiLevel, LoopInv, ComputesValidates
  <2>3. CASE LevelPasses
    BY <2>0, <2>3 DEF LevelPasses, InLoop, LoopInv, PassedSoFar, ComputesValidates
  <2>4. CASE LevelDiffers
    <3>1. ~Validates(topicSplits, pubTopic)
      BY <2>0, <2>4 DEF LevelDiffers, InLoop, LoopInv, PassedSoFar, Validates
    <3> QED
      BY <2>0, <2>4, <3>1 DEF LevelDiffers, LoopInv, ComputesValidates
  <2>5. CASE EndOfFilter
    <3>1. Validates(topicSplits, pubTopic)
      BY <2>0, <2>5 DEF EndOfFilter, LoopInv, PassedSoFar, Validates
    <3> QED
      BY <2>0, <2>5, <3>1 DEF EndOfFilter, LoopInv, ComputesValidates
  <2>6. CASE UNCHANGED loopVars
    BY <2>6 DEF loopVars, LoopInv, LoopTypeOK, PassedSoFar, ComputesValidates
  <2> QED
    BY <2>1, <2>2, <2>3, <2>4, <2>5, <2>6 DEF LoopNext
<1>3. LoopInv => ComputesValidates
  BY DEF LoopInv
<1> QED
  BY <1>1, <1>2, <1>3, LoopTyped, PTL DEF LoopSpec
=============================================================================
