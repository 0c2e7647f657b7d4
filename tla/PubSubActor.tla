---------------------------- MODULE PubSubActor ----------------------------
(***************************************************************************)
(* The PubSub goroutine and the four channels that feed it                 *)
(* (pub_sub.go:13-93).  Every Client, every room and the world embeds one. *)
(* A filter stands for its TopicListener: the actor tells listeners apart  *)
(* by their topic only.  PubSub and Fanout add those who call it.          *)
(***************************************************************************)
EXTENDS Topics, SequencesExt

CONSTANTS
    Centers,  \* the PubSub objects
    SubSize,  \* capacity of subCh and of unsubCh: 100
    PubSize   \* capacity of pubCh: ClientPubChLen or GroupPubChLen

ASSUME PubSubActorAssumption == SubSize \in Nat \ {0} /\ PubSize \in Nat \ {0}

VARIABLES
    listeners,  \* filters of the listeners, in the order of their subscription
    subCh, unsubCh, pubCh,
    clearCh,    \* length of clearCh, whose capacity is 1
    ctxDone,    \* the owner's context is cancelled
    exited,     \* the goroutine has returned
    heard       \* history: each publication that was taken, with the callbacks it led to

actorVars == <<listeners, subCh, unsubCh, pubCh, clearCh, ctxDone, exited, heard>>

ActorInit ==
    /\ listeners = [c \in Centers |-> <<>>]
    /\ subCh = [c \in Centers |-> <<>>]
    /\ unsubCh = [c \in Centers |-> <<>>]
    /\ pubCh = [c \in Centers |-> <<>>]
    /\ clearCh = [c \in Centers |-> 0]
    /\ ctxDone = [c \in Centers |-> FALSE]
    /\ exited = [c \in Centers |-> FALSE]
    /\ heard = [c \in Centers |-> <<>>]

-----------------------------------------------------------------------------
(* The four calls: each sends on a channel and waits while it is full *)

(* mutant: off by one *)
HasOneMore(q, size) == Len(q) <= size

HasRoom(q, size) == Len(q) < size

SubTopic(c, f) ==
    /\ HasRoom(subCh[c], SubSize)
    /\ subCh' = [subCh EXCEPT ![c] = Append(@, f)]
    /\ UNCHANGED <<listeners, unsubCh, pubCh, clearCh, ctxDone, exited, heard>>

UnsubTopic(c, f) ==
    /\ HasRoom(unsubCh[c], SubSize)
    /\ unsubCh' = [unsubCh EXCEPT ![c] = Append(@, f)]
    /\ UNCHANGED <<listeners, subCh, pubCh, clearCh, ctxDone, exited, heard>>

ClearAllSubTopics(c) ==
    /\ clearCh[c] = 0
    /\ clearCh' = [clearCh EXCEPT ![c] = 1]
    /\ UNCHANGED <<listeners, subCh, unsubCh, pubCh, ctxDone, exited, heard>>

(* mutant: a publication overtakes those before it *)
PutFirst(q, p) == <<p>> \o q

Enqueue(q, p) == Append(q, p)

PubTopic(c, p) ==
    /\ HasRoom(pubCh[c], PubSize)
    /\ pubCh' = [pubCh EXCEPT ![c] = Enqueue(@, p)]
    /\ UNCHANGED <<listeners, subCh, unsubCh, clearCh, ctxDone, exited, heard>>

-----------------------------------------------------------------------------
(* The cases of the actor's select, in any order *)

(* mutant: beContain is not looked at *)
AddAlways(s, f) == Append(s, f)

AddListener(s, f) == IF Contains(s, f) THEN s ELSE Append(s, f)

TakeSub(c) ==
    /\ ~exited[c] /\ subCh[c] # <<>>
    /\ subCh' = [subCh EXCEPT ![c] = Tail(@)]
    /\ listeners' = [listeners EXCEPT ![c] = AddListener(@, Head(subCh[c]))]
    /\ UNCHANGED <<unsubCh, pubCh, clearCh, ctxDone, exited, heard>>

(* mutant: the listeners after the removed one are lost *)
CutAtListener(s, f) == IF Contains(s, f) THEN SubSeq(s, 1, SelectInSeq(s, LAMBDA e : e = f) - 1) ELSE s

RemoveListener(s, f) == RemoveFirst(s, f)

TakeUnsub(c) ==
    /\ ~exited[c] /\ unsubCh[c] # <<>>
    /\ unsubCh' = [unsubCh EXCEPT ![c] = Tail(@)]
    /\ listeners' = [listeners EXCEPT ![c] = RemoveListener(@, Head(unsubCh[c]))]
    /\ UNCHANGED <<subCh, pubCh, clearCh, ctxDone, exited, heard>>

(* Every listener whose filter accepts the topic is called back, in their  *)
(* order: <<its place, its filter>>                                        *)
Callbacks(s, p) == {<<k, s[k]>> : k \in {j \in 1..Len(s) : Validates(s[j], p.topic)}}

TakePub(c) ==
    /\ ~exited[c] /\ pubCh[c] # <<>>
    /\ pubCh' = [pubCh EXCEPT ![c] = Tail(@)]
    /\ heard' = [heard EXCEPT ![c] =
         LET p == Head(pubCh[c]) IN Append(@, [pub |-> p, called |-> Callbacks(listeners[c], p)])]
    /\ UNCHANGED <<listeners, subCh, unsubCh, clearCh, ctxDone, exited>>

(* mutant: the goroutine returns after a clear *)
StopAfterClear(c) == TRUE

ExitAfterClear(c) == FALSE

TakeClear(c) ==
    /\ ~exited[c] /\ clearCh[c] = 1
    /\ clearCh' = [clearCh EXCEPT ![c] = 0]
    /\ listeners' = [listeners EXCEPT ![c] = <<>>]
    /\ exited' = [exited EXCEPT ![c] = ExitAfterClear(c)]
    /\ UNCHANGED <<subCh, unsubCh, pubCh, ctxDone, heard>>

Exit(c) ==
    /\ ~exited[c] /\ ctxDone[c]
    /\ exited' = [exited EXCEPT ![c] = TRUE]
    /\ UNCHANGED <<listeners, subCh, unsubCh, pubCh, clearCh, ctxDone, heard>>

Select(c) == TakeSub(c) \/ TakeUnsub(c) \/ TakePub(c) \/ TakeClear(c) \/ Exit(c)

-----------------------------------------------------------------------------
(* The context of the owner is cancelled *)
CancelContext(c) ==
    /\ ctxDone' = [ctxDone EXCEPT ![c] = TRUE]
    /\ UNCHANGED <<listeners, subCh, unsubCh, pubCh, clearCh, exited, heard>>
=============================================================================
