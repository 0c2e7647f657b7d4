-------------------------------- MODULE Rpc --------------------------------
(***************************************************************************)
(* What the request/response exchange promises, without packets, acks,     *)
(* retries or queues: a call begins, the handler may run for its id, and   *)
(* the call returns once, with something the handler produced for that id  *)
(* or with a reason why it has no answer.                                  *)
(***************************************************************************)
EXTENDS Naturals

CONSTANTS Callers, Ids, IdOf, Retrying, Outcomes, Nil

VARIABLES
    phase,     \* caller: "idle", "busy" or "done"
    answer,    \* caller: what its call returned
    produced,  \* id: what executions of the handler yielded
    runs       \* id: executions started

rpcVars == <<phase, answer, produced, runs>>

Init ==
    /\ phase = [c \in Callers |-> "idle"]
    /\ answer = [c \in Callers |-> Nil]
    /\ produced = [i \in Ids |-> {}]
    /\ runs = [i \in Ids |-> 0]

Begin(c) ==
    /\ phase[c] = "idle"
    /\ phase' = [phase EXCEPT ![c] = "busy"]
    /\ UNCHANGED <<answer, produced, runs>>

(* Only a retried request may run more than once *)
Run(i) ==
    /\ \E c \in Callers : IdOf[c] = i /\ phase[c] # "idle"
    /\ runs[i] = 0 \/ \E c \in Retrying : IdOf[c] = i
    /\ runs' = [runs EXCEPT ![i] = @ + 1]
    /\ UNCHANGED <<phase, answer, produced>>

Produce(i) ==
    /\ runs[i] > 0
    /\ \E o \in Outcomes : produced' = [produced EXCEPT ![i] = @ \cup {o}]
    /\ UNCHANGED <<phase, answer, runs>>

Return(c) ==
    /\ phase[c] = "busy"
    /\ phase' = [phase EXCEPT ![c] = "done"]
    /\ \E a \in produced[IdOf[c]] \cup {"timeout", "closed"} : answer' = [answer EXCEPT ![c] = a]
    /\ UNCHANGED <<produced, runs>>

Next ==
    \/ \E c \in Callers : Begin(c) \/ Return(c)
    \/ \E i \in Ids : Run(i) \/ Produce(i)

Spec == Init /\ [][Next]_rpcVars
=============================================================================
