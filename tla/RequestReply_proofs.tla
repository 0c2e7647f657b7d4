------------------------ MODULE RequestReply_proofs ------------------------
(***************************************************************************)
(* Invariants of the request/response exchange for every set of callers,   *)
(* ids and outcomes, and every queue length and bound.                     *)
(***************************************************************************)
EXTENDS RequestReply, TLAPS

(* A queue that refuses what does not fit holds at most TxQueueLen packets *)
(* (tcp_conn.go:122).                                                      *)
LEMMA PutType ==
    ASSUME NEW q \in Seq(Messages), Len(q) <= TxQueueLen, NEW m \in Messages
    PROVE  Put(q, m) \in Seq(Messages) /\ Len(Put(q, m)) <= TxQueueLen
BY RequestReplyAssumption DEF Put

LEMMA TailType ==
    ASSUME NEW q \in Seq(Messages), Len(q) <= TxQueueLen, q # <<>>
    PROVE  /\ Head(q) \in Messages
           /\ Tail(q) \in Seq(Messages) /\ Len(Tail(q)) <= TxQueueLen
BY RequestReplyAssumption

LEMMA MessageTypes ==
    ASSUME NEW i \in Ids, NEW o \in Outcomes \cup {Nil}
    PROVE  Req(i) \in Messages /\ Ack(i) \in Messages /\ Resp(i, o) \in Messages
BY DEF Req, Ack, Resp, Messages

LEMMA FlyTimeout ==
    ASSUME NEW r \in Flys, NEW b \in BOOLEAN
    PROVE  /\ r.closed \in BOOLEAN
           /\ [r EXCEPT !.err = "timeout", !.closed = b] \in Flys
BY DEF Flys

(* Every variable keeps its type: in particular no queue overflows and no  *)
(* job or call is in two places at once.                                   *)
THEOREM Typed == Spec => []TypeOK
<1> USE RequestReplyAssumption
<1>1. Init => TypeOK
  <2>1. NewFly \in Flys
    BY DEF NewFly, Flys
  <2>2. <<>> \in Seq(Messages) /\ Len(<<>>) <= TxQueueLen
    OBVIOUS
  <2> SUFFICES ASSUME Init PROVE TypeOK
    OBVIOUS
  <2>3. /\ pc \in [Callers -> {"idle", "own", "join", "done"}]
        /\ waitOn \in [Callers -> Callers]
        /\ pendingResp \in [Ids -> Callers \cup {Nil}]
        /\ callSends \in [Callers -> 0..MaxSends]
    BY DEF Init
  <2>4. ret \in [Callers -> [result : Outcomes \cup {Nil},
                             err : Failures \cup {Nil, "timeout", "closed"}]]
    BY DEF Init
  <2>5. /\ job \in [Jobs -> {"free", "exec", "reply", "wait", "join", "done"}]
        /\ joined \in [Jobs -> Jobs]
        /\ out \in [Jobs -> Outcomes \cup {Nil}]
        /\ ackBack \in [Jobs -> BOOLEAN]
        /\ jobSends \in [Jobs -> 0..MaxReplies]
        /\ pendingAck \in [Ids -> Jobs \cup {Nil}]
        /\ handlingReq \subseteq Ids
        /\ started \in [Ids -> 0..MaxExec]
        /\ ctx \in [{"cli", "hub"} -> {"live", "done"}]
    BY DEF Init
  <2>6. rxMsg \in Messages \cup {Nil} /\ panicked \in BOOLEAN
    BY DEF Init
  <2>7. fly \in [Callers -> Flys]
    BY <2>1 DEF Init
  <2> QED
    BY <2>2, <2>3, <2>4, <2>5, <2>6, <2>7 DEF Init, TypeOK
<1>2. TypeOK /\ [Next]_vars => TypeOK'
  <2> SUFFICES ASSUME TypeOK, [Next]_vars PROVE TypeOK'
    OBVIOUS
  <2>1. ASSUME NEW c \in Callers, Call(c) PROVE TypeOK'
    <3>1. /\ Put(toHub, Req(IdOf[c])) \in Seq(Messages)
          /\ Len(Put(toHub, Req(IdOf[c]))) <= TxQueueLen
      BY PutType, MessageTypes DEF TypeOK
    <3> QED
      BY <2>1, <3>1 DEF Call, TypeOK, jobVars
  <2>2. ASSUME NEW c \in Callers, Join(c) PROVE TypeOK'
    BY <2>2 DEF Join, TypeOK, jobVars
  <2>3. ASSUME NEW c \in Callers, Retry(c) PROVE TypeOK'
    <3>1. /\ Put(toHub, Req(IdOf[c])) \in Seq(Messages)
          /\ Len(Put(toHub, Req(IdOf[c]))) <= TxQueueLen
      BY PutType, MessageTypes DEF TypeOK
    <3>2. callSends[c] + 1 \in 0..MaxSends
      BY <2>3 DEF Retry, TypeOK
    <3> QED
      BY <2>3, <3>1, <3>2 DEF Retry, TypeOK, jobVars
  <2>4. ASSUME NEW c \in Callers, TakeResult(c) PROVE TypeOK'
    BY <2>4 DEF TakeResult, Return, TypeOK, Flys, jobVars
  <2>5. ASSUME NEW c \in Callers, CallClosed(c) PROVE TypeOK'
    BY <2>5 DEF CallClosed, Return, TypeOK, jobVars
  <2>6. ASSUME NEW c \in Callers, TimeoutRetrying(c) PROVE TypeOK'
    <3>1. fly' \in [Callers -> Flys]
      <4> DEFINE f == [fly[c] EXCEPT !.err = "timeout",
                                     !.closed = @ \/ Loaded(pendingResp, IdOf[c])]
      <4>1. f \in Flys
        <5>1. fly[c] \in Flys /\ Loaded(pendingResp, IdOf[c]) \in BOOLEAN
          BY DEF TypeOK, Loaded
        <5> QED
          BY <5>1, FlyTimeout
      <4>2. fly' = [fly EXCEPT ![c] = f]
        BY <2>6 DEF TimeoutRetrying, TypeOK
      <4> QED
        BY <4>1, <4>2 DEF TypeOK
    <3>2. pendingResp' \in [Ids -> Callers \cup {Nil}] /\ panicked' \in BOOLEAN
      BY <2>6 DEF TimeoutRetrying, LoadAndDelete, TypeOK, Flys
    <3> QED
      BY <2>6, <3>1, <3>2 DEF TimeoutRetrying, Return, TypeOK, jobVars
  <2>7. ASSUME NEW c \in Callers, TimeoutOneShot(c) PROVE TypeOK'
    <3>1. fly' \in [Callers -> Flys] /\ panicked' \in BOOLEAN
      <4> DEFINE f == [fly[c] EXCEPT !.err = "timeout", !.closed = TRUE]
      <4>1. f \in Flys /\ fly[c].closed \in BOOLEAN
        BY FlyTimeout DEF TypeOK
      <4>2. fly' = [fly EXCEPT ![c] = f]
        BY <2>7 DEF TimeoutOneShot, TypeOK
      <4> QED
        BY <2>7, <4>1, <4>2 DEF TimeoutOneShot, TypeOK
    <3> QED
      BY <2>7, <3>1 DEF TimeoutOneShot, Return, TypeOK, jobVars
  <2>8. CASE RecvResponse
    BY <2>8, PutType, TailType, MessageTypes
       DEF RecvResponse, Next_, TypeOK, callVars, jobVars, Messages
  <2>9. CASE Resolve
    BY <2>9 DEF Resolve, Owner, LoadAndDelete, TypeOK, Flys, Messages, jobVars
  <2>10. CASE RecvRequestAck
    <3>1. Head(toCli) \in Messages /\ Tail(toCli) \in Seq(Messages) /\ Len(Tail(toCli)) <= TxQueueLen
      BY <2>10, TailType DEF RecvRequestAck, Next_, TypeOK
    <3>2. Head(toCli).id \in Ids
      BY <3>1 DEF Messages
    <3> QED
      BY <2>10, <3>1, <3>2 DEF RecvRequestAck, TypeOK, callVars, jobVars
  <2>11. CASE RecvRequest
    <3> DEFINE i == Head(toHub).id
    <3>1. Head(toHub) \in Messages /\ Tail(toHub) \in Seq(Messages) /\ Len(Tail(toHub)) <= TxQueueLen
      BY <2>11, TailType DEF RecvRequest, Next_, TypeOK
    <3>2. i \in Ids
      BY <3>1 DEF Messages
    <3>3. Put(toCli, Ack(i)) \in Seq(Messages) /\ Len(Put(toCli, Ack(i))) <= TxQueueLen
      BY <3>2, PutType, MessageTypes DEF TypeOK
    <3>4. CASE i \in handlingReq /\ UNCHANGED <<handlingReq, started, job>>
      BY <2>11, <3>1, <3>3, <3>4 DEF RecvRequest, TypeOK, callVars
    <3>5. CASE /\ started[i] + 1 <= MaxExec
               /\ handlingReq' = handlingReq \cup {i}
               /\ started' = [started EXCEPT ![i] = started[i] + 1]
               /\ job' = [job EXCEPT ![<<i, started[i] + 1>>] = "exec"]
      <4>1. started[i] + 1 \in 0..MaxExec
        BY <3>2, <3>5 DEF TypeOK
      <4> QED
        BY <2>11, <3>1, <3>2, <3>3, <3>5, <4>1 DEF RecvRequest, TypeOK, callVars
    <3> QED
      BY <2>11, <3>4, <3>5 DEF RecvRequest
  <2>12. ASSUME NEW j \in Jobs, Execute(j) PROVE TypeOK'
    BY <2>12 DEF Execute, TypeOK, callVars
  <2>13. ASSUME NEW j \in Jobs, Reply(j) PROVE TypeOK'
    <3>1. j[1] \in Ids /\ out[j] \in Outcomes \cup {Nil}
      BY DEF Jobs, TypeOK
    <3>2. /\ Put(toCli, Resp(j[1], out[j])) \in Seq(Messages)
          /\ Len(Put(toCli, Resp(j[1], out[j]))) <= TxQueueLen
      BY <3>1, PutType, MessageTypes DEF TypeOK
    <3> QED
      BY <2>13, <3>1, <3>2 DEF Reply, TypeOK, callVars
  <2>14. ASSUME NEW j \in Jobs, ReplyJoin(j) PROVE TypeOK'
    BY <2>14 DEF ReplyJoin, TypeOK, Jobs, callVars
  <2>15. ASSUME NEW j \in Jobs, ReplyAgain(j) PROVE TypeOK'
    <3>1. j[1] \in Ids /\ out[j] \in Outcomes \cup {Nil}
      BY DEF Jobs, TypeOK
    <3>2. /\ Put(toCli, Resp(j[1], out[j])) \in Seq(Messages)
          /\ Len(Put(toCli, Resp(j[1], out[j]))) <= TxQueueLen
      BY <3>1, PutType, MessageTypes DEF TypeOK
    <3>3. jobSends[j] + 1 \in 0..MaxReplies
      BY <2>15 DEF ReplyAgain, TypeOK
    <3> QED
      BY <2>15, <3>2, <3>3 DEF ReplyAgain, TypeOK, callVars
  <2>16. ASSUME NEW j \in Jobs, ReplyAcked(j) PROVE TypeOK'
    BY <2>16 DEF ReplyAcked, Finish, TypeOK, callVars
  <2>17. ASSUME NEW j \in Jobs, ReplyTimeout(j) PROVE TypeOK'
    BY <2>17 DEF ReplyTimeout, Finish, LoadAndDelete, TypeOK, callVars
  <2>18. ASSUME NEW j \in Jobs, ReplyClosed(j) PROVE TypeOK'
    BY <2>18 DEF ReplyClosed, Finish, TypeOK, callVars
  <2>19. CASE RecvAck
    BY <2>19, TailType DEF RecvAck, Next_, LoadAndDelete, TypeOK, Messages, callVars
  <2>20. ASSUME NEW s \in {"cli", "hub"}, Cancel(s) PROVE TypeOK'
    BY <2>20 DEF Cancel, TypeOK, callVars, jobVars
  <2>21. CASE UNCHANGED vars
    BY <2>21 DEF TypeOK, vars, callVars, jobVars
  <2> QED
    BY <2>1, <2>2, <2>3, <2>4, <2>5, <2>6, <2>7, <2>8, <2>9, <2>10, <2>11, <2>12, <2>13, <2>14,
       <2>15, <2>16, <2>17, <2>18, <2>19, <2>20, <2>21
       DEF Next, CallStep, CliLoop, JobStep, HubLoop
<1> QED
  BY <1>1, <1>2, PTL DEF Spec
-----------------------------------------------------------------------------
(* One job per request id, and the id in handlingReq exactly as long as    *)
(* the job runs (client.go:291, 293).                                      *)
THEOREM OneJobPerRequest == Spec => []HandlingTracksJob
<1> USE RequestReplyAssumption
<1>1. Init => HandlingTracksJob
  BY DEF Init, HandlingTracksJob, Active
<1>2. HandlingTracksJob /\ TypeOK /\ [Next]_vars => HandlingTracksJob'
  <2> SUFFICES ASSUME HandlingTracksJob, TypeOK, [Next]_vars PROVE HandlingTracksJob'
    OBVIOUS
  <2>1. ASSUME UNCHANGED <<job, handlingReq>> PROVE HandlingTracksJob'
    BY <2>1 DEF HandlingTracksJob
  <2>2. ASSUME NEW j \in Jobs, job[j] \in Active, Finish(j) PROVE HandlingTracksJob'
    <3>1. /\ job' = [job EXCEPT ![j] = "done"]
          /\ handlingReq' = handlingReq \ {j[1]}
      BY <2>2 DEF Finish
    <3>2. \A k \in Jobs : job'[k] \in Active => k # j /\ job[k] \in Active /\ k[1] # j[1]
      BY <2>2, <3>1 DEF TypeOK, HandlingTracksJob, Active
    <3>3. \A i \in handlingReq' : \E n \in 1..MaxExec : job'[<<i, n>>] \in Active
      <4> SUFFICES ASSUME NEW i \in handlingReq' PROVE \E n \in 1..MaxExec : job'[<<i, n>>] \in Active
        OBVIOUS
      <4>1. PICK n \in 1..MaxExec : job[<<i, n>>] \in Active
        BY <3>1 DEF HandlingTracksJob
      <4>2. <<i, n>> # j /\ <<i, n>> \in Jobs
        BY <3>1 DEF TypeOK, Jobs
      <4> QED
        BY <3>1, <4>1, <4>2 DEF TypeOK
    <3> QED
      BY <3>1, <3>2, <3>3 DEF HandlingTracksJob
  <2>3. ASSUME NEW j \in Jobs, NEW a \in Active, job[j] \in Active, job' = [job EXCEPT ![j] = a],
               UNCHANGED handlingReq
        PROVE  HandlingTracksJob'
    <3>1. \A k \in Jobs : job'[k] \in Active <=> job[k] \in Active
      BY <2>3 DEF TypeOK
    <3>2. \A i \in handlingReq : \A n \in 1..MaxExec : <<i, n>> \in Jobs
      BY DEF TypeOK, Jobs
    <3> QED
      BY <2>3, <3>1, <3>2 DEF HandlingTracksJob
  <2>4. CASE RecvRequest
    <3> DEFINE i == Head(toHub).id
               j == <<i, started[i] + 1>>
    <3>1. CASE UNCHANGED <<handlingReq, started, job>>
      BY <2>1, <3>1
    <3>2. CASE /\ i \notin handlingReq
               /\ started[i] + 1 <= MaxExec
               /\ handlingReq' = handlingReq \cup {i}
               /\ job' = [job EXCEPT ![j] = "exec"]
      <4>1. i \in Ids
        BY <2>4, TailType DEF RecvRequest, Next_, TypeOK, Messages
      <4>2. j \in Jobs /\ started[i] + 1 \in 1..MaxExec
        BY <3>2, <4>1 DEF TypeOK, Jobs
      <4>3. \A k \in Jobs : job'[k] = IF k = j THEN "exec" ELSE job[k]
        BY <3>2, <4>2 DEF TypeOK
      <4>4. \A k \in Jobs : k[1] = i => job[k] \notin Active
        BY <3>2 DEF HandlingTracksJob
      <4>5. \A h \in handlingReq' : \E n \in 1..MaxExec : job'[<<h, n>>] \in Active
        <5> SUFFICES ASSUME NEW h \in handlingReq'
                     PROVE  \E n \in 1..MaxExec : job'[<<h, n>>] \in Active
          OBVIOUS
        <5>1. CASE h = i
          BY <4>2, <4>3, <5>1 DEF Active
        <5>2. CASE h # i
          <6>1. PICK n \in 1..MaxExec : job[<<h, n>>] \in Active
            BY <3>2, <5>2 DEF HandlingTracksJob
          <6>2. <<h, n>> \in Jobs /\ <<h, n>> # j
            BY <3>2, <5>2 DEF TypeOK, Jobs
          <6> QED
            BY <4>3, <6>1, <6>2
        <5> QED
          BY <5>1, <5>2
      <4>6. \A k \in Jobs : job'[k] \in Active => k[1] \in handlingReq'
        BY <3>2, <4>3 DEF HandlingTracksJob
      <4>7. \A k, l \in Jobs : k[1] = l[1] /\ job'[k] \in Active /\ job'[l] \in Active => k = l
        BY <4>3, <4>4 DEF HandlingTracksJob
      <4> QED
        BY <4>5, <4>6, <4>7 DEF HandlingTracksJob
    <3> QED
      BY <2>4, <3>1, <3>2 DEF RecvRequest
  <2>5. ASSUME NEW c \in Callers, CallStep(c) PROVE HandlingTracksJob'
    BY <2>1, <2>5 DEF CallStep, Call, Join, Retry, TakeResult, CallClosed, TimeoutRetrying,
                      TimeoutOneShot, jobVars
  <2>6. CASE CliLoop
    BY <2>1, <2>6 DEF CliLoop, RecvResponse, Resolve, RecvRequestAck, jobVars
  <2>7. ASSUME NEW j \in Jobs, JobStep(j) PROVE HandlingTracksJob'
    <3>1. CASE Execute(j)
      BY <2>3, <3>1 DEF Execute, Active
    <3>2. CASE Reply(j)
      BY <2>3, <3>2 DEF Reply, Active
    <3>3. CASE ReplyJoin(j)
      BY <2>3, <3>3 DEF ReplyJoin, Active
    <3>4. CASE ReplyAgain(j)
      BY <2>1, <3>4 DEF ReplyAgain
    <3>5. CASE ReplyAcked(j) \/ ReplyTimeout(j) \/ ReplyClosed(j)
      BY <2>2, <3>5 DEF ReplyAcked, ReplyTimeout, ReplyClosed, Active
    <3> QED
      BY <2>7, <3>1, <3>2, <3>3, <3>4, <3>5 DEF JobStep
  <2>8. CASE RecvAck
    BY <2>1, <2>8 DEF RecvAck
  <2>9. ASSUME NEW s \in {"cli", "hub"}, Cancel(s) PROVE HandlingTracksJob'
    BY <2>1, <2>9 DEF Cancel, jobVars
  <2>10. CASE UNCHANGED vars
    BY <2>1, <2>10 DEF vars, jobVars
  <2> QED
    BY <2>4, <2>5, <2>6, <2>7, <2>8, <2>9, <2>10 DEF Next, HubLoop
<1> QED
  BY <1>1, <1>2, Typed, PTL DEF Spec
-----------------------------------------------------------------------------
(* The entries of pendingResp.  A call that has not returned has no error  *)
(* yet, waits on its own channel unless it joined, and that channel is     *)
(* open until it calls.                                                    *)
PendingInv ==
    /\ PendingIsWaiting
    /\ \A c \in Callers : pc[c] # "done" => ret[c].err = Nil
    /\ \A c \in Callers : pc[c] \in {"idle", "own"} => waitOn[c] = c
    /\ \A c \in Callers : pc[c] = "idle" => ~fly[c].closed

LEMMA PendingInvariant == Spec => []PendingInv
<1> USE RequestReplyAssumption
<1>1. Init => PendingInv
  BY DEF Init, PendingInv, PendingIsWaiting, NewFly
<1>2. PendingInv /\ TypeOK /\ [Next]_vars => PendingInv'
  <2> SUFFICES ASSUME PendingInv, TypeOK, [Next]_vars PROVE PendingInv'
    OBVIOUS
  <2> USE DEF PendingInv, PendingIsWaiting
  <2>1. ASSUME UNCHANGED callVars PROVE PendingInv'
    BY <2>1 DEF callVars
  <2>2. ASSUME NEW c \in Callers, Call(c) PROVE PendingInv'
    BY <2>2 DEF Call, TypeOK
  <2>3. ASSUME NEW c \in Callers, Join(c) PROVE PendingInv'
    BY <2>3 DEF Join, TypeOK
  <2>4. ASSUME NEW c \in Callers, Retry(c) PROVE PendingInv'
    BY <2>4 DEF Retry
  <2>5. ASSUME NEW c \in Callers, TakeResult(c) PROVE PendingInv'
    BY <2>5 DEF TakeResult, Return, TypeOK
  <2>6. ASSUME NEW c \in Callers, CallClosed(c) PROVE PendingInv'
    BY <2>6 DEF CallClosed, Return, TypeOK
  <2>7. ASSUME NEW c \in Callers, TimeoutRetrying(c) PROVE PendingInv'
    <3>1. \A d \in Callers : d # c => fly'[d] = fly[d]
      BY <2>7 DEF TimeoutRetrying, TypeOK
    <3>2. pendingResp' = [pendingResp EXCEPT ![IdOf[c]] = Nil]
      BY <2>7 DEF TimeoutRetrying, LoadAndDelete
    <3>3. \A d \in Callers : d # c => pc'[d] = pc[d] /\ ret'[d] = ret[d]
      BY <2>7 DEF TimeoutRetrying, Return, TypeOK
    <3>4. pc'[c] = "done" /\ waitOn' = waitOn
      BY <2>7 DEF TimeoutRetrying, Return, TypeOK
    <3>5. \A i \in Ids : pendingResp'[i] # Nil => pendingResp'[i] = pendingResp[i] /\ pendingResp[i] # c
      BY <3>2 DEF TypeOK
    <3>6. \A i \in Ids : pendingResp[i] # Nil => pendingResp[i] \in Callers
      BY DEF TypeOK
    <3>7. PendingIsWaiting'
      BY <3>1, <3>3, <3>5, <3>6
    <3> QED
      BY <3>1, <3>3, <3>4, <3>7
  <2>8. ASSUME NEW c \in Callers, TimeoutOneShot(c) PROVE PendingInv'
    <3>1. \A d \in Callers : d # c => fly'[d] = fly[d]
      BY <2>8 DEF TimeoutOneShot, TypeOK
    <3>2. \A d \in Callers : d # c => pc'[d] = pc[d] /\ ret'[d] = ret[d]
      BY <2>8 DEF TimeoutOneShot, Return, TypeOK
    <3>3. /\ pc'[c] = "done" /\ ret'[c].err = "timeout" /\ c \notin Retrying
          /\ UNCHANGED <<waitOn, pendingResp>>
      BY <2>8 DEF TimeoutOneShot, Return, TypeOK
    <3>4. \A i \in Ids : pendingResp[i] # Nil => pendingResp[i] \in Callers
      BY DEF TypeOK
    <3>5. PendingIsWaiting'
      BY <3>1, <3>2, <3>3, <3>4
    <3> QED
      BY <3>1, <3>2, <3>3, <3>5
  <2>9. CASE Resolve
    <3> DEFINE o == pendingResp[rxMsg.id]
    <3>1. rxMsg.id \in Ids
      BY <2>9 DEF Resolve, TypeOK, Messages
    <3>2. pendingResp' = [pendingResp EXCEPT ![rxMsg.id] = Nil]
      BY <2>9 DEF Resolve, LoadAndDelete
    <3>3. UNCHANGED <<pc, waitOn, ret>>
      BY <2>9 DEF Resolve
    <3>4. \A d \in Callers : d # o => fly'[d] = fly[d]
      BY <2>9, <3>1 DEF Resolve, Owner, TypeOK
    <3>5. o # Nil => o \in Callers /\ IdOf[o] = rxMsg.id /\ pc[o] # "idle"
      <4>1. o # Nil => o \in Callers /\ IdOf[o] = rxMsg.id
        BY <3>1 DEF TypeOK
      <4>2. o # Nil => pc[o] = "own" \/ ret[o].err \in {"closed", "timeout"}
        BY <3>1
      <4> QED
        BY <4>1, <4>2
    <3>6. \A i \in Ids : pendingResp'[i] # Nil =>
             /\ pendingResp'[i] = pendingResp[i]
             /\ pendingResp[i] \in Callers
             /\ pendingResp[i] # o
      BY <3>1, <3>2, <3>5 DEF TypeOK
    <3>7. PendingIsWaiting'
      BY <3>3, <3>4, <3>6
    <3>8. \A d \in Callers : pc[d] = "idle" => d # o
      BY <3>5
    <3> QED
      BY <3>3, <3>4, <3>7, <3>8
  <2>10. CASE RecvResponse \/ RecvRequestAck
    BY <2>1, <2>10 DEF RecvResponse, RecvRequestAck
  <2>11. ASSUME NEW j \in Jobs, JobStep(j) PROVE PendingInv'
    BY <2>1, <2>11 DEF JobStep, Execute, Reply, ReplyJoin, ReplyAgain, ReplyAcked, ReplyTimeout,
                       ReplyClosed, Finish
  <2>12. CASE HubLoop
    BY <2>1, <2>12 DEF HubLoop, RecvRequest, RecvAck
  <2>13. ASSUME NEW s \in {"cli", "hub"}, Cancel(s) PROVE PendingInv'
    BY <2>1, <2>13 DEF Cancel
  <2>14. CASE UNCHANGED vars
    BY <2>1, <2>14 DEF vars
  <2> QED
    BY <2>2, <2>3, <2>4, <2>5, <2>6, <2>7, <2>8, <2>9, <2>10, <2>11, <2>12, <2>13, <2>14
       DEF Next, CallStep, CliLoop
<1> QED
  BY <1>1, <1>2, Typed, PTL DEF Spec

(* Only the calls of Request leave an entry of pendingResp behind, on      *)
(* their timeout; every other entry has an open channel and somebody who   *)
(* waits for it, or whose Client was disposed (client.go:336, 500, 551).   *)
THEOREM PendingEntriesWait == Spec => []PendingIsWaiting
<1>1. PendingInv => PendingIsWaiting
  BY DEF PendingInv
<1> QED
  BY <1>1, PendingInvariant, PTL

(* A channel is closed twice only after the timeout of a Request, or of a  *)
(* call whose packet another goroutine sends too (client.go:344, 500, 552).*)
THEOREM ClosedTwiceOnTimeout == Spec => []PanicNeedsTimeout
<1> USE RequestReplyAssumption
<1>1. Init => PanicNeedsTimeout
  BY DEF Init, PanicNeedsTimeout
<1>2. PanicNeedsTimeout /\ PendingInv /\ TypeOK /\ [Next]_vars => PanicNeedsTimeout'
  <2> SUFFICES ASSUME PanicNeedsTimeout, PendingInv, TypeOK, [Next]_vars PROVE PanicNeedsTimeout'
    OBVIOUS
  <2>1. ASSUME UNCHANGED <<panicked, ret>> PROVE PanicNeedsTimeout'
    BY <2>1 DEF PanicNeedsTimeout
  <2>2. ASSUME ~panicked, UNCHANGED panicked PROVE PanicNeedsTimeout'
    BY <2>2 DEF PanicNeedsTimeout
  <2>3. ASSUME NEW c \in Callers, CallStep(c) PROVE PanicNeedsTimeout'
    <3>1. CASE TimeoutRetrying(c)
      <4> SUFFICES ASSUME panicked' PROVE PanicNeedsTimeout'
        BY DEF PanicNeedsTimeout
      <4> DEFINE d == pendingResp[IdOf[c]]
      <4>1. d # Nil /\ fly[c].closed /\ c \in Retrying /\ ret'[c].err = "timeout"
        BY <3>1 DEF TimeoutRetrying, Loaded, Return, TypeOK
      <4>2. d \in Callers /\ IdOf[d] = IdOf[c] /\ d # c
        BY <4>1 DEF PendingInv, PendingIsWaiting, TypeOK
      <4> QED
        BY <4>1, <4>2 DEF PanicNeedsTimeout
    <3>2. CASE TimeoutOneShot(c)
      <4>1. c \notin Retrying /\ ret'[c].err = "timeout"
        BY <3>2 DEF TimeoutOneShot, Return, TypeOK
      <4> QED
        BY <4>1 DEF PanicNeedsTimeout
    <3>3. CASE Call(c) \/ Join(c) \/ Retry(c) \/ TakeResult(c) \/ CallClosed(c)
      BY <2>2, <2>3, <3>3 DEF CallStep, Call, Join, Retry, TakeResult, CallClosed
    <3> QED
      BY <2>3, <3>1, <3>2, <3>3 DEF CallStep
  <2>4. CASE Resolve
    <3> SUFFICES ASSUME panicked' PROVE PanicNeedsTimeout'
      BY DEF PanicNeedsTimeout
    <3> DEFINE c == pendingResp[rxMsg.id]
    <3>1. rxMsg.id \in Ids
      BY <2>4 DEF Resolve, TypeOK, Messages
    <3>2. c # Nil /\ fly[c].closed /\ ret' = ret
      BY <2>4 DEF Resolve, Owner
    <3>3. c \in Callers /\ c \notin Retrying /\ ret[c].err = "timeout"
      BY <3>1, <3>2 DEF PendingInv, PendingIsWaiting, TypeOK
    <3> QED
      BY <3>2, <3>3 DEF PanicNeedsTimeout
  <2>5. CASE RecvResponse \/ RecvRequestAck
    BY <2>1, <2>5 DEF RecvResponse, RecvRequestAck, callVars
  <2>6. ASSUME NEW j \in Jobs, JobStep(j) PROVE PanicNeedsTimeout'
    BY <2>1, <2>6 DEF JobStep, Execute, Reply, ReplyJoin, ReplyAgain, ReplyAcked, ReplyTimeout,
                      ReplyClosed, Finish, callVars
  <2>7. CASE HubLoop
    BY <2>1, <2>7 DEF HubLoop, RecvRequest, RecvAck, callVars
  <2>8. ASSUME NEW s \in {"cli", "hub"}, Cancel(s) PROVE PanicNeedsTimeout'
    BY <2>1, <2>8 DEF Cancel, callVars
  <2>9. CASE UNCHANGED vars
    BY <2>1, <2>9 DEF vars, callVars
  <2> QED
    BY <2>3, <2>4, <2>5, <2>6, <2>7, <2>8, <2>9 DEF Next, CliLoop
<1> QED
  BY <1>1, <1>2, Typed, PendingInvariant, PTL DEF Spec
-----------------------------------------------------------------------------
(* A one-shot request is nowhere before its call, and afterwards either on *)
(* its way, once, or executed, once, or lost.                              *)
Copy(m, i) == m.type = "req" /\ m.id = i

OneCopy(c) ==
    /\ pc[c] = "idle" => started[IdOf[c]] = 0
    /\ started[IdOf[c]] <= 1
    /\ \A k \in 1..Len(toHub) : Copy(toHub[k], IdOf[c]) =>
         /\ pc[c] # "idle"
         /\ started[IdOf[c]] = 0
         /\ \A l \in 1..Len(toHub) : Copy(toHub[l], IdOf[c]) => l = k

OneShotInv == \A c \in Callers \ Retrying : OneCopy(c)

(* Appending a packet that is not the request, or dropping it, adds no copy *)
LEMMA PutOther ==
    ASSUME NEW q \in Seq(Messages), NEW m \in Messages, NEW i \in Ids, ~Copy(m, i),
           NEW k \in 1..Len(Put(q, m)), Copy(Put(q, m)[k], i)
    PROVE  k \in 1..Len(q) /\ Copy(q[k], i)
BY DEF Put

LEMMA OneShotInvariant == Spec => []OneShotInv
<1> USE RequestReplyAssumption
<1>1. Init => OneShotInv
  <2> SUFFICES ASSUME Init, NEW c \in Callers PROVE OneCopy(c)
    BY DEF OneShotInv
  <2>1. Len(toHub) = 0 /\ IdOf[c] \in Ids
    BY DEF Init
  <2> QED
    BY <2>1 DEF Init, OneCopy
<1>2. OneShotInv /\ TypeOK /\ [Next]_vars => OneShotInv'
  <2> SUFFICES ASSUME OneShotInv, TypeOK, [Next]_vars, NEW o \in Callers \ Retrying PROVE OneCopy(o)'
    BY DEF OneShotInv
  <2> DEFINE i == IdOf[o]
  <2>0. /\ OneCopy(o) /\ i \in Ids /\ Req(i) \in Messages /\ Copy(Req(i), i) /\ o \in Callers
        /\ \A c \in Callers : c # o => IdOf[c] # i
    BY MessageTypes DEF OneShotInv, Copy, Req
  <2>1. ASSUME pc'[o] = pc[o] \/ pc'[o] # "idle", UNCHANGED <<started, toHub>> PROVE OneCopy(o)'
    BY <2>0, <2>1 DEF OneCopy
  <2>2. ASSUME NEW m \in Messages, ~Copy(m, i), toHub' = Put(toHub, m),
               pc'[o] = pc[o] \/ pc'[o] # "idle", UNCHANGED started
        PROVE  OneCopy(o)'
    <3>1. \A k \in 1..Len(toHub') : Copy(toHub'[k], i) => k \in 1..Len(toHub) /\ Copy(toHub[k], i)
      BY <2>0, <2>2, PutOther DEF TypeOK
    <3> QED
      BY <2>0, <2>2, <3>1 DEF OneCopy
  <2>3. ASSUME NEW c \in Callers, Call(c) PROVE OneCopy(o)'
    <3>1. CASE c = o
      <4>1. /\ toHub' = Put(toHub, Req(i)) /\ started' = started /\ pc'[o] = "own" /\ started[i] = 0
        BY <2>0, <2>3, <3>1 DEF Call, TypeOK, OneCopy, jobVars
      <4>2. \A k \in 1..Len(toHub) : ~Copy(toHub[k], i)
        BY <2>0, <2>3, <3>1 DEF Call, OneCopy
      <4>3. \A k, l \in 1..Len(toHub') : Copy(toHub'[k], i) /\ Copy(toHub'[l], i) => l = k
        BY <2>0, <4>1, <4>2 DEF Put, TypeOK
      <4> QED
        BY <2>0, <4>1, <4>3 DEF OneCopy
    <3>2. CASE c # o
      <4>1. ~Copy(Req(IdOf[c]), i) /\ Req(IdOf[c]) \in Messages
        BY <2>0, <3>2, MessageTypes DEF Req, Copy
      <4>2. pc'[o] = pc[o]
        BY <2>3, <3>2 DEF Call, TypeOK
      <4> QED
        BY <2>2, <2>3, <4>1, <4>2 DEF Call, jobVars
    <3> QED
      BY <3>1, <3>2
  <2>4. ASSUME NEW c \in Callers, Retry(c) PROVE OneCopy(o)'
    <3>1. c # o
      BY <2>4 DEF Retry, MayRetry
    <3>2. ~Copy(Req(IdOf[c]), i) /\ Req(IdOf[c]) \in Messages
      BY <2>0, <3>1, MessageTypes DEF Req, Copy
    <3> QED
      BY <2>2, <2>4, <3>2 DEF Retry, jobVars
  <2>5. ASSUME NEW c \in Callers, Join(c) PROVE OneCopy(o)'
    BY <2>1, <2>5 DEF Join, TypeOK, jobVars
  <2>6. ASSUME NEW c \in Callers,
               TakeResult(c) \/ CallClosed(c) \/ TimeoutRetrying(c) \/ TimeoutOneShot(c)
        PROVE  OneCopy(o)'
    BY <2>1, <2>6 DEF TakeResult, CallClosed, TimeoutRetrying, TimeoutOneShot, Return, TypeOK, jobVars
  <2>7. CASE RecvResponse
    <3>1. Head(toCli) \in Messages
      BY <2>7, TailType DEF RecvResponse, Next_, TypeOK
    <3>2. Ack(Head(toCli).id) \in Messages /\ ~Copy(Ack(Head(toCli).id), i)
      BY <3>1, MessageTypes DEF Messages, Ack, Copy
    <3> QED
      BY <2>2, <2>7, <3>2 DEF RecvResponse, callVars, jobVars
  <2>8. CASE Resolve \/ RecvRequestAck
    BY <2>1, <2>8 DEF Resolve, RecvRequestAck, callVars, jobVars
  <2>9. ASSUME toHub # <<>>, toHub' = Tail(toHub), pc' = pc,
               \/ started' = started
               \/ \E h \in Ids : /\ started' = [started EXCEPT ![h] = started[h] + 1]
                                  /\ Copy(Head(toHub), h)
        PROVE  OneCopy(o)'
    <3>1. /\ Len(toHub') = Len(toHub) - 1 /\ Len(toHub) \in Nat \ {0}
          /\ \A k \in 1..Len(toHub') : toHub'[k] = toHub[k + 1]
          /\ Head(toHub) = toHub[1]
      BY <2>9 DEF TypeOK
    <3>2. \A k \in 1..Len(toHub') : Copy(toHub'[k], i) =>
             /\ pc[o] # "idle" /\ started[i] = 0 /\ ~Copy(toHub[1], i)
             /\ \A l \in 1..Len(toHub') : Copy(toHub'[l], i) => l = k
      <4> SUFFICES ASSUME NEW k \in 1..Len(toHub'), Copy(toHub'[k], i)
                   PROVE  /\ pc[o] # "idle" /\ started[i] = 0 /\ ~Copy(toHub[1], i)
                          /\ \A l \in 1..Len(toHub') : Copy(toHub'[l], i) => l = k
        OBVIOUS
      <4>1. k + 1 \in 1..Len(toHub) /\ Copy(toHub[k + 1], i)
        BY <3>1
      <4>2. /\ pc[o] # "idle" /\ started[i] = 0
            /\ \A l \in 1..Len(toHub) : Copy(toHub[l], i) => l = k + 1
        BY <2>0, <4>1 DEF OneCopy
      <4>3. ~Copy(toHub[1], i)
        BY <3>1, <4>2
      <4>4. ASSUME NEW l \in 1..Len(toHub'), Copy(toHub'[l], i) PROVE l = k
        BY <3>1, <4>2, <4>4
      <4> QED
        BY <4>2, <4>3, <4>4
    <3>3. ~Copy(toHub[1], i) => started'[i] = started[i]
      BY <2>0, <2>9, <3>1 DEF TypeOK, Copy
    <3>4. Copy(toHub[1], i) => started[i] = 0 /\ pc[o] # "idle"
      BY <2>0, <3>1 DEF OneCopy
    <3>5. Copy(toHub[1], i) => started'[i] <= 1
      <4>1. ASSUME NEW h \in Ids, started' = [started EXCEPT ![h] = started[h] + 1], started[i] = 0
            PROVE  started'[i] <= 1
        BY <2>0, <4>1 DEF TypeOK
      <4> QED
        BY <2>9, <3>4, <4>1
    <3> QED
      BY <2>0, <2>9, <3>2, <3>3, <3>4, <3>5 DEF OneCopy
  <2>10. CASE RecvRequest
    <3>1. toHub # <<>> /\ toHub' = Tail(toHub) /\ pc' = pc /\ Head(toHub).type = "req"
      BY <2>10 DEF RecvRequest, Next_, callVars
    <3>2. Head(toHub).id \in Ids
      BY <3>1, TailType DEF TypeOK, Messages
    <3>3. CASE started' = started
      BY <2>9, <3>1, <3>3
    <3>4. CASE started' = [started EXCEPT ![Head(toHub).id] = started[Head(toHub).id] + 1]
      <4>1. Copy(Head(toHub), Head(toHub).id)
        BY <3>1 DEF Copy
      <4> QED
        BY <2>9, <3>1, <3>2, <3>4, <4>1
    <3> QED
      BY <2>10, <3>3, <3>4 DEF RecvRequest
  <2>11. CASE RecvAck
    BY <2>9, <2>11 DEF RecvAck, Next_, callVars
  <2>12. ASSUME NEW j \in Jobs, JobStep(j) PROVE OneCopy(o)'
    BY <2>1, <2>12 DEF JobStep, Execute, Reply, ReplyJoin, ReplyAgain, ReplyAcked, ReplyTimeout,
                       ReplyClosed, Finish, callVars
  <2>13. ASSUME NEW s \in {"cli", "hub"}, Cancel(s) PROVE OneCopy(o)'
    BY <2>1, <2>13 DEF Cancel, callVars, jobVars
  <2>14. CASE UNCHANGED vars
    BY <2>1, <2>14 DEF vars, callVars, jobVars
  <2> QED
    BY <2>3, <2>4, <2>5, <2>6, <2>7, <2>8, <2>10, <2>11, <2>12, <2>13, <2>14
       DEF Next, CallStep, CliLoop, HubLoop
<1> QED
  BY <1>1, <1>2, Typed, PTL DEF Spec

(* A request that is sent once is executed at most once: queues lose       *)
(* packets but never duplicate them, and Request never resends             *)
(* (client.go:476-503).                                                    *)
THEOREM OneShotOnce == Spec => []OneShotAtMostOnce
<1>1. OneShotInv => OneShotAtMostOnce
  BY DEF OneShotInv, OneCopy, OneShotAtMostOnce
<1> QED
  BY <1>1, OneShotInvariant, PTL
-----------------------------------------------------------------------------
(* The exchange as the abstract call of module Rpc.  What a call answers   *)
(* is what an execution for its id yielded, because nothing else ever gets *)
(* into a response, into the hands of the calling run loop, or into the    *)
(* flyPacket of a call of that id.                                         *)
In(q) == {q[k] : k \in 1..Len(q)}

Yields(i) == {out[j] : j \in {k \in Jobs : k[1] = i}} \ {Nil}

Called(i) == \E c \in Callers : IdOf[c] = i /\ pc[c] # "idle"

RequestsAreCalled == \A m \in In(toHub) : m.type = "req" => Called(m.id)

ResponsesAreYielded ==
    /\ \A m \in In(toCli) : m.type = "resp" => m.out \in Yields(m.id)
    /\ rxMsg # Nil => rxMsg.out \in Yields(rxMsg.id)

AnswersAreYielded ==
    \A c \in Callers :
        /\ fly[c].result \in Yields(IdOf[c]) \cup {Nil}
        /\ fly[c].err \in Yields(IdOf[c]) \cup {Nil, "timeout"}
        /\ fly[c].closed => fly[c].result # Nil \/ fly[c].err # Nil

CallsWait ==
    \A c \in Callers :
        /\ IdOf[waitOn[c]] = IdOf[c]
        /\ pc[c] # "done" => ret[c] = [result |-> Nil, err |-> Nil]

JobsYield ==
    \A j \in Jobs :
        /\ job[j] \in {"free", "exec"} => out[j] = Nil
        /\ job[j] \in {"reply", "wait"} => out[j] # Nil
        /\ job[j] # "free" => j[2] <= started[j[1]]

RpcInv ==
    /\ RequestsAreCalled
    /\ ResponsesAreYielded
    /\ AnswersAreYielded
    /\ CallsWait
    /\ JobsYield

LEMMA InMessages ==
    /\ In(<<>>) = {}
    /\ \A q \in Seq(Messages) : \A m \in In(q) : m \in Messages /\ m.id \in Ids
<1>1. In(<<>>) = {}
  BY DEF In
<1>2. ASSUME NEW q \in Seq(Messages), NEW m \in In(q) PROVE m \in Messages /\ m.id \in Ids
  <2>1. PICK k \in 1..Len(q) : m = q[k]
    BY DEF In
  <2>2. m \in Messages
    BY <2>1
  <2> QED
    BY <2>2 DEF Messages
<1> QED
  BY <1>1, <1>2

(* A queue gains at most the packet that is put, and loses its head *)
LEMMA PutIn ==
    ASSUME NEW q \in Seq(Messages), NEW m \in Messages
    PROVE  In(Put(q, m)) \subseteq In(q) \cup {m}
BY DEF Put, In

LEMMA TailIn ==
    ASSUME NEW q \in Seq(Messages), q # <<>>
    PROVE  In(Tail(q)) \subseteq In(q) /\ Head(q) \in In(q)
<1>1. Len(q) \in Nat \ {0} /\ Head(q) = q[1]
  OBVIOUS
<1>2. \A k \in 1..Len(Tail(q)) : k + 1 \in 1..Len(q) /\ Tail(q)[k] = q[k + 1]
  OBVIOUS
<1> QED
  BY <1>1, <1>2 DEF In

(* Only onReceiveRequest and the handler touch what an id has yielded      *)
(* (client.go:287-300): an execution adds its own outcome.                 *)
LEMMA YieldsGrow ==
    ASSUME TypeOK, JobsYield, NEW j \in Jobs, Execute(j)
    PROVE  \E o \in Outcomes :
             /\ o # Nil
             /\ out' = [out EXCEPT ![j] = o]
             /\ \A i \in Ids : Yields(i)' = Yields(i) \cup (IF i = j[1] THEN {o} ELSE {})
<1>1. PICK o \in Outcomes : out' = [out EXCEPT ![j] = o]
  BY DEF Execute
<1>2. o # Nil /\ out[j] = Nil
  BY RequestReplyAssumption DEF JobsYield, Execute
<1>3. \A k \in Jobs : out'[k] = IF k = j THEN o ELSE out[k]
  BY <1>1 DEF TypeOK
<1>4. \A i \in Ids : Yields(i)' = Yields(i) \cup (IF i = j[1] THEN {o} ELSE {})
  BY <1>2, <1>3 DEF Yields
<1> QED
  BY <1>1, <1>2, <1>4

LEMMA YieldsSame ==
    ASSUME out' = out, NEW i
    PROVE  Yields(i)' = Yields(i)
BY DEF Yields

LEMMA YieldsOf ==
    ASSUME TypeOK, NEW j \in Jobs, out[j] # Nil
    PROVE  out[j] \in Yields(j[1]) /\ j[1] \in Ids
BY DEF Yields, Jobs

LEMMA YieldsAreOutcomes ==
    ASSUME TypeOK, NEW i
    PROVE  Yields(i) \subseteq Outcomes
BY DEF Yields, TypeOK

(* The five parts, one at a time *)
LEMMA InitRpc == Init => RpcInv
<1> SUFFICES ASSUME Init PROVE RpcInv
  OBVIOUS
<1>1. AnswersAreYielded
  <2> SUFFICES ASSUME NEW c \in Callers
               PROVE  /\ fly[c].result \in Yields(IdOf[c]) \cup {Nil}
                      /\ fly[c].err \in Yields(IdOf[c]) \cup {Nil, "timeout"}
                      /\ fly[c].closed => fly[c].result # Nil \/ fly[c].err # Nil
    BY DEF AnswersAreYielded
  <2> QED
    BY DEF Init, NewFly
<1>2. CallsWait
  <2> SUFFICES ASSUME NEW c \in Callers
               PROVE  /\ IdOf[waitOn[c]] = IdOf[c]
                      /\ pc[c] # "done" => ret[c] = [result |-> Nil, err |-> Nil]
    BY DEF CallsWait
  <2> QED
    BY DEF Init
<1>3. JobsYield
  BY DEF Init, JobsYield
<1> QED
  BY InMessages, <1>1, <1>2, <1>3 DEF Init, RpcInv, RequestsAreCalled, ResponsesAreYielded

LEMMA CalledStays ==
    ASSUME TypeOK, [Next]_vars, NEW i, Called(i)
    PROVE  Called(i)'
<1>1. PICK c \in Callers : IdOf[c] = i /\ pc[c] # "idle"
  BY DEF Called
<1>2. ASSUME NEW d \in Callers, CallStep(d) PROVE pc'[c] # "idle"
  BY <1>1, <1>2 DEF CallStep, Call, Join, Retry, TakeResult, CallClosed, TimeoutRetrying,
                    TimeoutOneShot, Return, TypeOK
<1>3. ASSUME CliLoop PROVE pc'[c] # "idle"
  BY <1>1, <1>3 DEF CliLoop, RecvResponse, Resolve, RecvRequestAck, callVars
<1>4. ASSUME NEW j \in Jobs, JobStep(j) PROVE pc'[c] # "idle"
  BY <1>1, <1>4 DEF JobStep, Execute, Reply, ReplyJoin, ReplyAgain, ReplyAcked, ReplyTimeout,
                    ReplyClosed, Finish, callVars
<1>5. ASSUME HubLoop PROVE pc'[c] # "idle"
  BY <1>1, <1>5 DEF HubLoop, RecvRequest, RecvAck, callVars
<1>6. ASSUME NEW s \in {"cli", "hub"}, Cancel(s) PROVE pc'[c] # "idle"
  BY <1>1, <1>6 DEF Cancel, callVars
<1>7. ASSUME UNCHANGED vars PROVE pc'[c] # "idle"
  BY <1>1, <1>7 DEF vars, callVars
<1> QED
  BY <1>1, <1>2, <1>3, <1>4, <1>5, <1>6, <1>7 DEF Next, Called

(* A request on its way belongs to a call that has begun (client.go:476,   *)
(* 513): only calls put requests into the queue.                           *)
LEMMA NextRequests ==
    ASSUME TypeOK, RequestsAreCalled, [Next]_vars
    PROVE  RequestsAreCalled'
<1> USE RequestReplyAssumption
<1>0. toHub \in Seq(Messages)
  BY DEF TypeOK
<1>1. ASSUME In(toHub') \subseteq In(toHub) PROVE RequestsAreCalled'
  BY <1>1, CalledStays DEF RequestsAreCalled, In
<1>2. ASSUME NEW m \in Messages, toHub' = Put(toHub, m), m.type = "req" => Called(m.id)'
      PROVE  RequestsAreCalled'
  <2>1. In(toHub') \subseteq In(toHub) \cup {m}
    BY <1>0, <1>2, PutIn
  <2> QED
    BY <1>2, <2>1, CalledStays DEF RequestsAreCalled, In
<1>3. ASSUME NEW c \in Callers, CallStep(c) PROVE RequestsAreCalled'
  <2>1. CASE Call(c) \/ Retry(c)
    <3>1. IdOf[c] \in Ids /\ Req(IdOf[c]) \in Messages
      BY MessageTypes
    <3>2. toHub' = Put(toHub, Req(IdOf[c])) /\ pc'[c] # "idle"
      BY <2>1 DEF Call, Retry, TypeOK
    <3> QED
      BY <1>2, <3>1, <3>2 DEF Req, Called
  <2>2. CASE Join(c) \/ TakeResult(c) \/ CallClosed(c) \/ TimeoutRetrying(c) \/ TimeoutOneShot(c)
    BY <1>1, <2>2 DEF Join, TakeResult, CallClosed, TimeoutRetrying, TimeoutOneShot
  <2> QED
    BY <1>3, <2>1, <2>2 DEF CallStep
<1>4. CASE RecvResponse
  <2>1. toCli \in Seq(Messages) /\ toCli # <<>> /\ toHub' = Put(toHub, Ack(Head(toCli).id))
    BY <1>4 DEF RecvResponse, Next_, TypeOK
  <2>2. Head(toCli).id \in Ids
    BY <2>1, TailIn, InMessages
  <2>3. Ack(Head(toCli).id) \in Messages /\ Ack(Head(toCli).id).type # "req"
    BY <2>2, MessageTypes DEF Ack
  <2> QED
    BY <1>2, <2>1, <2>3
<1>5. CASE Resolve \/ RecvRequestAck
  BY <1>1, <1>5 DEF Resolve, RecvRequestAck
<1>6. ASSUME NEW j \in Jobs, JobStep(j) PROVE RequestsAreCalled'
  BY <1>1, <1>6 DEF JobStep, Execute, Reply, ReplyJoin, ReplyAgain, ReplyAcked, ReplyTimeout,
                    ReplyClosed, Finish
<1>7. CASE HubLoop
  <2>1. toHub # <<>> /\ toHub' = Tail(toHub)
    BY <1>7 DEF HubLoop, RecvRequest, RecvAck, Next_
  <2> QED
    BY <1>0, <1>1, <2>1, TailIn
<1>8. ASSUME NEW s \in {"cli", "hub"}, Cancel(s) PROVE RequestsAreCalled'
  BY <1>1, <1>8 DEF Cancel
<1>9. CASE UNCHANGED vars
  BY <1>1, <1>9 DEF vars
<1> QED
  BY <1>3, <1>4, <1>5, <1>6, <1>7, <1>8, <1>9 DEF Next, CliLoop

(* A response carries what an execution for its id yielded: the result of  *)
(* another id, or a result before the handler has returned, never gets     *)
(* into one (client.go:296-300, 380-388).                                  *)
LEMMA NextResponses ==
    ASSUME TypeOK, ResponsesAreYielded, JobsYield, [Next]_vars,
           \A i \in Ids : Yields(i) \subseteq Yields(i)'
    PROVE  ResponsesAreYielded'
<1> USE RequestReplyAssumption
<1>0. toCli \in Seq(Messages)
  BY DEF TypeOK
<1>1. ASSUME In(toCli') \subseteq In(toCli), rxMsg' \in {rxMsg, Nil} PROVE ResponsesAreYielded'
  <2>1. \A m \in In(toCli) : m.id \in Ids
    BY <1>0, InMessages
  <2>2. rxMsg # Nil => rxMsg.id \in Ids
    BY DEF TypeOK, Messages
  <2>3. \A m \in In(toCli') : m.type = "resp" => m.out \in Yields(m.id)'
    BY <1>1, <2>1 DEF ResponsesAreYielded
  <2> QED
    BY <1>1, <2>2, <2>3 DEF ResponsesAreYielded, In
<1>2. ASSUME NEW m \in Messages, toCli' = Put(toCli, m), rxMsg' = rxMsg,
             m.type = "resp" => m.out \in Yields(m.id)'
      PROVE  ResponsesAreYielded'
  <2>1. In(toCli)' \subseteq In(toCli) \cup {m}
    <3>1. In(toCli)' = In(Put(toCli, m))
      BY <1>2 DEF In
    <3> QED
      BY <1>0, <3>1, PutIn
  <2>2. \A k \in In(toCli) : k.id \in Ids
    BY <1>0, InMessages
  <2>3. rxMsg # Nil => rxMsg.id \in Ids
    BY DEF TypeOK, Messages
  <2>4. \A k \in In(toCli)' : k.type = "resp" => k.out \in Yields(k.id)'
    BY <1>2, <2>1, <2>2 DEF ResponsesAreYielded
  <2> QED
    BY <1>2, <2>3, <2>4 DEF ResponsesAreYielded
<1>3. ASSUME NEW c \in Callers, CallStep(c) PROVE ResponsesAreYielded'
  BY <1>1, <1>3 DEF CallStep, Call, Join, Retry, TakeResult, CallClosed, TimeoutRetrying, TimeoutOneShot
<1>4. CASE RecvResponse
  <2>1. toCli # <<>> /\ toCli' = Tail(toCli) /\ rxMsg' = Head(toCli) /\ Head(toCli).type = "resp"
    BY <1>4 DEF RecvResponse, Next_
  <2>2. In(Tail(toCli)) \subseteq In(toCli) /\ Head(toCli) \in In(toCli)
    BY <1>0, <2>1, TailIn
  <2>3. \A m \in In(toCli) : m.id \in Ids
    BY <1>0, InMessages
  <2>4. \A m \in In(toCli) : m.type = "resp" => m.out \in Yields(m.id)'
    BY <2>3 DEF ResponsesAreYielded
  <2>5. \A m \in In(toCli)' : m.type = "resp" => m.out \in Yields(m.id)'
    <3>1. In(toCli)' = In(Tail(toCli))
      BY <2>1 DEF In
    <3> QED
      BY <2>2, <2>4, <3>1
  <2> QED
    BY <2>1, <2>2, <2>4, <2>5 DEF ResponsesAreYielded
<1>5. CASE Resolve
  BY <1>1, <1>5 DEF Resolve
<1>6. CASE RecvRequestAck
  <2>1. toCli # <<>> /\ toCli' = Tail(toCli) /\ rxMsg' = rxMsg
    BY <1>6 DEF RecvRequestAck, Next_
  <2> QED
    BY <1>0, <1>1, <2>1, TailIn
<1>7. ASSUME NEW j \in Jobs, Reply(j) \/ ReplyAgain(j) PROVE ResponsesAreYielded'
  <2>1. toCli' = Put(toCli, Resp(j[1], out[j])) /\ out' = out /\ rxMsg' = rxMsg
    BY <1>7 DEF Reply, ReplyAgain
  <2>2. out[j] # Nil
    BY <1>7 DEF Reply, ReplyAgain, JobsYield
  <2>3. out[j] \in Yields(j[1])' /\ j[1] \in Ids
    BY <2>2, YieldsOf
  <2>4. Resp(j[1], out[j]) \in Messages
    BY <2>3, MessageTypes DEF TypeOK
  <2>5. Resp(j[1], out[j]).id = j[1] /\ Resp(j[1], out[j]).out = out[j]
    BY DEF Resp
  <2> QED
    BY <1>2, <2>1, <2>3, <2>4, <2>5
<1>8. ASSUME NEW j \in Jobs, Execute(j) \/ ReplyJoin(j) \/ ReplyAcked(j) \/ ReplyTimeout(j) \/ ReplyClosed(j)
      PROVE  ResponsesAreYielded'
  BY <1>1, <1>8 DEF Execute, ReplyJoin, ReplyAcked, ReplyTimeout, ReplyClosed, Finish
<1>9. CASE RecvRequest
  <2>1. Head(toHub).id \in Ids
    BY <1>9, TailType DEF RecvRequest, Next_, TypeOK, Messages
  <2>2. Ack(Head(toHub).id) \in Messages /\ Ack(Head(toHub).id).type # "resp"
    BY <2>1, MessageTypes DEF Ack
  <2>3. toCli' = Put(toCli, Ack(Head(toHub).id)) /\ rxMsg' = rxMsg
    BY <1>9 DEF RecvRequest
  <2> QED
    BY <1>2, <2>2, <2>3
<1>10. CASE RecvAck
  BY <1>1, <1>10 DEF RecvAck
<1>11. ASSUME NEW s \in {"cli", "hub"}, Cancel(s) PROVE ResponsesAreYielded'
  BY <1>1, <1>11 DEF Cancel
<1>12. CASE UNCHANGED vars
  BY <1>1, <1>12 DEF vars
<1> QED
  BY <1>3, <1>4, <1>5, <1>6, <1>7, <1>8, <1>9, <1>10, <1>11, <1>12 DEF Next, CliLoop, JobStep, HubLoop

(* A flyPacket gets a response for its own id or the timeout, and is       *)
(* closed with one of them (client.go:336-345, 500, 551).                  *)
LEMMA NextAnswers ==
    ASSUME TypeOK, PendingInv, AnswersAreYielded, ResponsesAreYielded, [Next]_vars,
           \A i \in Ids : Yields(i) \subseteq Yields(i)'
    PROVE  AnswersAreYielded'
<1> USE RequestReplyAssumption
<1> DEFINE Good(f, i) == /\ f.result \in Yields(i)' \cup {Nil}
                         /\ f.err \in Yields(i)' \cup {Nil, "timeout"}
                         /\ f.closed => f.result # Nil \/ f.err # Nil
<1>1. SUFFICES ASSUME NEW d \in Callers PROVE Good(fly'[d], IdOf[d])
  BY DEF AnswersAreYielded
<1>2. Good(fly[d], IdOf[d])
  BY DEF AnswersAreYielded
<1>3. ASSUME fly'[d] = fly[d] PROVE Good(fly'[d], IdOf[d])
  BY <1>2, <1>3
<1>4. fly[d] \in Flys
  BY DEF TypeOK
<1> HIDE DEF Good
<1>5. ASSUME NEW c \in Callers, TimeoutRetrying(c) PROVE Good(fly'[d], IdOf[d])
  <2>1. CASE c # d
    BY <1>3, <1>5, <2>1 DEF TimeoutRetrying, TypeOK
  <2>2. CASE c = d
    <3>1. PICK b \in BOOLEAN : fly'[d] = [fly[d] EXCEPT !.err = "timeout", !.closed = b]
      <4>1. fly'[d] = [fly[d] EXCEPT !.err = "timeout",
                                     !.closed = fly[d].closed \/ Loaded(pendingResp, IdOf[c])]
        BY <1>5, <2>2 DEF TimeoutRetrying, TypeOK
      <4>2. (fly[d].closed \/ Loaded(pendingResp, IdOf[c])) \in BOOLEAN
        OBVIOUS
      <4> QED
        BY <4>1, <4>2
    <3>2. fly'[d].result = fly[d].result /\ fly'[d].err = "timeout"
      BY <1>4, <3>1 DEF Flys
    <3> QED
      BY <1>2, <3>2 DEF Good
  <2> QED
    BY <2>1, <2>2
<1>6. ASSUME NEW c \in Callers, TimeoutOneShot(c) PROVE Good(fly'[d], IdOf[d])
  <2>1. CASE c # d
    BY <1>3, <1>6, <2>1 DEF TimeoutOneShot, TypeOK
  <2>2. CASE c = d
    <3>1. fly'[d] = [fly[d] EXCEPT !.err = "timeout", !.closed = TRUE]
      BY <1>6, <2>2 DEF TimeoutOneShot, TypeOK
    <3>2. fly'[d].result = fly[d].result /\ fly'[d].err = "timeout"
      BY <1>4, <3>1 DEF Flys
    <3> QED
      BY <1>2, <3>2 DEF Good
  <2> QED
    BY <2>1, <2>2
<1>7. CASE Resolve
  <2>0. PICK i \in Ids : i = rxMsg.id
    BY <1>7 DEF Resolve, TypeOK, Messages
  <2> DEFINE c == pendingResp[i]
  <2>1. rxMsg # Nil /\ i \in Ids /\ rxMsg.id = i
    BY <1>7, <2>0 DEF Resolve
  <2>2. CASE c # d
    BY <1>3, <1>7, <2>1, <2>2 DEF Resolve, Owner, TypeOK
  <2>3. CASE c = d
    <3>1. c # Nil /\ IdOf[d] = i
      BY <2>1, <2>3 DEF PendingInv, PendingIsWaiting
    <3>2. rxMsg.out \in Yields(i)'
      BY <2>1 DEF ResponsesAreYielded
    <3>3. rxMsg.out # Nil
      BY <3>2 DEF Yields
    <3>4. fly'[d] = [closed |-> TRUE,
                     result |-> IF rxMsg.out \in Failures THEN fly[d].result ELSE rxMsg.out,
                     err    |-> IF rxMsg.out \in Failures THEN rxMsg.out ELSE fly[d].err]
      BY <1>7, <2>1, <2>3, <3>1 DEF Resolve, Owner, TypeOK
    <3>5. CASE rxMsg.out \in Failures
      <4>1. fly'[d].result = fly[d].result /\ fly'[d].err = rxMsg.out
        BY <3>4, <3>5
      <4> QED
        BY <1>2, <3>1, <3>2, <3>3, <4>1 DEF Good
    <3>6. CASE rxMsg.out \notin Failures
      <4>1. fly'[d].result = rxMsg.out /\ fly'[d].err = fly[d].err
        BY <3>4, <3>6
      <4> QED
        BY <1>2, <3>1, <3>2, <3>3, <4>1 DEF Good
    <3> QED
      BY <3>5, <3>6
  <2> QED
    BY <2>2, <2>3
<1>8. ASSUME NEW c \in Callers,
             Call(c) \/ Join(c) \/ Retry(c) \/ TakeResult(c) \/ CallClosed(c)
      PROVE  Good(fly'[d], IdOf[d])
  BY <1>3, <1>8 DEF Call, Join, Retry, TakeResult, CallClosed
<1>9. ASSUME RecvResponse \/ RecvRequestAck PROVE Good(fly'[d], IdOf[d])
  BY <1>3, <1>9 DEF RecvResponse, RecvRequestAck, callVars
<1>10. ASSUME NEW j \in Jobs, JobStep(j) PROVE Good(fly'[d], IdOf[d])
  BY <1>3, <1>10 DEF JobStep, Execute, Reply, ReplyJoin, ReplyAgain, ReplyAcked, ReplyTimeout,
                     ReplyClosed, Finish, callVars
<1>11. ASSUME HubLoop PROVE Good(fly'[d], IdOf[d])
  BY <1>3, <1>11 DEF HubLoop, RecvRequest, RecvAck, callVars
<1>12. ASSUME NEW s \in {"cli", "hub"}, Cancel(s) PROVE Good(fly'[d], IdOf[d])
  BY <1>3, <1>12 DEF Cancel, callVars
<1>13. ASSUME UNCHANGED vars PROVE Good(fly'[d], IdOf[d])
  BY <1>3, <1>13 DEF vars, callVars
<1> QED
  BY <1>5, <1>6, <1>7, <1>8, <1>9, <1>10, <1>11, <1>12, <1>13 DEF Next, CallStep, CliLoop

(* A call waits on a channel of its own id, and returns once *)
LEMMA NextCalls ==
    ASSUME TypeOK, PendingInv, CallsWait, [Next]_vars
    PROVE  CallsWait'
<1> USE RequestReplyAssumption
<1>1. ASSUME UNCHANGED <<pc, waitOn, ret>> PROVE CallsWait'
  BY <1>1 DEF CallsWait
<1>2. ASSUME NEW c \in Callers, NEW r, NEW e, Return(c, r, e), UNCHANGED waitOn PROVE CallsWait'
  <2>1. pc'[c] = "done" /\ \A d \in Callers \ {c} : pc'[d] = pc[d]
    BY <1>2 DEF Return, TypeOK
  <2>2. ASSUME NEW d \in Callers \ {c} PROVE ret'[d] = ret[d]
    BY <1>2 DEF Return, TypeOK
  <2> QED
    BY <1>2, <2>1, <2>2 DEF CallsWait
<1>3. ASSUME NEW c \in Callers, Call(c) PROVE CallsWait'
  <2>1. pc[c] = "idle" /\ \A d \in Callers \ {c} : pc'[d] = pc[d]
    BY <1>3 DEF Call, TypeOK
  <2>2. UNCHANGED <<waitOn, ret>>
    BY <1>3 DEF Call
  <2> QED
    BY <2>1, <2>2 DEF CallsWait
<1>4. ASSUME NEW c \in Callers, Join(c) PROVE CallsWait'
  <2>1. pc[c] = "idle" /\ \A d \in Callers \ {c} : pc'[d] = pc[d]
    BY <1>4 DEF Join, TypeOK
  <2>2. UNCHANGED ret
    BY <1>4 DEF Join
  <2>3. IdOf[pendingResp[IdOf[c]]] = IdOf[c]
    BY <1>4 DEF Join, PendingInv, PendingIsWaiting
  <2>4. \A d \in Callers : waitOn'[d] = IF d = c THEN pendingResp[IdOf[c]] ELSE waitOn[d]
    BY <1>4 DEF Join, TypeOK
  <2> QED
    BY <2>1, <2>2, <2>3, <2>4 DEF CallsWait
<1>5. ASSUME NEW c \in Callers, TakeResult(c) PROVE CallsWait'
  BY <1>2, <1>5 DEF TakeResult
<1>6. ASSUME NEW c \in Callers, CallClosed(c) \/ TimeoutRetrying(c) \/ TimeoutOneShot(c) PROVE CallsWait'
  BY <1>2, <1>6 DEF CallClosed, TimeoutRetrying, TimeoutOneShot
<1>7. ASSUME NEW c \in Callers, Retry(c) PROVE CallsWait'
  BY <1>1, <1>7 DEF Retry
<1>8. CASE CliLoop
  BY <1>1, <1>8 DEF CliLoop, RecvResponse, Resolve, RecvRequestAck, callVars
<1>9. ASSUME NEW j \in Jobs, JobStep(j) PROVE CallsWait'
  BY <1>1, <1>9 DEF JobStep, Execute, Reply, ReplyJoin, ReplyAgain, ReplyAcked, ReplyTimeout,
                    ReplyClosed, Finish, callVars
<1>10. CASE HubLoop
  BY <1>1, <1>10 DEF HubLoop, RecvRequest, RecvAck, callVars
<1>11. ASSUME NEW s \in {"cli", "hub"}, Cancel(s) PROVE CallsWait'
  BY <1>1, <1>11 DEF Cancel, callVars
<1>12. CASE UNCHANGED vars
  BY <1>1, <1>12 DEF vars, callVars
<1> QED
  BY <1>3, <1>4, <1>5, <1>6, <1>7, <1>8, <1>9, <1>10, <1>11, <1>12 DEF Next, CallStep

(* A job yields exactly once, between its start and its first response *)
LEMMA NextJobs ==
    ASSUME TypeOK, JobsYield, [Next]_vars
    PROVE  JobsYield'
<1> USE RequestReplyAssumption
<1>1. ASSUME UNCHANGED <<job, out, started>> PROVE JobsYield'
  BY <1>1 DEF JobsYield
<1>2. ASSUME NEW j \in Jobs, NEW a \in {"wait", "join", "done"}, job' = [job EXCEPT ![j] = a],
             job[j] # "free", a = "wait" => job[j] = "reply", UNCHANGED <<out, started>>
      PROVE  JobsYield'
  <2>1. \A k \in Jobs : job'[k] = IF k = j THEN a ELSE job[k]
    BY <1>2 DEF TypeOK
  <2> QED
    BY <1>2, <2>1 DEF JobsYield
<1>3. ASSUME NEW j \in Jobs, Execute(j) PROVE JobsYield'
  <2>1. PICK o \in Outcomes : out' = [out EXCEPT ![j] = o]
    BY <1>3 DEF Execute
  <2>2. o # Nil /\ job[j] = "exec" /\ started' = started
    BY <1>3 DEF Execute
  <2>3. ASSUME NEW k \in Jobs
        PROVE  /\ out'[k] = IF k = j THEN o ELSE out[k]
               /\ job'[k] = IF k = j THEN "reply" ELSE job[k]
    BY <1>3, <2>1 DEF Execute, TypeOK
  <2> QED
    BY <2>2, <2>3 DEF JobsYield
<1>4. ASSUME NEW j \in Jobs, Reply(j) PROVE JobsYield'
  BY <1>2, <1>4 DEF Reply
<1>5. ASSUME NEW j \in Jobs, ReplyJoin(j) PROVE JobsYield'
  BY <1>2, <1>5 DEF ReplyJoin
<1>6. ASSUME NEW j \in Jobs, ReplyAgain(j) PROVE JobsYield'
  BY <1>1, <1>6 DEF ReplyAgain
<1>7. ASSUME NEW j \in Jobs, ReplyAcked(j) \/ ReplyTimeout(j) \/ ReplyClosed(j) PROVE JobsYield'
  <2>1. job[j] # "free" /\ Finish(j)
    BY <1>7 DEF ReplyAcked, ReplyTimeout, ReplyClosed
  <2> QED
    BY <1>2, <2>1 DEF Finish
<1>8. CASE RecvRequest
  <2> DEFINE i == Head(toHub).id
             n == started[i] + 1
  <2>1. i \in Ids /\ out' = out
    BY <1>8, TailType DEF RecvRequest, Next_, TypeOK, Messages
  <2>2. CASE UNCHANGED <<handlingReq, started, job>>
    BY <1>1, <2>1, <2>2
  <2>3. CASE /\ n <= MaxExec
             /\ started' = [started EXCEPT ![i] = n]
             /\ job' = [job EXCEPT ![<<i, n>>] = "exec"]
    <3>1. <<i, n>> \in Jobs /\ started[i] \in Nat
      BY <2>1, <2>3 DEF TypeOK, Jobs
    <3>2. \A k \in Jobs : job'[k] = IF k = <<i, n>> THEN "exec" ELSE job[k]
      BY <2>3 DEF TypeOK
    <3>3. \A h \in Ids : started'[h] = IF h = i THEN n ELSE started[h]
      BY <2>3 DEF TypeOK
    <3>4. job[<<i, n>>] = "free"
      BY <3>1 DEF JobsYield
    <3>5. \A k \in Jobs : k[1] \in Ids /\ k[2] \in Nat
      BY DEF Jobs
    <3>6. ASSUME NEW k \in Jobs, job'[k] # "free" PROVE k[2] <= started'[k[1]]
      <4>1. CASE k = <<i, n>>
        BY <2>1, <3>1, <3>3, <4>1
      <4>2. CASE k # <<i, n>>
        <5>1. k[2] <= started[k[1]] /\ started[k[1]] \in Nat
          BY <3>2, <3>5, <3>6, <4>2 DEF JobsYield, TypeOK
        <5> QED
          BY <3>1, <3>3, <3>5, <5>1
      <4> QED
        BY <4>1, <4>2
    <3>7. out[<<i, n>>] = Nil
      BY <3>1, <3>4 DEF JobsYield
    <3> QED
      BY <2>1, <3>2, <3>6, <3>7 DEF JobsYield
  <2> QED
    BY <1>8, <2>2, <2>3 DEF RecvRequest
<1>9. CASE RecvAck
  BY <1>1, <1>9 DEF RecvAck
<1>10. ASSUME NEW c \in Callers, CallStep(c) PROVE JobsYield'
  BY <1>1, <1>10 DEF CallStep, Call, Join, Retry, TakeResult, CallClosed, TimeoutRetrying,
                     TimeoutOneShot, jobVars
<1>11. CASE CliLoop
  BY <1>1, <1>11 DEF CliLoop, RecvResponse, Resolve, RecvRequestAck, jobVars
<1>12. ASSUME NEW s \in {"cli", "hub"}, Cancel(s) PROVE JobsYield'
  BY <1>1, <1>12 DEF Cancel, jobVars
<1>13. CASE UNCHANGED vars
  BY <1>1, <1>13 DEF vars, jobVars
<1> QED
  BY <1>3, <1>4, <1>5, <1>6, <1>7, <1>8, <1>9, <1>10, <1>11, <1>12, <1>13
     DEF Next, JobStep, HubLoop

LEMMA YieldsStay ==
    ASSUME TypeOK, JobsYield, [Next]_vars, NEW i \in Ids
    PROVE  Yields(i) \subseteq Yields(i)'
<1>1. ASSUME out' = out PROVE Yields(i) \subseteq Yields(i)'
  BY <1>1, YieldsSame
<1>2. ASSUME NEW j \in Jobs, Execute(j) PROVE Yields(i) \subseteq Yields(i)'
  BY <1>2, YieldsGrow
<1>3. ASSUME NEW c \in Callers, CallStep(c) PROVE Yields(i) \subseteq Yields(i)'
  BY <1>1, <1>3 DEF CallStep, Call, Join, Retry, TakeResult, CallClosed, TimeoutRetrying,
                    TimeoutOneShot, jobVars
<1>4. ASSUME CliLoop PROVE Yields(i) \subseteq Yields(i)'
  BY <1>1, <1>4 DEF CliLoop, RecvResponse, Resolve, RecvRequestAck, jobVars
<1>5. ASSUME NEW j \in Jobs, JobStep(j) PROVE Yields(i) \subseteq Yields(i)'
  BY <1>1, <1>2, <1>5 DEF JobStep, Reply, ReplyJoin, ReplyAgain, ReplyAcked, ReplyTimeout,
                          ReplyClosed, Finish
<1>6. ASSUME HubLoop PROVE Yields(i) \subseteq Yields(i)'
  BY <1>1, <1>6 DEF HubLoop, RecvRequest, RecvAck
<1>7. ASSUME NEW s \in {"cli", "hub"}, Cancel(s) PROVE Yields(i) \subseteq Yields(i)'
  BY <1>1, <1>7 DEF Cancel, jobVars
<1>8. ASSUME UNCHANGED vars PROVE Yields(i) \subseteq Yields(i)'
  BY <1>1, <1>8 DEF vars, jobVars
<1> QED
  BY <1>3, <1>4, <1>5, <1>6, <1>7, <1>8 DEF Next

LEMMA RpcInvariant == Spec => []RpcInv
<1>1. RpcInv /\ TypeOK /\ PendingInv /\ [Next]_vars => RpcInv'
  <2> SUFFICES ASSUME RpcInv, TypeOK, PendingInv, [Next]_vars PROVE RpcInv'
    OBVIOUS
  <2>1. /\ RequestsAreCalled /\ ResponsesAreYielded /\ AnswersAreYielded /\ CallsWait /\ JobsYield
        /\ \A i \in Ids : Yields(i) \subseteq Yields(i)'
    BY YieldsStay DEF RpcInv
  <2>2. RequestsAreCalled'
    BY <2>1, NextRequests
  <2>3. ResponsesAreYielded'
    BY <2>1, NextResponses
  <2>4. AnswersAreYielded'
    BY <2>1, NextAnswers
  <2>5. CallsWait'
    BY <2>1, NextCalls
  <2>6. JobsYield'
    BY <2>1, NextJobs
  <2> QED
    BY <2>2, <2>3, <2>4, <2>5, <2>6 DEF RpcInv
<1> QED
  BY <1>1, InitRpc, Typed, PendingInvariant, PTL DEF Spec

(* The refinement mapping, and the steps of Rpc in its terms *)
Phase    == [c \in Callers |-> IF pc[c] \in {"own", "join"} THEN "busy" ELSE pc[c]]
Answers  == [c \in Callers |-> RpcAnswer(c)]
Produced == [i \in Ids |-> Yields(i)]

LEMMA Stutters ==
    ASSUME UNCHANGED <<Phase, Answers, Produced, started>>
    PROVE  UNCHANGED Abstract!rpcVars
BY DEF Abstract!rpcVars, Phase, Answers, Produced, Yields

LEMMA Begins ==
    ASSUME NEW c \in Callers, Phase[c] = "idle", Phase' = [Phase EXCEPT ![c] = "busy"],
           UNCHANGED <<Answers, Produced, started>>
    PROVE  Abstract!Next
<1>1. Abstract!Begin(c)
  BY DEF Abstract!Begin, Phase, Answers, Produced, Yields
<1> QED
  BY <1>1 DEF Abstract!Next

LEMMA Returns ==
    ASSUME NEW c \in Callers, Phase[c] = "busy", Phase' = [Phase EXCEPT ![c] = "done"],
           NEW a \in Produced[IdOf[c]] \cup {"timeout", "closed"},
           Answers' = [Answers EXCEPT ![c] = a], UNCHANGED <<Produced, started>>
    PROVE  Abstract!Next
<1>1. Abstract!Return(c)
  BY DEF Abstract!Return, Phase, Answers, Produced, Yields
<1> QED
  BY <1>1 DEF Abstract!Next

LEMMA Runs ==
    ASSUME NEW i \in Ids, NEW c \in Callers, IdOf[c] = i, Phase[c] # "idle",
           started[i] = 0 \/ c \in Retrying, started' = [started EXCEPT ![i] = started[i] + 1],
           UNCHANGED <<Phase, Answers, Produced>>
    PROVE  Abstract!Next
<1>1. Abstract!Run(i)
  BY DEF Abstract!Run, Phase, Answers, Produced, Yields
<1> QED
  BY <1>1 DEF Abstract!Next

LEMMA Produces ==
    ASSUME NEW i \in Ids, NEW o \in Outcomes, started[i] > 0,
           Produced' = [Produced EXCEPT ![i] = Produced[i] \cup {o}],
           UNCHANGED <<Phase, Answers, started>>
    PROVE  Abstract!Next
<1>1. Abstract!Produce(i)
  BY DEF Abstract!Produce, Phase, Answers, Produced, Yields
<1> QED
  BY <1>1 DEF Abstract!Next

(* Every step is a step of Rpc or none: a call begins or returns, a copy   *)
(* of a request starts an execution, an execution yields.                  *)
LEMMA StepOfRpc ==
    ASSUME TypeOK, PendingInv, OneShotInv, RpcInv, [Next]_vars
    PROVE  Abstract!Next \/ UNCHANGED Abstract!rpcVars
<1> USE RequestReplyAssumption
<1>0. /\ \A c \in Callers : Phase[c] = IF pc[c] \in {"own", "join"} THEN "busy" ELSE pc[c]
      /\ RequestsAreCalled /\ AnswersAreYielded /\ CallsWait /\ JobsYield
  BY DEF Phase, RpcInv
<1>1. ASSUME UNCHANGED out PROVE UNCHANGED Produced
  BY <1>1 DEF Produced, Yields
<1>2. ASSUME UNCHANGED ret PROVE UNCHANGED Answers
  BY <1>2 DEF Answers, RpcAnswer
<1>3. ASSUME UNCHANGED pc PROVE UNCHANGED Phase
  BY <1>3 DEF Phase
<1>4. ASSUME UNCHANGED <<pc, ret, out, started>> PROVE UNCHANGED Abstract!rpcVars
  BY <1>1, <1>2, <1>3, <1>4, Stutters
<1>5. ASSUME NEW c \in Callers, pc[c] = "idle", NEW p \in {"own", "join"},
             pc' = [pc EXCEPT ![c] = p], UNCHANGED <<ret, out, started>>
      PROVE  Abstract!Next
  <2>1. \A d \in Callers : pc'[d] = IF d = c THEN p ELSE pc[d]
    BY <1>5 DEF TypeOK
  <2>2. Phase' = [Phase EXCEPT ![c] = "busy"] /\ Phase[c] = "idle"
    BY <1>5, <2>1 DEF Phase
  <2> QED
    BY <1>1, <1>2, <1>5, <2>2, Begins
<1>6. ASSUME NEW c \in Callers, pc[c] \in {"own", "join"}, NEW r, NEW e, Return(c, r, e),
             (IF e # Nil THEN e ELSE r) \in Yields(IdOf[c]) \cup {"timeout", "closed"},
             UNCHANGED <<out, started>>
      PROVE  Abstract!Next
  <2>1. \A d \in Callers : pc'[d] = IF d = c THEN "done" ELSE pc[d]
    BY <1>6 DEF Return, TypeOK
  <2>2. Phase' = [Phase EXCEPT ![c] = "done"] /\ Phase[c] = "busy"
    BY <1>6, <2>1 DEF Phase
  <2> DEFINE a == IF e # Nil THEN e ELSE r
  <2>3. Answers' = [Answers EXCEPT ![c] = a]
    <3>1. ret' = [ret EXCEPT ![c] = [result |-> r, err |-> e]]
      BY <1>6 DEF Return
    <3>2. ret'[c].result = r /\ ret'[c].err = e
      BY <3>1 DEF TypeOK
    <3>3. ASSUME NEW d \in Callers, d # c PROVE ret'[d] = ret[d]
      BY <3>1, <3>3 DEF TypeOK
    <3>4. RpcAnswer(c)' = a
      BY <3>2 DEF RpcAnswer
    <3>5. ASSUME NEW d \in Callers, d # c PROVE RpcAnswer(d)' = RpcAnswer(d)
      BY <3>3, <3>5 DEF RpcAnswer
    <3> QED
      BY <3>4, <3>5 DEF Answers
  <2>4. IdOf[c] \in Ids /\ a \in Produced[IdOf[c]] \cup {"timeout", "closed"}
    BY <1>6 DEF Produced
  <2> QED
    BY <1>1, <1>6, <2>2, <2>3, <2>4, Returns
<1>7. ASSUME NEW c \in Callers, CallStep(c) PROVE Abstract!Next \/ UNCHANGED Abstract!rpcVars
  <2>1. CASE Call(c)
    BY <1>5, <2>1 DEF Call, jobVars
  <2>2. CASE Join(c)
    BY <1>5, <2>2 DEF Join, jobVars
  <2>3. CASE Retry(c)
    BY <1>4, <2>3 DEF Retry, jobVars
  <2>4. CASE TakeResult(c)
    <3>1. PICK d \in Callers : d = waitOn[c] /\ IdOf[d] = IdOf[c]
      BY <1>0 DEF TypeOK, CallsWait
    <3>2. /\ fly[d].result \in Yields(IdOf[c]) \cup {Nil}
          /\ fly[d].err \in Yields(IdOf[c]) \cup {Nil, "timeout"}
          /\ fly[d].result # Nil \/ fly[d].err # Nil
      BY <1>0, <2>4, <3>1 DEF AnswersAreYielded, TakeResult
    <3>3. (IF fly[d].err # Nil THEN fly[d].err ELSE fly[d].result)
              \in Yields(IdOf[c]) \cup {"timeout", "closed"}
      BY <3>2
    <3>4. /\ pc[c] \in {"own", "join"} /\ Return(c, fly[d].result, fly[d].err)
          /\ UNCHANGED <<out, started>>
      BY <2>4, <3>1 DEF TakeResult, jobVars
    <3> QED
      BY <1>6, <3>3, <3>4
  <2>5. CASE CallClosed(c)
    <3>1. (IF "closed" # Nil THEN "closed" ELSE Nil) \in Yields(IdOf[c]) \cup {"timeout", "closed"}
      OBVIOUS
    <3>2. pc[c] \in {"own", "join"} /\ Return(c, Nil, "closed") /\ UNCHANGED <<out, started>>
      BY <2>5 DEF CallClosed, jobVars
    <3> QED
      BY <1>6, <3>1, <3>2
  <2>6. CASE TimeoutRetrying(c) \/ TimeoutOneShot(c)
    <3>1. (IF "timeout" # Nil THEN "timeout" ELSE Nil) \in Yields(IdOf[c]) \cup {"timeout", "closed"}
      OBVIOUS
    <3>2. pc[c] \in {"own", "join"} /\ Return(c, Nil, "timeout") /\ UNCHANGED <<out, started>>
      BY <2>6 DEF TimeoutRetrying, TimeoutOneShot, jobVars
    <3> QED
      BY <1>6, <3>1, <3>2
  <2> QED
    BY <1>7, <2>1, <2>2, <2>3, <2>4, <2>5, <2>6 DEF CallStep
<1>8. CASE CliLoop
  BY <1>4, <1>8 DEF CliLoop, RecvResponse, Resolve, RecvRequestAck, callVars, jobVars
<1>9. ASSUME NEW j \in Jobs, Execute(j) PROVE Abstract!Next
  <2>1. PICK o \in Outcomes : \A i \in Ids : Yields(i)' = Yields(i) \cup (IF i = j[1] THEN {o} ELSE {})
    BY <1>0, <1>9, YieldsGrow
  <2>2. j[1] \in Ids /\ j[2] \in 1..MaxExec /\ j[2] <= started[j[1]] /\ started[j[1]] \in Nat
    <3>1. j[1] \in Ids /\ j[2] \in 1..MaxExec
      BY DEF Jobs
    <3>2. job[j] = "exec" /\ started[j[1]] \in 0..MaxExec
      BY <1>9, <3>1 DEF Execute, TypeOK
    <3>3. j[2] <= started[j[1]]
      BY <1>0, <3>2 DEF JobsYield
    <3> QED
      BY <3>1, <3>2, <3>3
  <2>3. started[j[1]] > 0
    BY <2>2
  <2>4. Produced' = [Produced EXCEPT ![j[1]] = Produced[j[1]] \cup {o}]
    <3>1. \A i \in Ids : Yields(i)' = IF i = j[1] THEN Yields(i) \cup {o} ELSE Yields(i)
      BY <2>1
    <3>2. Produced[j[1]] = Yields(j[1])
      BY <2>2 DEF Produced
    <3> QED
      BY <2>2, <3>1, <3>2 DEF Produced
  <2>5. UNCHANGED <<Phase, Answers, started>>
    BY <1>2, <1>3, <1>9 DEF Execute, callVars
  <2> QED
    BY <2>2, <2>3, <2>4, <2>5, Produces
<1>10. ASSUME NEW j \in Jobs,
              Reply(j) \/ ReplyJoin(j) \/ ReplyAgain(j) \/ ReplyAcked(j) \/ ReplyTimeout(j) \/ ReplyClosed(j)
       PROVE  UNCHANGED Abstract!rpcVars
  BY <1>4, <1>10 DEF Reply, ReplyJoin, ReplyAgain, ReplyAcked, ReplyTimeout, ReplyClosed, Finish, callVars
<1>11. CASE RecvRequest
  <2>1. toHub # <<>> /\ Head(toHub).type = "req" /\ UNCHANGED <<pc, ret, out>>
    BY <1>11 DEF RecvRequest, Next_, callVars
  <2>2. toHub \in Seq(Messages) /\ Head(toHub) \in In(toHub) /\ Head(toHub) \in Messages
    BY <2>1, TailIn, TailType DEF TypeOK
  <2>3. PICK i \in Ids : i = Head(toHub).id
    BY <2>2 DEF Messages
  <2>4. CASE started' = started
    BY <1>4, <2>1, <2>4
  <2>5. CASE started' = [started EXCEPT ![i] = started[i] + 1]
    <3>1. PICK c \in Callers : IdOf[c] = i /\ pc[c] # "idle"
      BY <1>0, <2>1, <2>2, <2>3 DEF RequestsAreCalled, Called
    <3>2. c \notin Retrying => started[i] = 0
      <4>1. PICK k \in 1..Len(toHub) : toHub[k] = Head(toHub)
        BY <2>2 DEF In
      <4> QED
        BY <2>1, <2>3, <3>1, <4>1 DEF OneShotInv, OneCopy, Copy
    <3>3. Phase[c] # "idle"
      BY <1>0, <3>1
    <3>4. UNCHANGED <<Phase, Answers, Produced>>
      BY <1>1, <1>2, <1>3, <2>1
    <3> QED
      BY <2>5, <3>1, <3>2, <3>3, <3>4, Runs
  <2> QED
    BY <1>11, <2>3, <2>4, <2>5 DEF RecvRequest
<1>12. CASE RecvAck
  BY <1>4, <1>12 DEF RecvAck, callVars
<1>13. ASSUME NEW s \in {"cli", "hub"}, Cancel(s) PROVE UNCHANGED Abstract!rpcVars
  BY <1>4, <1>13 DEF Cancel, callVars, jobVars
<1>14. CASE UNCHANGED vars
  BY <1>4, <1>14 DEF vars, callVars, jobVars
<1> QED
  BY <1>7, <1>8, <1>9, <1>10, <1>11, <1>12, <1>13, <1>14 DEF Next, JobStep, HubLoop

(* The exchange is a remote call (client.go:287-345, 380-440, 476-560): a  *)
(* call returns once, with what an execution for its own id yielded, the   *)
(* timeout or the end of its Client, nothing is executed for a call that   *)
(* has not begun, and only a retried request more than once, although      *)
(* packets are repeated and lost and timeouts race with responses.         *)
THEOREM ImplementsTheRpc == Spec => ImplementsRpc
<1>1. Init => Abstract!Init
  <2> SUFFICES ASSUME Init PROVE Abstract!Init
    OBVIOUS
  <2>1. Phase = [c \in Callers |-> "idle"]
    BY DEF Init, Phase
  <2>2. Answers = [c \in Callers |-> Nil]
    BY DEF Init, Answers, RpcAnswer
  <2>3. Produced = [i \in Ids |-> {}]
    BY DEF Init, Produced, Yields
  <2>4. started = [i \in Ids |-> 0]
    BY DEF Init
  <2> QED
    BY <2>1, <2>2, <2>3, <2>4 DEF Abstract!Init, Phase, Answers, Produced, Yields
<1>2. TypeOK /\ PendingInv /\ OneShotInv /\ RpcInv /\ [Next]_vars => [Abstract!Next]_(Abstract!rpcVars)
  BY StepOfRpc
<1> QED
  BY <1>1, <1>2, Typed, PendingInvariant, OneShotInvariant, RpcInvariant, PTL
     DEF Spec, ImplementsRpc, Abstract!Spec
=============================================================================
