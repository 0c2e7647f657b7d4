---------------------------- MODULE RequestReply ----------------------------
(***************************************************************************)
(* The acknowledged request/response exchange of client.go between one     *)
(* Client object that calls ("cli") and the Client object at the other end *)
(* of the connection that serves ("hub").                                  *)
(*                                                                         *)
(*  - Callers are goroutines inside Request or RequestWithRetryByPacket.   *)
(*    A call owns a flyPacket, found through pendingResp, until a response *)
(*    or a timeout closes its resultBack channel; a call made for an id    *)
(*    that is already pending joins the owner and waits on that channel.   *)
(*  - A job is the goroutine onReceiveRequest starts: it executes the      *)
(*    handler and repeats the response until it is acked.  Job <<i, n>> is *)
(*    the n-th execution of request id i.                                  *)
(*  - Each side has one run loop, which handles the packets in order.      *)
(*                                                                         *)
(* A connection direction (tx queue, socket, peer's rxQueue) is one FIFO   *)
(* of TxQueueLen packets: SendMessage never blocks, a full queue drops.    *)
(***************************************************************************)
EXTENDS Naturals, Sequences

CONSTANTS
    Callers,     \* goroutines that make one call each
    Ids,         \* packet ids
    IdOf,        \* IdOf[c]: the id of the packet caller c sends
    Retrying,    \* callers of RequestWithRetryByPacket; the others call Request
    Outcomes,    \* what executing a handler may yield
    Failures,    \* the outcomes that are sent as ResponsePacket.Error
    Nil,         \* nil: no flyPacket, no job, no result, no error
    TxQueueLen,  \* capacity of one direction of the connection
    MaxSends,    \* bound: transmissions of one request
    MaxReplies,  \* bound: transmissions of one response
    MaxExec      \* bound: executions of one request id

(* Request always draws a fresh uuid, so nobody shares the id of its call; *)
(* RequestWithRetryByPacket takes the packet, and its id, from its caller. *)
ASSUME RequestReplyAssumption ==
    /\ IdOf \in [Callers -> Ids]
    /\ Retrying \subseteq Callers
    /\ Failures \subseteq Outcomes
    /\ Nil \notin Callers \cup Ids \cup Outcomes \cup (Ids \X Nat)
    /\ {"timeout", "closed"} \cap (Outcomes \cup {Nil}) = {}
    /\ {TxQueueLen, MaxSends, MaxReplies, MaxExec} \subseteq Nat \ {0}
    /\ \A c \in Callers \ Retrying : \A d \in Callers : IdOf[d] = IdOf[c] => d = c

Jobs == Ids \X (1..MaxExec)
Messages == [type : {"req", "ack", "resp"}, id : Ids, out : Outcomes \cup {Nil}]

VARIABLES
    pc,           \* caller: "idle", "own", "join" or "done"
    waitOn,       \* caller: the owner of the flyPacket it waits on
    fly,          \* flyPacket of the caller that owns it
    ret,          \* what the call has returned
    pendingResp,  \* id -> owner of the pending flyPacket
    callSends,    \* caller: how often it has sent its request
    rxMsg,        \* response the calling side's run loop has acked, not resolved
    panicked,     \* the calling process closed a closed channel
    job,          \* job: "free", "exec", "reply", "wait", "join" or "done"
    joined,       \* job: the job whose ackBack it waits on
    out,          \* job: what its execution yielded
    ackBack,      \* job: its ackBack channel is closed
    jobSends,     \* job: how often it has sent its response
    pendingAck,   \* id -> the job waiting for the ack of that id
    handlingReq,  \* ids in the map of requests being handled
    started,      \* id -> executions started
    ctx,          \* side -> "live" or "done"
    toHub, toCli  \* the two directions of the connection

callVars == <<pc, waitOn, fly, ret, pendingResp, callSends>>
jobVars  == <<job, joined, out, ackBack, jobSends, pendingAck, handlingReq, started>>
vars     == <<callVars, rxMsg, panicked, jobVars, ctx, toHub, toCli>>

Flys == [closed : BOOLEAN, result : Outcomes \cup {Nil}, err : Failures \cup {Nil, "timeout"}]
NewFly == [closed |-> FALSE, result |-> Nil, err |-> Nil]

TypeOK ==
    /\ pc \in [Callers -> {"idle", "own", "join", "done"}]
    /\ waitOn \in [Callers -> Callers]
    /\ fly \in [Callers -> Flys]
    /\ ret \in [Callers -> [result : Outcomes \cup {Nil},
                            err : Failures \cup {Nil, "timeout", "closed"}]]
    /\ pendingResp \in [Ids -> Callers \cup {Nil}]
    /\ callSends \in [Callers -> 0..MaxSends]
    /\ rxMsg \in Messages \cup {Nil}
    /\ panicked \in BOOLEAN
    /\ job \in [Jobs -> {"free", "exec", "reply", "wait", "join", "done"}]
    /\ joined \in [Jobs -> Jobs]
    /\ out \in [Jobs -> Outcomes \cup {Nil}]
    /\ ackBack \in [Jobs -> BOOLEAN]
    /\ jobSends \in [Jobs -> 0..MaxReplies]
    /\ pendingAck \in [Ids -> Jobs \cup {Nil}]
    /\ handlingReq \subseteq Ids
    /\ started \in [Ids -> 0..MaxExec]
    /\ ctx \in [{"cli", "hub"} -> {"live", "done"}]
    /\ toHub \in Seq(Messages) /\ Len(toHub) <= TxQueueLen
    /\ toCli \in Seq(Messages) /\ Len(toCli) <= TxQueueLen

Init ==
    /\ pc = [c \in Callers |-> "idle"]
    /\ waitOn = [c \in Callers |-> c]
    /\ fly = [c \in Callers |-> NewFly]
    /\ ret = [c \in Callers |-> [result |-> Nil, err |-> Nil]]
    /\ pendingResp = [i \in Ids |-> Nil]
    /\ callSends = [c \in Callers |-> 0]
    /\ rxMsg = Nil
    /\ panicked = FALSE
    /\ job = [j \in Jobs |-> "free"]
    /\ joined = [j \in Jobs |-> j]
    /\ out = [j \in Jobs |-> Nil]
    /\ ackBack = [j \in Jobs |-> FALSE]
    /\ jobSends = [j \in Jobs |-> 0]
    /\ pendingAck = [i \in Ids |-> Nil]
    /\ handlingReq = {}
    /\ started = [i \in Ids |-> 0]
    /\ ctx = [s \in {"cli", "hub"} |-> "live"]
    /\ toHub = <<>>
    /\ toCli = <<>>

-----------------------------------------------------------------------------
(* Packets *)

Req(i)     == [type |-> "req",  id |-> i, out |-> Nil]
Ack(i)     == [type |-> "ack",  id |-> i, out |-> Nil]
Resp(i, o) == [type |-> "resp", id |-> i, out |-> o]

(* mutant: the queue is not bounded *)
PutAlways(q, m) == Append(q, m)

(* SendMessage of a connection: a full queue drops the packet *)
Put(q, m) == IF Len(q) < TxQueueLen THEN Append(q, m) ELSE q

(* The run loop takes the next packet, which is of type t *)
Next_(q, t) == q # <<>> /\ Head(q).type = t

-----------------------------------------------------------------------------
(* The sync.Maps: Loaded tells whether LoadAndDelete found an entry *)

(* mutants: the result of LoadAndDelete is ignored, misread; Load is used *)
LoadedIgnored(m, i) == TRUE
LoadedNegated(m, i) == m[i] = Nil
LoadOnly(m, i) == m

Loaded(m, i) == m[i] # Nil

LoadAndDelete(m, i) == [m EXCEPT ![i] = Nil]

-----------------------------------------------------------------------------
(* The calling side *)

Return(c, r, e) ==
    /\ pc' = [pc EXCEPT ![c] = "done"]
    /\ ret' = [ret EXCEPT ![c] = [result |-> r, err |-> e]]

(* LoadOrStore on pendingResp finds nothing: the call owns a new flyPacket *)
Call(c) ==
    /\ pc[c] = "idle"
    /\ pendingResp[IdOf[c]] = Nil
    /\ pc' = [pc EXCEPT ![c] = "own"]
    /\ pendingResp' = [pendingResp EXCEPT ![IdOf[c]] = c]
    /\ toHub' = Put(toHub, Req(IdOf[c]))
    /\ callSends' = [callSends EXCEPT ![c] = 1]
    /\ UNCHANGED <<waitOn, fly, ret, rxMsg, panicked, jobVars, ctx, toCli>>

(* The id is pending already: wait for the owner's result, send nothing *)
Join(c) ==
    /\ pc[c] = "idle"
    /\ pendingResp[IdOf[c]] # Nil
    /\ pc' = [pc EXCEPT ![c] = "join"]
    /\ waitOn' = [waitOn EXCEPT ![c] = pendingResp[IdOf[c]]]
    /\ UNCHANGED <<fly, ret, pendingResp, callSends, rxMsg, panicked, jobVars, ctx, toHub, toCli>>

(* mutant: Request retries too *)
RetryAll(c) == TRUE

(* Only RequestWithRetryByPacket has a case for RetryInterval *)
MayRetry(c) == c \in Retrying

(* RetryInterval elapsed.  The branch that reads request.ackBack never     *)
(* runs: only flyPackets in pendingAck get theirs closed, and a request's  *)
(* is in pendingResp.                                                      *)
Retry(c) ==
    /\ pc[c] = "own" /\ MayRetry(c)
    /\ callSends[c] < MaxSends
    /\ toHub' = Put(toHub, Req(IdOf[c]))
    /\ callSends' = [callSends EXCEPT ![c] = @ + 1]
    /\ UNCHANGED <<pc, waitOn, fly, ret, pendingResp, rxMsg, panicked, jobVars, ctx, toCli>>

(* resultBack is closed *)
TakeResult(c) ==
    /\ pc[c] \in {"own", "join"}
    /\ fly[waitOn[c]].closed
    /\ Return(c, fly[waitOn[c]].result, fly[waitOn[c]].err)
    /\ UNCHANGED <<waitOn, fly, pendingResp, callSends, rxMsg, panicked, jobVars, ctx, toHub, toCli>>

(* ctx.Done(): the pendingResp entry stays *)
CallClosed(c) ==
    /\ pc[c] \in {"own", "join"}
    /\ ctx["cli"] = "done"
    /\ Return(c, Nil, "closed")
    /\ UNCHANGED <<waitOn, fly, pendingResp, callSends, rxMsg, panicked, jobVars, ctx, toHub, toCli>>

(* WaitTimeout in RequestWithRetryByPacket: whoever takes the entry out of *)
(* pendingResp closes the channel.  The entry is found by id.              *)
TimeoutRetrying(c) ==
    /\ pc[c] = "own" /\ c \in Retrying
    /\ LET loaded == Loaded(pendingResp, IdOf[c]) IN
         /\ fly' = [fly EXCEPT ![c].err = "timeout", ![c].closed = @ \/ loaded]
         /\ panicked' = (loaded /\ fly[c].closed)
    /\ pendingResp' = LoadAndDelete(pendingResp, IdOf[c])
    /\ Return(c, Nil, "timeout")
    /\ UNCHANGED <<waitOn, callSends, rxMsg, jobVars, ctx, toHub, toCli>>

(* WaitTimeout in Request: closes the channel, leaves the entry *)
TimeoutOneShot(c) ==
    /\ pc[c] = "own" /\ c \notin Retrying
    /\ fly' = [fly EXCEPT ![c].err = "timeout", ![c].closed = TRUE]
    /\ panicked' = fly[c].closed
    /\ Return(c, Nil, "timeout")
    /\ UNCHANGED <<waitOn, pendingResp, callSends, rxMsg, jobVars, ctx, toHub, toCli>>

(* mutant: responses are matched to pending calls in any order, not by id *)
AnyOwner(i) == IF \E c \in Callers : pc[c] = "own" THEN CHOOSE c \in Callers : pc[c] = "own" ELSE Nil

Owner(i) == pendingResp[i]

(* onReceiveResponse, first half: the ack goes out ... *)
RecvResponse ==
    /\ rxMsg = Nil /\ Next_(toCli, "resp")
    /\ rxMsg' = Head(toCli)
    /\ toCli' = Tail(toCli)
    /\ toHub' = Put(toHub, Ack(Head(toCli).id))
    /\ UNCHANGED <<callVars, panicked, jobVars, ctx>>

(* ... and then LoadAndDelete, and close(resultBack) if there was an entry *)
Resolve ==
    /\ rxMsg # Nil
    /\ LET c == Owner(rxMsg.id) IN
         /\ fly' = IF c = Nil THEN fly ELSE
                   [fly EXCEPT ![c] =
                      [closed |-> TRUE,
                       result |-> IF rxMsg.out \in Failures THEN @.result ELSE rxMsg.out,
                       err    |-> IF rxMsg.out \in Failures THEN rxMsg.out ELSE @.err]]
         /\ panicked' = (c # Nil /\ fly[c].closed)
    /\ pendingResp' = LoadAndDelete(pendingResp, rxMsg.id)
    /\ rxMsg' = Nil
    /\ UNCHANGED <<pc, waitOn, ret, callSends, jobVars, ctx, toHub, toCli>>

(* onReceiveAck on the calling side: a request is not in pendingAck, so    *)
(* nothing happens.                                                        *)
RecvRequestAck ==
    /\ rxMsg = Nil /\ Next_(toCli, "ack")
    /\ toCli' = Tail(toCli)
    /\ UNCHANGED <<callVars, rxMsg, panicked, jobVars, ctx, toHub>>

-----------------------------------------------------------------------------
(* The serving side *)

(* onReceiveRequest: ack every copy; start a job if LoadOrStore stored *)
RecvRequest ==
    /\ Next_(toHub, "req")
    /\ LET i == Head(toHub).id
           n == started[i] + 1 IN
         /\ toCli' = Put(toCli, Ack(i))
         /\ \/ /\ i \in handlingReq
               /\ UNCHANGED <<handlingReq, started, job>>
            \/ /\ i \notin handlingReq
               /\ n <= MaxExec
               /\ handlingReq' = handlingReq \cup {i}
               /\ started' = [started EXCEPT ![i] = n]
               /\ job' = [job EXCEPT ![<<i, n>>] = "exec"]
    /\ toHub' = Tail(toHub)
    /\ UNCHANGED <<callVars, rxMsg, panicked, joined, out, ackBack, jobSends, pendingAck, ctx>>

(* The handler returns, fails or panics; the job builds the response *)
Execute(j) ==
    /\ job[j] = "exec"
    /\ \E o \in Outcomes : out' = [out EXCEPT ![j] = o]
    /\ job' = [job EXCEPT ![j] = "reply"]
    /\ UNCHANGED <<callVars, rxMsg, panicked, joined, ackBack, jobSends, pendingAck, handlingReq,
                   started, ctx, toHub, toCli>>

(* SendPacketWithRetry(resp) finds no other waiter for this id ... *)
Reply(j) ==
    /\ job[j] = "reply"
    /\ pendingAck[j[1]] = Nil
    /\ pendingAck' = [pendingAck EXCEPT ![j[1]] = j]
    /\ toCli' = Put(toCli, Resp(j[1], out[j]))
    /\ jobSends' = [jobSends EXCEPT ![j] = 1]
    /\ job' = [job EXCEPT ![j] = "wait"]
    /\ UNCHANGED <<callVars, rxMsg, panicked, joined, out, ackBack, handlingReq, started, ctx, toHub>>

(* ... or finds one: it sends nothing and waits for that one's ack.  No    *)
(* timeout and no ctx.Done() ends this wait.                               *)
ReplyJoin(j) ==
    /\ job[j] = "reply"
    /\ pendingAck[j[1]] # Nil
    /\ joined' = [joined EXCEPT ![j] = pendingAck[j[1]]]
    /\ job' = [job EXCEPT ![j] = "join"]
    /\ UNCHANGED <<callVars, rxMsg, panicked, out, ackBack, jobSends, pendingAck, handlingReq,
                   started, ctx, toHub, toCli>>

ReplyAgain(j) ==
    /\ job[j] = "wait"
    /\ jobSends[j] < MaxReplies
    /\ toCli' = Put(toCli, Resp(j[1], out[j]))
    /\ jobSends' = [jobSends EXCEPT ![j] = @ + 1]
    /\ UNCHANGED <<callVars, rxMsg, panicked, job, joined, out, ackBack, pendingAck, handlingReq,
                   started, ctx, toHub>>

(* mutant: the id stays in handlingReq *)
FinishKeepsId(j) ==
    /\ job' = [job EXCEPT ![j] = "done"]
    /\ UNCHANGED <<handlingReq, callVars, rxMsg, panicked, joined, out, jobSends, started, ctx, toHub, toCli>>

(* The deferred handlingReq.Delete ends the job *)
Finish(j) ==
    /\ job' = [job EXCEPT ![j] = "done"]
    /\ handlingReq' = handlingReq \ {j[1]}
    /\ UNCHANGED <<callVars, rxMsg, panicked, joined, out, jobSends, started, ctx, toHub, toCli>>

ReplyAcked(j) ==
    /\ job[j] \in {"wait", "join"}
    /\ ackBack[joined[j]]
    /\ Finish(j)
    /\ UNCHANGED <<ackBack, pendingAck>>

(* mutant: the timer is re-armed by every retry, and never fires *)
ReplyTimerRearmed(j) == FALSE

(* WaitTimeout: close ackBack if the entry was still there *)
ReplyTimeout(j) ==
    /\ job[j] = "wait"
    /\ ackBack' = [ackBack EXCEPT ![j] = @ \/ pendingAck[j[1]] # Nil]
    /\ pendingAck' = LoadAndDelete(pendingAck, j[1])
    /\ Finish(j)

(* ctx.Done(): the pendingAck entry stays *)
ReplyClosed(j) ==
    /\ job[j] = "wait"
    /\ ctx["hub"] = "done"
    /\ Finish(j)
    /\ UNCHANGED <<ackBack, pendingAck>>

(* onReceiveAck on the serving side *)
RecvAck ==
    /\ Next_(toHub, "ack")
    /\ LET i == Head(toHub).id IN
         /\ ackBack' = IF pendingAck[i] = Nil THEN ackBack
                       ELSE [ackBack EXCEPT ![pendingAck[i]] = TRUE]
         /\ pendingAck' = LoadAndDelete(pendingAck, i)
    /\ toHub' = Tail(toHub)
    /\ UNCHANGED <<callVars, rxMsg, panicked, job, joined, out, jobSends, handlingReq, started, ctx, toCli>>

-----------------------------------------------------------------------------
(* Dispose cancels the context of one side.  Its run loop may still handle *)
(* packets: select picks among the ready cases.                            *)
Cancel(s) ==
    /\ ctx[s] = "live"
    /\ ctx' = [ctx EXCEPT ![s] = "done"]
    /\ UNCHANGED <<callVars, rxMsg, panicked, jobVars, toHub, toCli>>

CallStep(c) ==
    /\ ~panicked
    /\ \/ Call(c) \/ Join(c) \/ Retry(c) \/ TakeResult(c) \/ CallClosed(c)
       \/ TimeoutRetrying(c) \/ TimeoutOneShot(c)

CliLoop == ~panicked /\ (RecvResponse \/ Resolve \/ RecvRequestAck)

JobStep(j) ==
    \/ Execute(j) \/ Reply(j) \/ ReplyJoin(j) \/ ReplyAgain(j)
    \/ ReplyAcked(j) \/ ReplyTimeout(j) \/ ReplyClosed(j)

HubLoop == RecvRequest \/ RecvAck

Next ==
    \/ \E c \in Callers : CallStep(c)
    \/ CliLoop
    \/ \E j \in Jobs : JobStep(j)
    \/ HubLoop
    \/ \E s \in {"cli", "hub"} : Cancel(s)

Spec == Init /\ [][Next]_vars

(* Timers fire, woken goroutines run, a run loop finishes the packet it is *)
(* handling, and handlers return.  Nothing is assumed of the transport.    *)
Fairness ==
    /\ \A c \in Callers :
         WF_vars(~panicked /\ (TakeResult(c) \/ CallClosed(c) \/ TimeoutRetrying(c) \/ TimeoutOneShot(c)))
    /\ WF_vars(~panicked /\ Resolve)
    /\ \A j \in Jobs :
         /\ WF_vars(Execute(j))
         /\ WF_vars(Reply(j) \/ ReplyJoin(j))
         /\ WF_vars(ReplyAcked(j) \/ ReplyTimeout(j) \/ ReplyClosed(j))

FairSpec == Spec /\ Fairness

-----------------------------------------------------------------------------
(* Safety *)

Active == {"exec", "reply", "wait", "join"}

(* At any time at most one goroutine works on a request id, and the id is  *)
(* in handlingReq exactly as long: a retransmitted request that arrives    *)
(* meanwhile must find it there (client.go:291), and a request that comes  *)
(* after the deferred Delete (client.go:293) must not.                     *)
HandlingTracksJob ==
    /\ \A j \in Jobs : job[j] \in Active => j[1] \in handlingReq
    /\ \A i \in handlingReq : \E n \in 1..MaxExec : job[<<i, n>>] \in Active
    /\ \A j, k \in Jobs : j[1] = k[1] /\ job[j] \in Active /\ job[k] \in Active => j = k

(* An entry of pendingResp belongs to a call that still waits for it, or   *)
(* that left because its Client was disposed, and its channel is open; or  *)
(* to a call of Request that timed out.  Neither a response nor the        *)
(* timeout of RequestWithRetryByPacket leaves an entry behind              *)
(* (client.go:336, 551).                                                   *)
PendingIsWaiting ==
    \A i \in Ids : LET c == pendingResp[i] IN
        c # Nil => /\ IdOf[c] = i
                   /\ \/ (pc[c] = "own" \/ ret[c].err = "closed") /\ ~fly[c].closed
                      \/ c \notin Retrying /\ ret[c].err = "timeout"

(* The comment on Request: "send the request, wait for the reply or the    *)
(* timeout" (client.go:475); the response, the timeout and the owner race  *)
(* for one channel, and a second close would end the process.              *)
NoPanic == ~panicked

(* The same race, as far as the code wins it (client.go:336, 551): a       *)
(* channel is closed twice only after the timeout of a Request, or of a    *)
(* call whose packet another goroutine sends too.                          *)
PanicNeedsTimeout ==
    panicked => \E c \in Callers :
        /\ ret[c].err = "timeout"
        /\ c \in Retrying => \E d \in Callers \ {c} : IdOf[d] = IdOf[c]

(* A request that is sent once is executed at most once, whatever the      *)
(* responder does with its copies and whoever restarts.                    *)
OneShotAtMostOnce ==
    \A c \in Callers \ Retrying : started[IdOf[c]] <= 1

-----------------------------------------------------------------------------
(* Liveness *)

(* Every call returns: with a response, with the timeout or because the    *)
(* Client was disposed (select of Request and RequestWithRetryByPacket).   *)
AllCallsReturn ==
    \A c \in Callers : pc[c] \in {"own", "join"} ~> pc[c] = "done" \/ panicked

(* Every job ends and gives its id free, as long as the serving Client is  *)
(* not disposed: SendPacketWithRetry returns on the ack or on the timeout. *)
JobsEnd ==
    \A j \in Jobs : job[j] \in Active ~> job[j] = "done" \/ ctx["hub"] = "done"

-----------------------------------------------------------------------------
(* What the exchange promises: module Rpc *)

RpcAnswer(c) == IF ret[c].err # Nil THEN ret[c].err ELSE ret[c].result

Abstract == INSTANCE Rpc WITH
    phase    <- [c \in Callers |-> IF pc[c] \in {"own", "join"} THEN "busy" ELSE pc[c]],
    answer   <- [c \in Callers |-> RpcAnswer(c)],
    produced <- [i \in Ids |-> {out[j] : j \in {k \in Jobs : k[1] = i}} \ {Nil}],
    runs     <- started

(* The exchange implements the abstract call of module Rpc *)
ImplementsRpc == Abstract!Spec

=============================================================================
