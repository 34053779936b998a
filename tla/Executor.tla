------------------------------ MODULE Executor ------------------------------
(***************************************************************************)
(* One pipeline's executor (src/internal/pipeline/executor.go): the        *)
(* workers that Run starts, each looping through processOne -              *)
(*   receive -> stages -> breaker gate -> dedup gate -> send -> record ->  *)
(*   publish -> (DLQ) -> (shadow) -> commit or nack -                      *)
(* over the source broker, the destinations, the DLQ table, the dedup      *)
(* table and the breaker they share.  A step is the code between two       *)
(* points where another worker, the broker or a crash can intervene.       *)
(*                                                                         *)
(* The source broker is an acknowledging one (RabbitMQ, JetStream, AMQP    *)
(* 1.0, IBM MQ): a delivery stays on the worker's connection until it is   *)
(* acked, nacked or the connection is lost.  Kafka's cumulative offsets    *)
(* and the brokers without acks do not fit this and are not meant here.    *)
(*                                                                         *)
(* `faults' counts everything that goes wrong: failed calls, lost acks,    *)
(* lost connections, cancellations and crashes; MaxFaults bounds it.       *)
(***************************************************************************)
EXTENDS Breaker, Sequences, FiniteSets

CONSTANTS Msgs,         \* messages of the source queue
          Dests,        \* destination connections
          Route,        \* Msgs -> Seq(Dests): Result.Destinations, or <<default>>
          Payload,      \* Msgs -> payload after the stages
          Poison,       \* messages on which a stage fails
          Sampled,      \* payloads for which shadowSampleHit holds
          DedupOn,      \* DedupWindowSeconds > 0 and a Deduper is installed
          NoMsg,        \* no delivery in hand
          MaxFaults,    \* bound on faults
          MaxLapses     \* bound on dedup rows that expire, per payload

Payloads == {Payload[m] : m \in Msgs}

ASSUME RouteAssumption ==
  /\ Route \in [Msgs -> Seq(Dests)]
  /\ \A m \in Msgs : Len(Route[m]) > 0
  /\ \A m \in Msgs : \A i, j \in 1..Len(Route[m]) :
        Route[m][i] = Route[m][j] => i = j
ASSUME MsgsAssumption == NoMsg \notin Msgs
ASSUME SetsAssumption ==
  /\ Poison \subseteq Msgs
  /\ Sampled \subseteq Payloads
  /\ DedupOn \in BOOLEAN
ASSUME BoundsAssumption == MaxFaults \in Nat /\ MaxLapses \in Nat

VARIABLES
  queued,       \* source broker: messages ready for delivery
  unacked,      \* source broker: deliveries outstanding per worker connection
  pc,           \* where each worker is in runWorker / processOne
  cur,          \* processOne's `message'
  idx,         \* index into routeResult.Destinations of the forward loop
  sendErr,      \* processOne's sendErr # nil
  snap,         \* state token read by publishBreakerState
  circuit,      \* Manager.breakerState for this pipeline
  copies,       \* copies[m][d]: deliveries of m that reached destination d
  dlq,          \* dlq[m]: rows of the DLQ table that hold m
  shadow,       \* messages that reached the shadow destination
  seen,         \* payloads with a live pipeline_dedup row
  lapses,       \* per payload: dedup rows expired and checks that failed
  ctxDone,      \* the executor's context is cancelled
  faults

workerVars == <<pc, cur, idx, sendErr, snap>>
brokerVars == <<queued, unacked>>
sinkVars == <<copies, dlq, shadow>>
dedupVars == <<seen, lapses>>
vars == <<breakerVars, workerVars, brokerVars, sinkVars, dedupVars, circuit,
          ctxDone, faults>>

Labels == {"top", "receive", "stages", "gate", "dedup", "send", "record",
           "snapshot", "publish", "push", "shadow", "commit", "nack", "exited"}

TypeOK ==
  /\ BreakerTypeOK
  /\ queued \in SUBSET Msgs
  /\ unacked \in [Workers -> SUBSET Msgs]
  /\ pc \in [Workers -> Labels]
  /\ cur \in [Workers -> Msgs \cup {NoMsg}]
  /\ idx \in [Workers -> Nat]
  /\ sendErr \in [Workers -> BOOLEAN]
  /\ snap \in [Workers -> BreakerStates]
  /\ circuit \in BreakerStates \cup {"none"}
  /\ copies \in [Msgs -> [Dests -> Nat]]
  /\ dlq \in [Msgs -> Nat]
  /\ shadow \in SUBSET Msgs
  /\ seen \in SUBSET Payloads
  /\ lapses \in [Payloads -> Nat]
  /\ ctxDone \in BOOLEAN
  /\ faults \in 0..MaxFaults

Init ==
  /\ BreakerInit
  /\ queued = Msgs
  /\ unacked = [w \in Workers |-> {}]
  /\ pc = [w \in Workers |-> "top"]
  /\ cur = [w \in Workers |-> NoMsg]
  /\ idx = [w \in Workers |-> 1]
  /\ sendErr = [w \in Workers |-> FALSE]
  /\ snap = [w \in Workers |-> "closed"]
  /\ circuit = "none"
  /\ copies = [m \in Msgs |-> [d \in Dests |-> 0]]
  /\ dlq = [m \in Msgs |-> 0]
  /\ shadow = {}
  /\ seen = {}
  /\ lapses = [p \in Payloads |-> 0]
  /\ ctxDone = FALSE
  /\ faults = 0
-----------------------------------------------------------------------------
Goto(w, label) == pc' = [pc EXCEPT ![w] = label]

(* processOne returns: its locals are gone, runWorker loops *)
Return(w) ==
  /\ Goto(w, "top")
  /\ cur' = [cur EXCEPT ![w] = NoMsg]
  /\ idx' = [idx EXCEPT ![w] = 1]
  /\ sendErr' = [sendErr EXCEPT ![w] = FALSE]
  /\ snap' = [snap EXCEPT ![w] = "closed"]

Fault == faults < MaxFaults /\ faults' = faults + 1

(* Where processOne goes once a send succeeded *)
AfterSuccess(m) == IF Payload[m] \in Sampled THEN "shadow" ELSE "commit"

-----------------------------------------------------------------------------
(* runWorker's ctx check at the head of the loop *)
LoopTop(w) ==
  /\ pc[w] = "top"
  /\ Goto(w, IF ctxDone THEN "exited" ELSE "receive")
  /\ UNCHANGED <<breakerVars, cur, idx, sendErr, snap, brokerVars, sinkVars,
                 dedupVars, circuit, ctxDone, faults>>

(* ReceiveMessage returns a delivery.  A cancelled context does not exclude *)
(* it: the connectors select between ctx.Done and their delivery channel.   *)
Receive(w) ==
  /\ pc[w] = "receive"
  /\ \E m \in queued :
       /\ queued' = queued \ {m}
       /\ unacked' = [unacked EXCEPT ![w] = @ \cup {m}]
       /\ cur' = [cur EXCEPT ![w] = m]
  /\ Goto(w, "stages")
  /\ UNCHANGED <<breakerVars, idx, sendErr, snap, sinkVars, dedupVars, circuit,
                 ctxDone, faults>>

(* Pool.Get or ReceiveMessage fails: on cancellation runWorker returns,    *)
(* on any other error it backs off and loops.                              *)
ReceiveFails(w) ==
  /\ pc[w] = "receive"
  /\ \/ ctxDone /\ Goto(w, "exited") /\ UNCHANGED faults
     \/ Fault /\ Goto(w, "top")
  /\ UNCHANGED <<breakerVars, cur, idx, sendErr, snap, brokerVars, sinkVars,
                 dedupVars, circuit, ctxDone>>

RunStages(w) ==
  /\ pc[w] = "stages"
  /\ Goto(w, IF cur[w] \in Poison THEN "push" ELSE "gate")
  /\ UNCHANGED <<breakerVars, cur, idx, sendErr, snap, brokerVars, sinkVars,
                 dedupVars, circuit, ctxDone, faults>>

(* breaker.allow(): a refused message goes back to the source *)
Gate(w) ==
  /\ pc[w] = "gate"
  /\ \/ Allow(w) /\ Goto(w, IF DedupOn THEN "dedup" ELSE "send")
     \/ Denied /\ Goto(w, "nack") /\ UNCHANGED breakerVars
  /\ UNCHANGED <<cur, idx, sendErr, snap, brokerVars, sinkVars, dedupVars,
                 circuit, ctxDone, faults>>

(* mutant: a first sighting is checked but not recorded *)
CheckWithoutRecord(w) ==
  /\ pc[w] = "dedup"
  /\ \/ Payload[cur[w]] \notin seen /\ Goto(w, "send") /\ UNCHANGED breakerVars
     \/ Payload[cur[w]] \in seen /\ Abandon(w) /\ Goto(w, "commit")
  /\ UNCHANGED <<cur, idx, sendErr, snap, brokerVars, sinkVars, dedupVars,
                 circuit, ctxDone, faults>>

(* Dedup.CheckAndRecord, one transaction.  A first sighting is recorded    *)
(* before anything is sent; a duplicate is committed without a send and    *)
(* without a recordResult; an error (the row may be written) forwards.     *)
CheckAndRecord(w) ==
  LET p == Payload[cur[w]] IN
  /\ pc[w] = "dedup"
  /\ \/ /\ p \notin seen
        /\ seen' = seen \cup {p}
        /\ Goto(w, "send")
        /\ UNCHANGED <<breakerVars, lapses, faults>>
     \/ /\ p \in seen
        /\ Abandon(w)
        /\ Goto(w, "commit")
        /\ UNCHANGED <<dedupVars, faults>>
     \/ /\ Fault
        /\ seen' \in {seen, seen \cup {p}}
        /\ lapses' = [lapses EXCEPT ![p] = @ + 1]
        /\ Goto(w, "send")
        /\ UNCHANGED breakerVars
  /\ UNCHANGED <<cur, idx, sendErr, snap, brokerVars, sinkVars, circuit,
                 ctxDone>>

(* mutant: a later destination's success clears an earlier one's error *)
SendLastErrorWins(w) ==
  LET m == cur[w]
      d == Route[m][idx[w]]
  IN
  /\ pc[w] = "send"
  /\ \/ /\ copies' = [copies EXCEPT ![m][d] = @ + 1]
        /\ sendErr' = [sendErr EXCEPT ![w] = FALSE]
        /\ UNCHANGED faults
     \/ Fault /\ sendErr' = [sendErr EXCEPT ![w] = TRUE] /\ UNCHANGED copies
  /\ idx' = [idx EXCEPT ![w] = @ + 1]
  /\ Goto(w, IF idx[w] = Len(Route[m]) THEN "record" ELSE "send")
  /\ UNCHANGED <<breakerVars, cur, snap, brokerVars, dlq, shadow, dedupVars,
                 circuit, ctxDone>>

(* One send of the forward loop: to the next routed destination, or to the *)
(* default one.  An error does not stop the loop, and does not tell        *)
(* whether the destination took the message.                               *)
Send(w) ==
  LET m == cur[w]
      d == Route[m][idx[w]]
      arrive == copies' = [copies EXCEPT ![m][d] = @ + 1]
  IN
  /\ pc[w] = "send"
  /\ \/ arrive /\ UNCHANGED <<sendErr, faults>>
     \/ /\ Fault
        /\ arrive \/ UNCHANGED copies
        /\ sendErr' = [sendErr EXCEPT ![w] = TRUE]
  /\ idx' = [idx EXCEPT ![w] = @ + 1]
  /\ Goto(w, IF idx[w] = Len(Route[m]) THEN "record" ELSE "send")
  /\ UNCHANGED <<breakerVars, cur, snap, brokerVars, dlq, shadow, dedupVars,
                 circuit, ctxDone>>

(* breaker.recordResult(sendErr == nil) *)
RecordResult(w) ==
  /\ pc[w] = "record"
  /\ IF sendErr[w] THEN RecordFailure(w) ELSE RecordSuccess(w)
  /\ Goto(w, "snapshot")
  /\ UNCHANGED <<cur, idx, sendErr, snap, brokerVars, sinkVars, dedupVars,
                 circuit, ctxDone, faults>>

(* publishBreakerState: breaker.snapshot() under the breaker's mutex ... *)
Snapshot(w) ==
  /\ pc[w] = "snapshot"
  /\ snap' = [snap EXCEPT ![w] = bstate]
  /\ Goto(w, "publish")
  /\ UNCHANGED <<breakerVars, cur, idx, sendErr, brokerVars, sinkVars,
                 dedupVars, circuit, ctxDone, faults>>

(* ... then Manager.publishCircuitState under the manager's *)
Publish(w) ==
  /\ pc[w] = "publish"
  /\ circuit' = snap[w]
  /\ Goto(w, IF sendErr[w] THEN "push" ELSE AfterSuccess(cur[w]))
  /\ UNCHANGED <<breakerVars, cur, idx, sendErr, snap, brokerVars, sinkVars,
                 dedupVars, ctxDone, faults>>

(* mutant: finalize is told "handled" whatever Push returned *)
PushIgnoresError(w) ==
  LET insert == dlq' = [dlq EXCEPT ![cur[w]] = @ + 1] IN
  /\ pc[w] = "push"
  /\ Goto(w, "commit")
  /\ \/ insert /\ UNCHANGED faults
     \/ Fault /\ UNCHANGED dlq
  /\ UNCHANGED <<breakerVars, cur, idx, sendErr, snap, brokerVars, copies,
                 shadow, dedupVars, circuit, ctxDone>>

(* DLQ.Push.  An error (the insert may have landed) makes finalize nack. *)
Push(w) ==
  LET insert == dlq' = [dlq EXCEPT ![cur[w]] = @ + 1] IN
  /\ pc[w] = "push"
  /\ \/ insert /\ Goto(w, "commit") /\ UNCHANGED faults
     \/ Fault /\ (insert \/ UNCHANGED dlq) /\ Goto(w, "nack")
  /\ UNCHANGED <<breakerVars, cur, idx, sendErr, snap, brokerVars, copies,
                 shadow, dedupVars, circuit, ctxDone>>

(* shadowSend: its outcome changes nothing else *)
ShadowSend(w) ==
  /\ pc[w] = "shadow"
  /\ \/ shadow' = shadow \cup {cur[w]} /\ UNCHANGED faults
     \/ Fault /\ UNCHANGED shadow
  /\ Goto(w, "commit")
  /\ UNCHANGED <<breakerVars, cur, idx, sendErr, snap, brokerVars, copies, dlq,
                 dedupVars, circuit, ctxDone>>

(* mutant: a handled delivery is requeued instead of acknowledged *)
CommitRequeues(w) ==
  /\ pc[w] = "commit"
  /\ cur[w] \in unacked[w]
  /\ unacked' = [unacked EXCEPT ![w] = @ \ {cur[w]}]
  /\ queued' = queued \cup {cur[w]}
  /\ Return(w)
  /\ UNCHANGED <<breakerVars, sinkVars, dedupVars, circuit, ctxDone, faults>>

(* finalize(handled = true).  The ack only works on the connection the     *)
(* delivery came from; an error is logged and forgotten.                   *)
Commit(w) ==
  /\ pc[w] = "commit"
  /\ \/ /\ cur[w] \in unacked[w]
        /\ unacked' = [unacked EXCEPT ![w] = @ \ {cur[w]}]
        /\ UNCHANGED faults
     \/ cur[w] \in unacked[w] /\ Fault /\ UNCHANGED unacked
     \/ cur[w] \notin unacked[w] /\ UNCHANGED <<unacked, faults>>
  /\ Return(w)
  /\ UNCHANGED <<breakerVars, queued, sinkVars, dedupVars, circuit, ctxDone>>

(* finalize(handled = false): Nack with requeue *)
Nack(w) ==
  /\ pc[w] = "nack"
  /\ \/ /\ cur[w] \in unacked[w]
        /\ unacked' = [unacked EXCEPT ![w] = @ \ {cur[w]}]
        /\ queued' = queued \cup {cur[w]}
        /\ UNCHANGED faults
     \/ cur[w] \in unacked[w] /\ Fault /\ UNCHANGED brokerVars
     \/ cur[w] \notin unacked[w] /\ UNCHANGED <<brokerVars, faults>>
  /\ Return(w)
  /\ UNCHANGED <<breakerVars, sinkVars, dedupVars, circuit, ctxDone>>

-----------------------------------------------------------------------------
(* The broker loses the connection of worker w: what was delivered on it   *)
(* and not acknowledged is ready again, the message in hand included.      *)
ConnectionLost(w) ==
  /\ unacked[w] # {}
  /\ Fault
  /\ queued' = queued \cup unacked[w]
  /\ unacked' = [unacked EXCEPT ![w] = {}]
  /\ UNCHANGED <<breakerVars, workerVars, sinkVars, dedupVars, circuit, ctxDone>>

(* A delivery whose ack or nack was lost (already counted as a fault) is   *)
(* redelivered when the broken channel is closed.                          *)
Redeliver(w) ==
  /\ unacked[w] \ {cur[w]} # {}
  /\ queued' = queued \cup (unacked[w] \ {cur[w]})
  /\ unacked' = [unacked EXCEPT ![w] = @ \cap {cur[w]}]
  /\ UNCHANGED <<breakerVars, workerVars, sinkVars, dedupVars, circuit, ctxDone,
                 faults>>

(* A dedup row leaves the window, or DedupRepo.Prune removes it *)
DedupExpire(p) ==
  /\ p \in seen
  /\ lapses[p] < MaxLapses
  /\ seen' = seen \ {p}
  /\ lapses' = [lapses EXCEPT ![p] = @ + 1]
  /\ UNCHANGED <<breakerVars, workerVars, brokerVars, sinkVars, circuit, ctxDone,
                 faults>>

(* The manager cancels the pipeline's context (Reload, Stop, StopAll) *)
Cancel ==
  /\ ~ctxDone
  /\ Fault
  /\ ctxDone' = TRUE
  /\ UNCHANGED <<breakerVars, workerVars, brokerVars, sinkVars, dedupVars, circuit>>

(* Fresh workers, as Run starts them *)
NewWorkers ==
  /\ pc' = [w \in Workers |-> "top"]
  /\ cur' = [w \in Workers |-> NoMsg]
  /\ idx' = [w \in Workers |-> 1]
  /\ sendErr' = [w \in Workers |-> FALSE]
  /\ snap' = [w \in Workers |-> "closed"]

(* wg.Wait returns, the manager clears the cached circuit state, and       *)
(* starts a new executor for the pipeline; pooled connections survive.     *)
Restart ==
  /\ \A w \in Workers : pc[w] = "exited"
  /\ NewBreaker
  /\ NewWorkers
  /\ circuit' = "none"
  /\ ctxDone' = FALSE
  /\ UNCHANGED <<brokerVars, sinkVars, dedupVars, faults>>

(* The process dies and is started again: brokers and tables survive *)
Crash ==
  /\ Fault
  /\ NewBreaker
  /\ NewWorkers
  /\ queued' = queued \cup UNION {unacked[w] : w \in Workers}
  /\ unacked' = [w \in Workers |-> {}]
  /\ circuit' = "none"
  /\ ctxDone' = FALSE
  /\ UNCHANGED <<sinkVars, dedupVars>>

CooldownTick ==
  /\ Tick
  /\ UNCHANGED <<workerVars, brokerVars, sinkVars, dedupVars, circuit, ctxDone,
                 faults>>

-----------------------------------------------------------------------------
(* Messages the source broker still answers for *)
Pending == queued \cup UNION {unacked[w] : w \in Workers}

(* Messages that every destination has, or that the DLQ has *)
Delivered(m) == \A i \in 1..Len(Route[m]) : copies[m][Route[m][i]] > 0
Owned == {m \in Msgs : dlq[m] > 0 \/ Delivered(m)}

(* Nothing left to receive: the workers block in ReceiveMessage *)
Drained ==
  /\ Pending = {}
  /\ \A w \in Workers : pc[w] = "receive"
  /\ UNCHANGED vars

WorkerStep(w) ==
  \/ LoopTop(w) \/ Receive(w) \/ ReceiveFails(w) \/ RunStages(w) \/ Gate(w)
  \/ CheckAndRecord(w) \/ Send(w) \/ RecordResult(w) \/ Snapshot(w)
  \/ Publish(w) \/ Push(w) \/ ShadowSend(w) \/ Commit(w) \/ Nack(w)

Next ==
  \/ \E w \in Workers : WorkerStep(w)
  \/ \E w \in Workers : ConnectionLost(w)
  \/ \E w \in Workers : Redeliver(w)
  \/ \E p \in Payloads : DedupExpire(p)
  \/ CooldownTick
  \/ Cancel
  \/ Restart
  \/ Crash
  \/ Drained

Spec == Init /\ [][Next]_vars

(* Goroutines are scheduled, broker and database calls return, time passes,*)
(* a closed channel's deliveries come back and the manager restarts.       *)
FairSpec ==
  /\ Spec
  /\ \A w \in Workers : WF_vars(WorkerStep(w)) /\ WF_vars(Redeliver(w))
  /\ WF_vars(CooldownTick)
  /\ WF_vars(Restart)

-----------------------------------------------------------------------------
H == INSTANCE Handoff WITH pending <- Pending, owned <- Owned

(* At-least-once: the source broker is told to forget a message only when  *)
(* all its destinations or the DLQ have it (executor.go, finalize and the  *)
(* stage-failure comment; connector.go, Commit).                           *)
NoLoss == \A m \in Msgs : m \in Pending \/ m \in Owned

(* The executor implements the hand-off contract, step by step. *)
ImplementsHandoff == H!HandoffSpec

(* Every second copy at a destination, and every DLQ row beside a copy, is *)
(* paid for by something that went wrong: the breaker's nacks, which come  *)
(* before any send, never duplicate.                                       *)
DuplicatesAreFaults ==
  \A m \in Msgs, d \in Dests : copies[m][d] + dlq[m] <= 1 + faults

(* Shadow traffic follows production: the shadow destination only ever has *)
(* messages that all production destinations already took.                 *)
ShadowFollowsProd == \A m \in shadow : Delivered(m)

(* The dedup window works under concurrency: of all messages with one      *)
(* payload a destination gets one copy, plus one for each expired row and  *)
(* for each check that failed open (storage/dedup.go, CheckAndRecord: "two *)
(* workers can't both observe no row").  Redeliveries add nothing.         *)
Arrivals(p, d) == UNION {{m} \X (1..copies[m][d]) : m \in {n \in Msgs : Payload[n] = p}}
DedupCollapses ==
  DedupOn =>
    \A p \in Payloads, d \in Dests : Cardinality(Arrivals(p, d)) <= 1 + lapses[p]

(* executor.go:374-376, of a dedup hit: "this payload is equivalent to one *)
(* already delivered".  If so, a message the source has forgotten shares   *)
(* its payload with one that was delivered or dead-lettered, or at least   *)
(* with one that can still be.                                             *)
SkippedIsEquivalent ==
  \A m \in Msgs \ Pending :
     \E n \in Owned \cup Pending \cup ({cur[w] : w \in Workers} \ {NoMsg}) :
        Payload[n] = Payload[m]

(* docs/REQUEST_FLOW.md:282, "at-most-once with operator-driven recovery,  *)
(* not at-least-once": no destination gets a message twice.                *)
AtMostOnce == \A m \in Msgs, d \in Dests : copies[m][d] <= 1

(* manager.go:84-91, "the most recent circuit-breaker state token": with   *)
(* no send outstanding and no publication under way, the cached token of a *)
(* breaker that has reported is the breaker's state.                       *)
CircuitStateCurrent ==
  /\ circuit # "none"
  /\ \A w \in Workers : pc[w] \in {"top", "receive", "exited"}
  => circuit = bstate

(* Once nothing fails any more, every message is delivered or dead-lettered*)
(* and acknowledged; the breaker recovers on the way.                      *)
EverythingSettles == \A m \in Msgs : <>[](m \notin Pending)
=============================================================================
