--------------------------- MODULE ExecutorProofs ---------------------------
(***************************************************************************)
(* What holds of the executor for any number of workers, messages,         *)
(* destinations and faults, any routing, breaker threshold and cool-down:  *)
(*  - the circuit breaker's counter stays bounded;                         *)
(*  - it uses the breaker as Breaker.tla specifies (so BreakerCorrect      *)
(*    applies to it), with or without a dedup window;                      *)
(*  - without a dedup window it loses no message, and implements the       *)
(*    hand-off contract of Handoff.tla;                                    *)
(*  - every duplicate is paid for by a fault, with or without a window;    *)
(*  - the window lets one copy of a payload through, plus one for each row *)
(*    that expired and each check that failed open;                        *)
(*  - of a single worker the cached circuit token is current.              *)
(***************************************************************************)
EXTENDS Executor, FiniteSetTheorems, TLAPS

-----------------------------------------------------------------------------
(* The circuit breaker by itself. *)

(* The inductive invariant.  FailsBounded is not inductive by itself: that *)
(* the counter stays below Threshold + |Workers| depends on how many sends *)
(* are still out, which LateFailuresBounded trades against the counter.    *)
BreakerInv ==
  /\ BreakerTypeOK
  /\ CounterMatchesState
  /\ LateFailuresBounded
  /\ FailsBounded

(* Cardinalities of sets of workers are numbers. *)
LEMMA WorkerSets ==
  ASSUME NEW S \in SUBSET Workers
  PROVE  /\ IsFiniteSet(S)
         /\ Cardinality(S) \in Nat
         /\ Cardinality(S) <= Cardinality(Workers)
         /\ Cardinality(Workers) \in Nat /\ Cardinality(Workers) >= 1
<1>1. IsFiniteSet(S) /\ Cardinality(S) <= Cardinality(Workers)
  BY WorkersAssumption, FS_Subset
<1>2. Cardinality(S) \in Nat /\ Cardinality(Workers) \in Nat
  BY <1>1, WorkersAssumption, FS_CardinalityType
<1>3. Cardinality(Workers) # 0
  BY WorkersAssumption, FS_EmptySet
<1> QED
  BY <1>1, <1>2, <1>3

(* One worker more or less changes the cardinality by one. *)
LEMMA OneWorker ==
  ASSUME NEW S \in SUBSET Workers, NEW w \in Workers
  PROVE  /\ w \notin S => Cardinality(S \cup {w}) = Cardinality(S) + 1
         /\ w \in S => Cardinality(S \ {w}) = Cardinality(S) - 1
         /\ S \cup {w} \in SUBSET Workers
         /\ S \ {w} \in SUBSET Workers
<1>1. IsFiniteSet(S)
  BY WorkerSets
<1>2. w \notin S => Cardinality(S \cup {w}) = Cardinality(S) + 1
  BY <1>1, FS_AddElement
<1>3. w \in S => Cardinality(S \ {w}) = Cardinality(S) - 1
  BY <1>1, FS_RemoveElement
<1> QED
  BY <1>2, <1>3

(* Initially the breaker is closed with no failures. *)
LEMMA BreakerInvInit == BreakerInit => BreakerInv
<1> SUFFICES ASSUME BreakerInit PROVE BreakerInv
  OBVIOUS
<1>1. Cardinality(Workers) \in Nat /\ Cardinality(Workers) >= 1
  BY WorkerSets
<1> QED
  BY <1>1, ThresholdAssumption, CooldownAssumption
  DEF BreakerInit, BreakerInv, BreakerTypeOK, BreakerStates,
      CounterMatchesState, LateFailuresBounded, FailsBounded

(* Every step of the breaker preserves the invariant. *)
LEMMA BreakerInvStep == BreakerInv /\ [BreakerNext]_breakerVars => BreakerInv'
<1> SUFFICES ASSUME BreakerInv, [BreakerNext]_breakerVars PROVE BreakerInv'
  OBVIOUS
<1> DEFINE N == Cardinality(Workers)
           C == Cardinality(admitted)
<1>0. /\ N \in Nat /\ N >= 1 /\ C \in Nat /\ C <= N
      /\ admitted \in SUBSET Workers
  BY WorkerSets DEF BreakerInv, BreakerTypeOK
<1> USE ThresholdAssumption, CooldownAssumption DEF BreakerInv
<1> HIDE DEF N, C
<1>1. ASSUME NEW w \in Workers, AllowClosed(w) PROVE BreakerInv'
  <2>1. BreakerTypeOK'
    BY <1>1 DEF AllowClosed, BreakerTypeOK
  <2> QED
    BY <1>1, <2>1 DEF AllowClosed, CounterMatchesState,
       LateFailuresBounded, FailsBounded
<1>2. ASSUME NEW w \in Workers, AllowProbe(w) PROVE BreakerInv'
  <2>1. BreakerTypeOK'
    BY <1>2 DEF AllowProbe, BreakerTypeOK, BreakerStates
  <2>2. Cardinality(admitted') = C + 1
    BY <1>2, <1>0, OneWorker DEF AllowProbe, C
  <2>3. fails + C <= Threshold + N - 1
    BY <1>2, <1>0 DEF AllowProbe, LateFailuresBounded, InHalfOpen, C, N,
       BreakerTypeOK
  <2>4. LateFailuresBounded'
    BY <1>2, <1>0, <2>2, <2>3 DEF AllowProbe, LateFailuresBounded, InHalfOpen,
       N, BreakerTypeOK
  <2> QED
    BY <1>2, <2>1, <2>4 DEF AllowProbe, CounterMatchesState, FailsBounded
<1>3. ASSUME NEW w \in Workers, RecordSuccess(w) PROVE BreakerInv'
  <2>1. BreakerTypeOK'
    BY <1>3 DEF RecordSuccess, BreakerTypeOK, BreakerStates
  <2> QED
    BY <1>3, <1>0, <2>1 DEF RecordSuccess, CounterMatchesState,
       LateFailuresBounded, FailsBounded, N
<1>4. ASSUME NEW w \in Workers, RecordFailure(w) PROVE BreakerInv'
  <2>0. Cardinality(admitted') = C - 1 /\ C >= 1
    <3>1. w \in admitted /\ admitted' = admitted \ {w}
      BY <1>4 DEF RecordFailure
    <3>2. Cardinality(admitted') = C - 1
      BY <3>1, <1>0, OneWorker DEF C
    <3>3. Cardinality(admitted') \in Nat
      BY <3>1, <1>0, WorkerSets
    <3> QED
      BY <3>2, <3>3, <1>0
  <2>1. CASE RecordFailureHalfOpen
    <3>1. BreakerTypeOK'
      BY <1>4, <2>1 DEF RecordFailure, RecordFailureHalfOpen, BreakerTypeOK,
         BreakerStates
    <3>2. LateFailuresBounded'
      BY <2>0, <2>1, <1>0 DEF RecordFailureHalfOpen, LateFailuresBounded,
         InHalfOpen, BreakerTypeOK, N, C
    <3> QED
      BY <2>1, <3>1, <3>2 DEF RecordFailureHalfOpen, CounterMatchesState,
         FailsBounded
  <2>2. CASE RecordFailureCounted
    <3>1. BreakerTypeOK'
      BY <1>4, <2>2 DEF RecordFailure, RecordFailureCounted, BreakerTypeOK,
         BreakerStates
    <3>2. CounterMatchesState'
      BY <2>2 DEF RecordFailureCounted, CounterMatchesState, BreakerTypeOK,
         BreakerStates
    <3>3. CASE bstate = "closed"
      <4>1. fails' <= Threshold
        BY <2>2, <3>3 DEF RecordFailureCounted, CounterMatchesState, BreakerTypeOK
      <4>2. Cardinality(admitted') <= N - 1 /\ InHalfOpen' = 0
        BY <2>0, <1>0, <2>2, <3>3 DEF RecordFailureCounted, InHalfOpen
      <4> QED
        BY <3>1, <3>2, <4>1, <4>2, <1>0, <2>0 DEF LateFailuresBounded,
           FailsBounded, BreakerTypeOK, N
    <3>4. CASE bstate = "open"
      <4>1. fails + C <= Threshold + N - 1
        BY <3>4, <1>0 DEF LateFailuresBounded, InHalfOpen, C, N, BreakerTypeOK
      <4>2. fails' = fails + 1 /\ InHalfOpen' = 0
        BY <2>2, <3>4 DEF RecordFailureCounted, InHalfOpen
      <4> QED
        BY <3>1, <3>2, <4>1, <4>2, <1>0, <2>0 DEF LateFailuresBounded,
           FailsBounded, BreakerTypeOK, N
    <3> QED
      BY <2>2, <3>3, <3>4 DEF RecordFailureCounted, BreakerTypeOK, BreakerStates
  <2> QED
    BY <1>4, <2>1, <2>2 DEF RecordFailure
<1>5. ASSUME NEW w \in Workers, Abandon(w) PROVE BreakerInv'
  <2>1. BreakerTypeOK'
    BY <1>5 DEF Abandon, BreakerTypeOK
  <2>2. Cardinality(admitted') = C - 1
    BY <1>5, <1>0, OneWorker DEF Abandon, C
  <2>3. LateFailuresBounded'
    BY <1>5, <1>0, <2>2 DEF Abandon, LateFailuresBounded, InHalfOpen, N, C,
       BreakerTypeOK
  <2> QED
    BY <1>5, <2>1, <2>3 DEF Abandon, CounterMatchesState, FailsBounded
<1>6. CASE Tick
  BY <1>6 DEF Tick, BreakerTypeOK, BreakerStates, CounterMatchesState,
     LateFailuresBounded, InHalfOpen, FailsBounded
<1>7. CASE NewBreaker
  BY <1>7, <1>0 DEF NewBreaker, BreakerTypeOK, BreakerStates, CounterMatchesState,
     LateFailuresBounded, FailsBounded, N
<1>8. CASE UNCHANGED breakerVars
  BY <1>8 DEF breakerVars, BreakerTypeOK, CounterMatchesState,
     LateFailuresBounded, InHalfOpen, FailsBounded
<1> QED
  BY <1>1, <1>2, <1>3, <1>4, <1>5, <1>6, <1>7, <1>8 DEF BreakerNext, Allow

(* breaker.go: counter and state agree, and the counter stays below        *)
(* threshold + workers through any number of outages, probes, late results *)
(* and abandoned admissions.                                               *)
THEOREM BreakerCorrect == BreakerSpec => []BreakerInv
<1> QED
  BY BreakerInvInit, BreakerInvStep, PTL DEF BreakerSpec

(* breaker.fails is bounded although recordResult increments it in the     *)
(* open state without a cap.                                               *)
THEOREM FailsStayBounded == BreakerSpec => [](LateFailuresBounded /\ FailsBounded)
<1>1. BreakerInv => LateFailuresBounded /\ FailsBounded
  BY DEF BreakerInv
<1> QED
  BY BreakerCorrect, <1>1, PTL

-----------------------------------------------------------------------------
(* Every step of the executor is a step of the breaker or leaves it alone. *)
LEMMA BreakerStep == [Next]_vars => [BreakerNext]_breakerVars
<1> SUFFICES ASSUME [Next]_vars PROVE [BreakerNext]_breakerVars
  OBVIOUS
<1>1. ASSUME NEW w \in Workers, WorkerStep(w) PROVE [BreakerNext]_breakerVars
  <2>1. CASE Gate(w)
    BY <2>1 DEF Gate, BreakerNext
  <2>2. CASE CheckAndRecord(w)
    BY <2>2 DEF CheckAndRecord, BreakerNext
  <2>3. CASE RecordResult(w)
    BY <2>3 DEF RecordResult, BreakerNext
  <2>4. CASE LoopTop(w) \/ Receive(w) \/ ReceiveFails(w) \/ RunStages(w) \/ Send(w)
    BY <2>4 DEF LoopTop, Receive, ReceiveFails, RunStages, Send
  <2>5. CASE \/ Snapshot(w) \/ Publish(w) \/ Push(w) \/ ShadowSend(w)
             \/ Commit(w) \/ Nack(w)
    BY <2>5 DEF Snapshot, Publish, Push, ShadowSend, Commit, Nack
  <2> QED
    BY <1>1, <2>1, <2>2, <2>3, <2>4, <2>5 DEF WorkerStep
<1>2. ASSUME NEW w \in Workers, ConnectionLost(w) \/ Redeliver(w)
      PROVE  UNCHANGED breakerVars
  BY <1>2 DEF ConnectionLost, Redeliver
<1>3. ASSUME NEW p \in Payloads, DedupExpire(p) PROVE UNCHANGED breakerVars
  BY <1>3 DEF DedupExpire
<1>4. CASE CooldownTick
  BY <1>4 DEF CooldownTick, BreakerNext
<1>5. CASE Cancel
  BY <1>5 DEF Cancel
<1>6. CASE Restart \/ Crash
  BY <1>6 DEF Restart, Crash, BreakerNext
<1>7. CASE Drained \/ UNCHANGED vars
  BY <1>7 DEF Drained, vars
<1> QED
  BY <1>1, <1>2, <1>3, <1>4, <1>5, <1>6, <1>7 DEF Next

(* processOne uses the shared breaker by its protocol: allow, then at most *)
(* one recordResult, from whichever worker and in whichever order.         *)
THEOREM ImplementsBreaker == Spec => BreakerSpec
<1>1. Init => BreakerInit
  BY DEF Init
<1> QED
  BY <1>1, BreakerStep, PTL DEF Spec, BreakerSpec

(* Hence the breaker's counter is bounded in the executor as well. *)
THEOREM ExecutorFailsBounded == Spec => [](LateFailuresBounded /\ FailsBounded)
<1> QED
  BY ImplementsBreaker, FailsStayBounded, PTL

-----------------------------------------------------------------------------
(* BreakerTypeOK is preserved: taken over from BreakerInv would need the   *)
(* rest of that invariant, so it is shown on its own.                      *)
LEMMA BreakerTypeStep ==
  BreakerTypeOK /\ [BreakerNext]_breakerVars => BreakerTypeOK'
<1> SUFFICES ASSUME BreakerTypeOK, [BreakerNext]_breakerVars PROVE BreakerTypeOK'
  OBVIOUS
<1> USE CooldownAssumption DEF BreakerTypeOK, BreakerStates
<1>1. ASSUME NEW w \in Workers, Allow(w) PROVE BreakerTypeOK'
  BY <1>1 DEF Allow, AllowClosed, AllowProbe
<1>2. ASSUME NEW w \in Workers, RecordSuccess(w) PROVE BreakerTypeOK'
  BY <1>2 DEF RecordSuccess
<1>3. ASSUME NEW w \in Workers, RecordFailure(w) PROVE BreakerTypeOK'
  BY <1>3, ThresholdAssumption DEF RecordFailure, RecordFailureHalfOpen,
     RecordFailureCounted
<1>4. ASSUME NEW w \in Workers, Abandon(w) PROVE BreakerTypeOK'
  BY <1>4 DEF Abandon
<1>5. CASE Tick \/ NewBreaker
  BY <1>5 DEF Tick, NewBreaker
<1>6. CASE UNCHANGED breakerVars
  BY <1>6 DEF breakerVars
<1> QED
  BY <1>1, <1>2, <1>3, <1>4, <1>5, <1>6 DEF BreakerNext

(* TypeOK without the breaker's part *)
ExecTypeOK ==
  /\ queued \in SUBSET Msgs
  /\ unacked \in [Workers -> SUBSET Msgs]
  /\ pc \in [Workers -> Labels]
  /\ cur \in [Workers -> Msgs \cup {NoMsg}]
  /\ idx \in [Workers -> Nat]
  /\ sendErr \in [Workers -> BOOLEAN]
  /\ snap \in [Workers -> BreakerStates]
  /\ circuit \in BreakerStates \cup {"none"}
  /\ copies \in [Msgs -> [Dests -> Nat]]
  /\ dlq \in [Msgs -> Nat]
  /\ shadow \in SUBSET Msgs
  /\ seen \in SUBSET Payloads
  /\ lapses \in [Payloads -> Nat]
  /\ ctxDone \in BOOLEAN
  /\ faults \in 0..MaxFaults

(* Where a worker stands determines its locals: a worker with a message in *)
(* hand has one, and the forward loop starts at the first destination and  *)
(* stays inside the list.                                                  *)
Holding == {"stages", "gate", "dedup", "send", "record", "snapshot", "publish",
            "push", "shadow", "commit", "nack"}
BeforeSend == {"top", "receive", "exited", "stages", "gate", "dedup"}

LocalsOK ==
  \A w \in Workers :
    /\ pc[w] \in Holding => cur[w] \in Msgs
    /\ pc[w] \in BeforeSend => idx[w] = 1 /\ sendErr[w] = FALSE
    /\ pc[w] = "send" => idx[w] \in 1..Len(Route[cur[w]])

(* A fault keeps the counter in its range. *)
LEMMA FaultType == ASSUME faults \in 0..MaxFaults, Fault PROVE faults' \in 0..MaxFaults
  BY BoundsAssumption DEF Fault

(* A route has a length, and its entries are destinations. *)
LEMMA RouteFacts ==
  ASSUME NEW m \in Msgs
  PROVE  /\ Len(Route[m]) \in Nat /\ Len(Route[m]) >= 1
         /\ \A i \in 1..Len(Route[m]) : Route[m][i] \in Dests
<1>1. Route[m] \in Seq(Dests) /\ Len(Route[m]) > 0
  BY RouteAssumption
<1> QED
  BY <1>1

(* Types and locals are preserved by every step. *)
LEMMA TypeStep ==
  ExecTypeOK /\ LocalsOK /\ BreakerTypeOK /\ [Next]_vars => ExecTypeOK' /\ LocalsOK'
<1> SUFFICES ASSUME ExecTypeOK, LocalsOK, BreakerTypeOK, [Next]_vars
             PROVE  ExecTypeOK' /\ LocalsOK'
  OBVIOUS
<1> USE DEF ExecTypeOK, LocalsOK, Labels, Holding, BeforeSend
<1>1. ASSUME NEW w \in Workers, LoopTop(w) PROVE ExecTypeOK' /\ LocalsOK'
  BY <1>1 DEF LoopTop, Goto, brokerVars, sinkVars, dedupVars
<1>2. ASSUME NEW w \in Workers, Receive(w) PROVE ExecTypeOK' /\ LocalsOK'
  BY <1>2 DEF Receive, Goto, sinkVars, dedupVars
<1>3. ASSUME NEW w \in Workers, ReceiveFails(w) PROVE ExecTypeOK' /\ LocalsOK'
  BY <1>3, FaultType DEF ReceiveFails, Goto, brokerVars, sinkVars, dedupVars
<1>4. ASSUME NEW w \in Workers, RunStages(w) PROVE ExecTypeOK' /\ LocalsOK'
  BY <1>4 DEF RunStages, Goto, brokerVars, sinkVars, dedupVars
<1>5. ASSUME NEW w \in Workers, Gate(w) PROVE ExecTypeOK' /\ LocalsOK'
  <2>1. cur[w] \in Msgs /\ idx[w] = 1
    BY <1>5 DEF Gate
  <2>2. 1 \in 1..Len(Route[cur[w]])
    BY <2>1, RouteFacts
  <2> QED
    BY <1>5, <2>1, <2>2 DEF Gate, Goto, brokerVars, sinkVars, dedupVars
<1>6. ASSUME NEW w \in Workers, CheckAndRecord(w) PROVE ExecTypeOK' /\ LocalsOK'
  <2>1. cur[w] \in Msgs /\ idx[w] = 1 /\ Payload[cur[w]] \in Payloads
    BY <1>6 DEF CheckAndRecord, Payloads
  <2>2. 1 \in 1..Len(Route[cur[w]])
    BY <2>1, RouteFacts
  <2>3. /\ faults' \in 0..MaxFaults
        /\ seen' \in SUBSET Payloads
        /\ lapses' \in [Payloads -> Nat]
    BY <1>6, <2>1, FaultType DEF CheckAndRecord, dedupVars
  <2>4. /\ pc' = [pc EXCEPT ![w] = "send"] \/ pc' = [pc EXCEPT ![w] = "commit"]
        /\ UNCHANGED <<cur, idx, sendErr, snap, queued, unacked, copies, dlq,
                       shadow, circuit, ctxDone>>
    BY <1>6 DEF CheckAndRecord, Goto, brokerVars, sinkVars
  <2>5. ExecTypeOK'
    BY <2>3, <2>4
  <2>6. LocalsOK'
    BY <1>6, <2>1, <2>2, <2>4 DEF CheckAndRecord
  <2> QED
    BY <2>5, <2>6
<1>7. ASSUME NEW w \in Workers, Send(w) PROVE ExecTypeOK' /\ LocalsOK'
  <2> DEFINE m == cur[w]
             d == Route[m][idx[w]]
  <2>1. /\ pc[w] = "send" /\ m \in Msgs /\ d \in Dests
        /\ idx[w] \in 1..Len(Route[m]) /\ Len(Route[m]) \in Nat
    BY <1>7, RouteFacts DEF Send
  <2>2. copies' \in [Msgs -> [Dests -> Nat]]
    <3>1. CASE UNCHANGED copies
      BY <3>1
    <3>2. CASE copies' = [copies EXCEPT ![m][d] = @ + 1]
      BY <3>2, <2>1
    <3> QED
      BY <1>7, <3>1, <3>2 DEF Send
  <2>3. sendErr' \in [Workers -> BOOLEAN] /\ faults' \in 0..MaxFaults
    BY <1>7, FaultType DEF Send
  <2>4. /\ idx' = [idx EXCEPT ![w] = @ + 1]
        /\ pc' = [pc EXCEPT ![w] = IF idx[w] = Len(Route[m]) THEN "record" ELSE "send"]
        /\ \A v \in Workers : v # w => sendErr'[v] = sendErr[v]
        /\ UNCHANGED <<cur, snap, queued, unacked, dlq, shadow, seen, lapses,
                       circuit, ctxDone>>
    BY <1>7 DEF Send, Goto, brokerVars, dedupVars
  <2>5. ExecTypeOK'
    BY <2>2, <2>3, <2>4
  <2>6. LocalsOK'
    BY <2>1, <2>4
  <2> QED
    BY <2>5, <2>6
<1>8. ASSUME NEW w \in Workers, RecordResult(w) PROVE ExecTypeOK' /\ LocalsOK'
  BY <1>8 DEF RecordResult, Goto, brokerVars, sinkVars, dedupVars
<1>9. ASSUME NEW w \in Workers, Snapshot(w) PROVE ExecTypeOK' /\ LocalsOK'
  BY <1>9 DEF Snapshot, Goto, brokerVars, sinkVars, dedupVars, BreakerTypeOK
<1>10. ASSUME NEW w \in Workers, Publish(w) PROVE ExecTypeOK' /\ LocalsOK'
  BY <1>10 DEF Publish, Goto, AfterSuccess, brokerVars, sinkVars, dedupVars
<1>11. ASSUME NEW w \in Workers, Push(w) PROVE ExecTypeOK' /\ LocalsOK'
  <2>1. cur[w] \in Msgs
    BY <1>11 DEF Push
  <2>2. dlq' \in [Msgs -> Nat] /\ faults' \in 0..MaxFaults
    BY <1>11, <2>1, FaultType DEF Push
  <2>3. /\ pc' = [pc EXCEPT ![w] = "nack"] \/ pc' = [pc EXCEPT ![w] = "commit"]
        /\ UNCHANGED <<cur, idx, sendErr, snap, queued, unacked, copies, shadow,
                       seen, lapses, circuit, ctxDone>>
    BY <1>11 DEF Push, Goto, brokerVars, dedupVars
  <2>4. ExecTypeOK'
    BY <2>2, <2>3
  <2>5. LocalsOK'
    BY <1>11, <2>1, <2>3 DEF Push
  <2> QED
    BY <2>4, <2>5
<1>12. ASSUME NEW w \in Workers, ShadowSend(w) PROVE ExecTypeOK' /\ LocalsOK'
  BY <1>12, FaultType DEF ShadowSend, Goto, brokerVars, dedupVars
<1>13. ASSUME NEW w \in Workers, Commit(w) PROVE ExecTypeOK' /\ LocalsOK'
  BY <1>13, FaultType DEF Commit, Return, Goto, sinkVars, dedupVars, BreakerStates
<1>14. ASSUME NEW w \in Workers, Nack(w) PROVE ExecTypeOK' /\ LocalsOK'
  BY <1>14, FaultType DEF Nack, Return, Goto, brokerVars, sinkVars, dedupVars,
     BreakerStates
<1>15. ASSUME NEW w \in Workers, ConnectionLost(w) PROVE ExecTypeOK' /\ LocalsOK'
  BY <1>15, FaultType DEF ConnectionLost, workerVars, sinkVars, dedupVars
<1>16. ASSUME NEW w \in Workers, Redeliver(w) PROVE ExecTypeOK' /\ LocalsOK'
  BY <1>16 DEF Redeliver, workerVars, sinkVars, dedupVars
<1>17. ASSUME NEW p \in Payloads, DedupExpire(p) PROVE ExecTypeOK' /\ LocalsOK'
  BY <1>17 DEF DedupExpire, workerVars, brokerVars, sinkVars
<1>18. CASE CooldownTick
  BY <1>18 DEF CooldownTick, workerVars, brokerVars, sinkVars, dedupVars
<1>19. CASE Cancel
  BY <1>19, FaultType DEF Cancel, workerVars, brokerVars, sinkVars, dedupVars
<1>20. CASE Restart
  BY <1>20 DEF Restart, NewWorkers, brokerVars, sinkVars, dedupVars, BreakerStates
<1>21. CASE Crash
  <2>1. UNION {unacked[w] : w \in Workers} \subseteq Msgs
    OBVIOUS
  <2>2. queued' \in SUBSET Msgs /\ unacked' \in [Workers -> SUBSET Msgs]
    BY <1>21, <2>1 DEF Crash
  <2>3. ExecTypeOK'
    BY <1>21, <2>2, FaultType DEF Crash, NewWorkers, sinkVars, dedupVars, BreakerStates
  <2>4. LocalsOK'
    BY <1>21 DEF Crash, NewWorkers
  <2> QED
    BY <2>3, <2>4
<1>22. CASE UNCHANGED vars
  BY <1>22 DEF vars, workerVars, brokerVars, sinkVars, dedupVars
<1> QED
  BY <1>1, <1>2, <1>3, <1>4, <1>5, <1>6, <1>7, <1>8, <1>9, <1>10, <1>11, <1>12,
     <1>13, <1>14, <1>15, <1>16, <1>17, <1>18, <1>19, <1>20, <1>21, <1>22
  DEF Next, WorkerStep, Drained

(* The initial state has the types and the locals of a fresh executor. *)
LEMMA TypeInit == Init => ExecTypeOK /\ LocalsOK /\ BreakerTypeOK
<1> SUFFICES ASSUME Init PROVE ExecTypeOK /\ LocalsOK /\ BreakerTypeOK
  OBVIOUS
<1>0. copies \in [Msgs -> [Dests -> Nat]]
  <2> DEFINE zero == [d \in Dests |-> 0]
  <2>1. zero \in [Dests -> Nat]
    OBVIOUS
  <2>2. copies = [m \in Msgs |-> zero]
    BY DEF Init
  <2> HIDE DEF zero
  <2> QED
    BY <2>1, <2>2
<1>1. ExecTypeOK
  <2>1. queued \in SUBSET Msgs /\ unacked \in [Workers -> SUBSET Msgs]
    BY DEF Init
  <2>2. pc \in [Workers -> Labels] /\ cur \in [Workers -> Msgs \cup {NoMsg}]
    BY DEF Init, Labels
  <2>3. idx \in [Workers -> Nat] /\ sendErr \in [Workers -> BOOLEAN]
    BY DEF Init
  <2>4. /\ snap \in [Workers -> BreakerStates]
        /\ circuit \in BreakerStates \cup {"none"}
    BY DEF Init, BreakerStates
  <2>5. /\ dlq \in [Msgs -> Nat] /\ shadow \in SUBSET Msgs
        /\ seen \in SUBSET Payloads /\ lapses \in [Payloads -> Nat]
    BY DEF Init
  <2>6. ctxDone \in BOOLEAN
    BY DEF Init
  <2>7. faults \in 0..MaxFaults
    <3>1. faults = 0
      BY DEF Init
    <3> QED
      BY <3>1, BoundsAssumption
  <2> QED
    BY <1>0, <2>1, <2>2, <2>3, <2>4, <2>5, <2>6, <2>7 DEF ExecTypeOK
<1>2. LocalsOK
  BY DEF Init, LocalsOK, Holding, BeforeSend
<1>3. BreakerTypeOK
  BY CooldownAssumption DEF Init, BreakerInit, BreakerTypeOK, BreakerStates
<1> QED
  BY <1>1, <1>2, <1>3

(* Type correctness of the executor, for every value of the constants. *)
THEOREM ExecutorTyped == Spec => []TypeOK
<1> DEFINE TInv == ExecTypeOK /\ LocalsOK /\ BreakerTypeOK
<1>1. Init => TInv
  BY TypeInit
<1>2. TInv /\ [Next]_vars => TInv'
  BY TypeStep, BreakerStep, BreakerTypeStep
<1>3. TInv => TypeOK
  BY DEF ExecTypeOK, TypeOK
<1> HIDE DEF TInv
<1> QED
  BY <1>1, <1>2, <1>3, PTL DEF Spec

-----------------------------------------------------------------------------
(* What a worker's position says about the message in its hand, when no    *)
(* dedup window is set: without a send error the destinations already      *)
(* passed have it, and at "commit" it is owned downstream.                 *)
Evidence(w) ==
  /\ pc[w] # "dedup"
  /\ pc[w] = "send" /\ ~sendErr[w] =>
       \A i \in 1..Len(Route[cur[w]]) :
          i < idx[w] => copies[cur[w]][Route[cur[w]][i]] > 0
  /\ pc[w] \in {"record", "snapshot", "publish"} /\ ~sendErr[w] =>
       Delivered(cur[w])
  /\ pc[w] = "shadow" => Delivered(cur[w])
  /\ pc[w] = "commit" => cur[w] \in Owned

EvidenceOK == \A w \in Workers : Evidence(w)

(* The inductive invariant behind NoLoss. *)
ExecutorInv ==
  /\ ExecTypeOK /\ LocalsOK /\ BreakerTypeOK
  /\ EvidenceOK
  /\ NoLoss
  /\ ShadowFollowsProd

(* Pending, element by element *)
LEMMA PendingDef ==
  \A m : m \in Pending <=> m \in queued \/ \E w \in Workers : m \in unacked[w]
  BY DEF Pending

(* Copies and DLQ rows only grow, whatever step is taken. *)
Grows ==
  \A m \in Msgs : dlq'[m] >= dlq[m] /\ \A d \in Dests : copies'[m][d] >= copies[m][d]

LEMMA SinksGrow == ExecTypeOK /\ LocalsOK /\ [Next]_vars => Grows
<1> SUFFICES ASSUME ExecTypeOK, LocalsOK, [Next]_vars PROVE Grows
  OBVIOUS
<1>0. /\ copies \in [Msgs -> [Dests -> Nat]] /\ dlq \in [Msgs -> Nat]
      /\ idx \in [Workers -> Nat] /\ pc \in [Workers -> Labels]
  BY DEF ExecTypeOK
<1>1. ASSUME NEW w \in Workers, Send(w) PROVE Grows
  <2>1. /\ cur[w] \in Msgs
        /\ Route[cur[w]][idx[w]] \in Dests
    BY <1>1, RouteFacts DEF Send, LocalsOK, Holding
  <2>2. CASE UNCHANGED copies
    BY <1>0, <1>1, <2>2 DEF Send, Grows
  <2>3. CASE copies' = [copies EXCEPT ![cur[w]][Route[cur[w]][idx[w]]] = @ + 1]
    BY <1>0, <1>1, <2>1, <2>3 DEF Send, Grows
  <2> QED
    BY <1>1, <2>2, <2>3 DEF Send
<1>2. ASSUME NEW w \in Workers, Push(w) PROVE Grows
  <2>1. cur[w] \in Msgs
    BY <1>2 DEF Push, LocalsOK, Holding
  <2> QED
    BY <1>0, <1>2, <2>1 DEF Push, Grows
<1>3. CASE UNCHANGED <<copies, dlq>>
  BY <1>0, <1>3 DEF Grows
<1>4. ASSUME NEW w \in Workers, WorkerStep(w), ~Send(w), ~Push(w)
      PROVE UNCHANGED <<copies, dlq>>
  BY <1>4 DEF WorkerStep, LoopTop, Receive, ReceiveFails, RunStages, Gate,
     CheckAndRecord, RecordResult, Snapshot, Publish, ShadowSend, Commit, Nack,
     sinkVars
<1>5. ASSUME NEW w \in Workers, ConnectionLost(w) \/ Redeliver(w)
      PROVE UNCHANGED <<copies, dlq>>
  BY <1>5 DEF ConnectionLost, Redeliver, sinkVars
<1>6. ASSUME NEW p \in Payloads, DedupExpire(p) PROVE UNCHANGED <<copies, dlq>>
  BY <1>6 DEF DedupExpire, sinkVars
<1>7. CASE \/ CooldownTick \/ Cancel \/ Restart \/ Crash \/ Drained
           \/ UNCHANGED vars
  BY <1>3, <1>7 DEF CooldownTick, Cancel, Restart, Crash, Drained, vars, sinkVars
<1> QED
  BY <1>1, <1>2, <1>3, <1>4, <1>5, <1>6, <1>7 DEF Next

(* So what is delivered or owned stays so. *)
LEMMA OwnedStays ==
  ASSUME ExecTypeOK, ExecTypeOK', Grows, NEW m \in Msgs
  PROVE  /\ Delivered(m) => Delivered(m)'
         /\ m \in Owned => m \in Owned'
<1>1. ASSUME Delivered(m) PROVE Delivered(m)'
  <2> SUFFICES ASSUME NEW i \in 1..Len(Route[m]) PROVE copies'[m][Route[m][i]] > 0
    BY DEF Delivered
  <2>1. Route[m][i] \in Dests
    BY RouteFacts
  <2>2. copies[m][Route[m][i]] > 0 /\ copies[m][Route[m][i]] \in Nat
    BY <1>1, <2>1 DEF Delivered, ExecTypeOK
  <2>3. copies'[m][Route[m][i]] >= copies[m][Route[m][i]]
        /\ copies'[m][Route[m][i]] \in Nat
    BY <2>1 DEF Grows, ExecTypeOK
  <2> QED
    BY <2>2, <2>3
<1>2. ASSUME dlq[m] > 0 PROVE dlq'[m] > 0
  <2>1. dlq'[m] >= dlq[m] /\ dlq[m] \in Nat /\ dlq'[m] \in Nat
    BY DEF Grows, ExecTypeOK
  <2> QED
    BY <1>2, <2>1
<1> QED
  BY <1>1, <1>2 DEF Owned

(* The evidence of a worker that does not move is not disturbed. *)
LEMMA EvidenceStays ==
  ASSUME ExecTypeOK, ExecTypeOK', LocalsOK, Grows, NEW v \in Workers, Evidence(v),
         pc'[v] = pc[v], cur'[v] = cur[v], idx'[v] = idx[v],
         sendErr'[v] = sendErr[v]
  PROVE  Evidence(v)'
<1>1. CASE pc[v] \notin Holding
  BY <1>1 DEF Evidence, Holding
<1>2. CASE pc[v] \in Holding
  <2>1. cur[v] \in Msgs
    BY <1>2 DEF LocalsOK
  <2>2. /\ Delivered(cur[v]) => Delivered(cur[v])'
        /\ cur[v] \in Owned => cur[v] \in Owned'
    BY <2>1, OwnedStays
  <2>3. ASSUME NEW i \in 1..Len(Route[cur[v]]), copies[cur[v]][Route[cur[v]][i]] > 0
        PROVE  copies'[cur[v]][Route[cur[v]][i]] > 0
    <3>1. Route[cur[v]][i] \in Dests
      BY <2>1, RouteFacts
    <3>2. /\ copies[cur[v]][Route[cur[v]][i]] \in Nat
          /\ copies'[cur[v]][Route[cur[v]][i]] \in Nat
          /\ copies'[cur[v]][Route[cur[v]][i]] >= copies[cur[v]][Route[cur[v]][i]]
      BY <2>1, <3>1 DEF Grows, ExecTypeOK
    <3> QED
      BY <2>3, <3>2
  <2>4. Delivered(cur[v])' <=> \A i \in 1..Len(Route[cur[v]]) :
                                  copies'[cur[v]][Route[cur[v]][i]] > 0
    BY DEF Delivered
  <2> QED
    BY <2>2, <2>3, <2>4 DEF Evidence, Delivered
<1> QED
  BY <1>1, <1>2

(* Every step preserves the evidence, when no dedup window is set. *)
LEMMA EvidenceStep ==
  ASSUME ~DedupOn, ExecTypeOK, ExecTypeOK', LocalsOK, EvidenceOK, Grows,
         [Next]_vars
  PROVE  EvidenceOK'
<1> SUFFICES ASSUME NEW v \in Workers PROVE Evidence(v)'
  BY DEF EvidenceOK
<1>0. Evidence(v)
  BY DEF EvidenceOK
<1>1. CASE /\ pc'[v] = pc[v] /\ cur'[v] = cur[v]
           /\ idx'[v] = idx[v] /\ sendErr'[v] = sendErr[v]
  BY <1>0, <1>1, EvidenceStays
<1>2. CASE pc'[v] \in {"top", "receive", "exited", "stages", "gate", "push", "nack"}
  BY <1>2 DEF Evidence
<1>3. ASSUME NEW w \in Workers, w # v, WorkerStep(w)
      PROVE  /\ pc'[v] = pc[v] /\ cur'[v] = cur[v]
             /\ idx'[v] = idx[v] /\ sendErr'[v] = sendErr[v]
  BY <1>3 DEF WorkerStep, LoopTop, Receive, ReceiveFails, RunStages, Gate,
     CheckAndRecord, Send, RecordResult, Snapshot, Publish, Push, ShadowSend,
     Commit, Nack, Return, Goto, ExecTypeOK
<1>4. ASSUME WorkerStep(v) PROVE Evidence(v)'
  <2>1. CASE LoopTop(v) \/ Receive(v) \/ ReceiveFails(v) \/ RunStages(v)
    BY <1>2, <2>1 DEF LoopTop, Receive, ReceiveFails, RunStages, Goto, ExecTypeOK
  <2>2. CASE Gate(v)
    <3>1. CASE pc'[v] = "send"
      <4>1. idx'[v] = 1
        BY <2>2 DEF Gate, LocalsOK, BeforeSend
      <4>2. \A i \in 1..Len(Route[cur[v]]) : ~(i < 1)
        OBVIOUS
      <4> QED
        BY <2>2, <3>1, <4>1, <4>2 DEF Gate, Evidence
    <3> QED
      BY <1>2, <2>2, <3>1 DEF Gate, Goto, ExecTypeOK
  <2>3. CASE CheckAndRecord(v)
    BY <1>0, <2>3 DEF CheckAndRecord, Evidence
  <2>4. CASE Send(v)
    <3> DEFINE m == cur[v]
               d == Route[m][idx[v]]
    <3>1. /\ m \in Msgs /\ idx[v] \in 1..Len(Route[m]) /\ Len(Route[m]) \in Nat
          /\ pc[v] = "send" /\ d \in Dests
      BY <2>4, RouteFacts DEF Send, LocalsOK, Holding
    <3>2. /\ cur'[v] = m /\ idx'[v] = idx[v] + 1
          /\ pc'[v] = IF idx[v] = Len(Route[m]) THEN "record" ELSE "send"
      BY <2>4 DEF Send, Goto, ExecTypeOK
    <3>3. CASE sendErr'[v]
      BY <3>2, <3>3 DEF Evidence
    <3>4. CASE ~sendErr'[v]
      <4>1. ~sendErr[v] /\ copies' = [copies EXCEPT ![m][d] = @ + 1]
        BY <2>4, <3>4 DEF Send, ExecTypeOK
      <4>2. copies'[m][d] > 0
        BY <3>1, <4>1 DEF ExecTypeOK
      <4>3. \A i \in 1..Len(Route[m]) : i < idx[v] => copies'[m][Route[m][i]] > 0
        <5> SUFFICES ASSUME NEW i \in 1..Len(Route[m]), i < idx[v]
                     PROVE  copies'[m][Route[m][i]] > 0
          OBVIOUS
        <5>1. copies[m][Route[m][i]] > 0
          BY <1>0, <3>1, <4>1 DEF Evidence
        <5>2. Route[m][i] \in Dests
          BY <3>1, RouteFacts
        <5>3. /\ copies[m][Route[m][i]] \in Nat /\ copies'[m][Route[m][i]] \in Nat
              /\ copies'[m][Route[m][i]] >= copies[m][Route[m][i]]
          BY <3>1, <5>2 DEF Grows, ExecTypeOK
        <5> QED
          BY <5>1, <5>3
      <4>4. \A i \in 1..Len(Route[m]) :
               i < idx[v] + 1 => copies'[m][Route[m][i]] > 0
        BY <3>1, <4>2, <4>3
      <4>5. CASE idx[v] = Len(Route[m])
        <5>1. \A i \in 1..Len(Route[m]) : copies'[m][Route[m][i]] > 0
          BY <3>1, <4>4, <4>5
        <5> QED
          BY <3>2, <4>5, <5>1 DEF Evidence, Delivered
      <4>6. CASE idx[v] # Len(Route[m])
        BY <3>2, <4>4, <4>6 DEF Evidence
      <4> QED
        BY <4>5, <4>6
    <3> QED
      BY <3>3, <3>4
  <2>5. CASE RecordResult(v)
    <3>1. /\ pc[v] = "record" /\ pc'[v] = "snapshot" /\ cur' = cur
          /\ sendErr' = sendErr /\ copies' = copies
      BY <2>5 DEF RecordResult, Goto, ExecTypeOK, sinkVars
    <3> QED
      BY <1>0, <3>1 DEF Evidence, Delivered
  <2>6. CASE Snapshot(v)
    <3>1. /\ pc[v] = "snapshot" /\ pc'[v] = "publish" /\ cur' = cur
          /\ sendErr' = sendErr /\ copies' = copies
      BY <2>6 DEF Snapshot, Goto, ExecTypeOK, sinkVars
    <3> QED
      BY <1>0, <3>1 DEF Evidence, Delivered
  <2>7. CASE Publish(v)
    <3>1. /\ pc[v] = "publish" /\ cur' = cur /\ cur[v] \in Msgs
          /\ sendErr' = sendErr /\ copies' = copies /\ dlq' = dlq
          /\ pc'[v] = IF sendErr[v] THEN "push" ELSE AfterSuccess(cur[v])
      BY <2>7 DEF Publish, Goto, ExecTypeOK, LocalsOK, Holding, sinkVars
    <3>2. ~sendErr[v] => Delivered(cur[v])
      BY <1>0, <3>1 DEF Evidence
    <3> QED
      BY <3>1, <3>2 DEF Evidence, AfterSuccess, Delivered, Owned
  <2>8. CASE Push(v)
    <3>1. /\ cur[v] \in Msgs /\ cur' = cur
          /\ \/ pc'[v] = "nack"
             \/ pc'[v] = "commit" /\ dlq' = [dlq EXCEPT ![cur[v]] = @ + 1]
      BY <2>8 DEF Push, Goto, ExecTypeOK, LocalsOK, Holding
    <3>2. CASE pc'[v] = "nack"
      BY <3>2, <1>2
    <3>3. CASE pc'[v] = "commit" /\ dlq' = [dlq EXCEPT ![cur[v]] = @ + 1]
      <4>1. dlq'[cur[v]] > 0
        BY <3>1, <3>3 DEF ExecTypeOK
      <4> QED
        BY <3>1, <3>3, <4>1 DEF Evidence, Owned
    <3> QED
      BY <3>1, <3>2, <3>3
  <2>9. CASE ShadowSend(v)
    <3>1. /\ pc[v] = "shadow" /\ pc'[v] = "commit" /\ cur' = cur
          /\ cur[v] \in Msgs /\ copies' = copies /\ dlq' = dlq
      BY <2>9 DEF ShadowSend, Goto, ExecTypeOK, LocalsOK, Holding
    <3> QED
      BY <1>0, <3>1 DEF Evidence, Delivered, Owned
  <2>10. CASE Commit(v) \/ Nack(v)
    BY <1>2, <2>10 DEF Commit, Nack, Return, Goto, ExecTypeOK
  <2> QED
    BY <1>4, <2>1, <2>2, <2>3, <2>4, <2>5, <2>6, <2>7, <2>8, <2>9, <2>10
    DEF WorkerStep
<1>5. ASSUME NEW w \in Workers, ConnectionLost(w) \/ Redeliver(w)
      PROVE  UNCHANGED <<pc, cur, idx, sendErr>>
  BY <1>5 DEF ConnectionLost, Redeliver, workerVars
<1>6. ASSUME NEW p \in Payloads, DedupExpire(p)
      PROVE  UNCHANGED <<pc, cur, idx, sendErr>>
  BY <1>6 DEF DedupExpire, workerVars
<1>7. CASE CooldownTick \/ Cancel \/ Drained \/ UNCHANGED vars
  BY <1>1, <1>7 DEF CooldownTick, Cancel, Drained, vars, workerVars
<1>8. CASE Restart \/ Crash
  BY <1>2, <1>8 DEF Restart, Crash, NewWorkers
<1> QED
  BY <1>1, <1>3, <1>4, <1>5, <1>6, <1>7, <1>8 DEF Next

-----------------------------------------------------------------------------
(* The source broker forgets a message only at a worker's Commit. *)
LEMMA PendingStep ==
  ASSUME ExecTypeOK, LocalsOK, [Next]_vars
  PROVE  \/ Pending' = Pending
         \/ \E w \in Workers : Commit(w) /\ Pending' = Pending \ {cur[w]}
<1> USE DEF ExecTypeOK
<1>1. CASE UNCHANGED <<queued, unacked>>
  BY <1>1 DEF Pending
<1>2. ASSUME NEW w \in Workers, Receive(w) PROVE Pending' = Pending
  <2>1. PICK m \in queued : /\ queued' = queued \ {m}
                            /\ unacked' = [unacked EXCEPT ![w] = @ \cup {m}]
    BY <1>2 DEF Receive
  <2>2. unacked'[w] = unacked[w] \cup {m}
    BY <2>1
  <2>3. \A v \in Workers : v # w => unacked'[v] = unacked[v]
    BY <2>1
  <2> QED
    BY <2>1, <2>2, <2>3 DEF Pending
<1>3. ASSUME NEW w \in Workers, Commit(w)
      PROVE  Pending' = Pending \/ Pending' = Pending \ {cur[w]}
  <2>1. CASE UNCHANGED unacked
    BY <1>3, <2>1 DEF Commit, Pending
  <2>2. CASE unacked' = [unacked EXCEPT ![w] = @ \ {cur[w]}]
    <3>1. queued' = queued /\ unacked'[w] = unacked[w] \ {cur[w]}
      BY <1>3, <2>2 DEF Commit
    <3>2. \A v \in Workers : v # w => unacked'[v] = unacked[v]
      BY <2>2
    <3>3. \A m : m # cur[w] => (m \in Pending' <=> m \in Pending)
      BY <3>1, <3>2, PendingDef DEF Pending
    <3>4. Pending' \subseteq Pending
      BY <3>1, <3>2 DEF Pending
    <3>5. CASE cur[w] \in Pending'
      BY <3>3, <3>4, <3>5
    <3>6. CASE cur[w] \notin Pending'
      BY <3>3, <3>4, <3>6
    <3> QED
      BY <3>5, <3>6
  <2> QED
    BY <1>3, <2>1, <2>2 DEF Commit
<1>4. ASSUME NEW w \in Workers, Nack(w) PROVE Pending' = Pending
  <2>1. CASE UNCHANGED brokerVars
    BY <1>1, <2>1 DEF brokerVars, Pending
  <2>2. CASE /\ cur[w] \in unacked[w]
             /\ unacked' = [unacked EXCEPT ![w] = @ \ {cur[w]}]
             /\ queued' = queued \cup {cur[w]}
    <3>1. unacked'[w] = unacked[w] \ {cur[w]}
      BY <2>2
    <3>2. \A v \in Workers : v # w => unacked'[v] = unacked[v]
      BY <2>2
    <3> QED
      BY <2>2, <3>1, <3>2 DEF Pending
  <2> QED
    BY <1>4, <2>1, <2>2 DEF Nack
<1>5. ASSUME NEW w \in Workers, ConnectionLost(w) PROVE Pending' = Pending
  <2>1. queued' = queued \cup unacked[w] /\ unacked'[w] = {}
    BY <1>5 DEF ConnectionLost
  <2>2. \A v \in Workers : v # w => unacked'[v] = unacked[v]
    BY <1>5 DEF ConnectionLost
  <2> QED
    BY <2>1, <2>2 DEF Pending
<1>6. ASSUME NEW w \in Workers, Redeliver(w) PROVE Pending' = Pending
  <2>1. /\ queued' = queued \cup (unacked[w] \ {cur[w]})
        /\ unacked'[w] = unacked[w] \cap {cur[w]}
    BY <1>6 DEF Redeliver
  <2>2. \A v \in Workers : v # w => unacked'[v] = unacked[v]
    BY <1>6 DEF Redeliver
  <2>3. ASSUME NEW m, m \in Pending' PROVE m \in Pending
    <3>1. m \in queued' \/ \E v \in Workers : m \in unacked'[v]
      BY <2>3 DEF Pending
    <3>2. m \in queued \/ \E v \in Workers : m \in unacked[v]
      BY <2>1, <2>2, <3>1
    <3> QED
      BY <3>2 DEF Pending
  <2>4. ASSUME NEW m, m \in Pending PROVE m \in Pending'
    <3>1. m \in queued \/ \E v \in Workers : m \in unacked[v]
      BY <2>4 DEF Pending
    <3>2. m \in queued' \/ \E v \in Workers : m \in unacked'[v]
      BY <2>1, <2>2, <3>1
    <3> QED
      BY <3>2 DEF Pending
  <2> QED
    BY <2>3, <2>4
<1>7. CASE Crash
  BY <1>7 DEF Crash, Pending
<1>8. ASSUME NEW w \in Workers, WorkerStep(w), ~Receive(w), ~Commit(w), ~Nack(w)
      PROVE  UNCHANGED <<queued, unacked>>
  BY <1>8 DEF WorkerStep, LoopTop, ReceiveFails, RunStages, Gate, CheckAndRecord,
     Send, RecordResult, Snapshot, Publish, Push, ShadowSend, brokerVars
<1>9. ASSUME NEW p \in Payloads, DedupExpire(p) PROVE UNCHANGED <<queued, unacked>>
  BY <1>9 DEF DedupExpire, brokerVars
<1>10. CASE CooldownTick \/ Cancel \/ Restart \/ Drained \/ UNCHANGED vars
  BY <1>1, <1>10 DEF CooldownTick, Cancel, Restart, Drained, vars, brokerVars
<1> QED
  BY <1>1, <1>2, <1>3, <1>4, <1>5, <1>6, <1>7, <1>8, <1>9, <1>10 DEF Next

(* A message becomes owned one at a time, by a send or a DLQ insert. *)
LEMMA OwnedStep ==
  ASSUME ExecTypeOK, ExecTypeOK', LocalsOK, [Next]_vars
  PROVE  \/ Owned' = Owned
         \/ \E w \in Workers : /\ Send(w) \/ Push(w)
                               /\ cur[w] \in Msgs
                               /\ Owned' = Owned \cup {cur[w]}
<1>0. Grows
  BY SinksGrow
<1>1. CASE UNCHANGED <<copies, dlq>>
  BY <1>1 DEF Owned, Delivered
<1>2. ASSUME NEW w \in Workers, Send(w) \/ Push(w)
      PROVE  /\ cur[w] \in Msgs
             /\ Owned' = Owned \/ Owned' = Owned \cup {cur[w]}
  <2>1. cur[w] \in Msgs
    BY <1>2 DEF Send, Push, LocalsOK, Holding
  <2>2. \A m \in Msgs : m # cur[w] => copies'[m] = copies[m] /\ dlq'[m] = dlq[m]
    BY <1>2 DEF Send, Push, ExecTypeOK
  <2>3. \A m \in Msgs : m # cur[w] => (m \in Owned' <=> m \in Owned)
    BY <2>2 DEF Owned, Delivered
  <2>4. \A m \in Msgs : m \in Owned => m \in Owned'
    BY <1>0, OwnedStays
  <2>5. Owned \subseteq Msgs /\ Owned' \subseteq Msgs
    BY DEF Owned
  <2> QED
    BY <2>1, <2>3, <2>4, <2>5
<1>3. ASSUME NEW w \in Workers, WorkerStep(w), ~Send(w), ~Push(w)
      PROVE UNCHANGED <<copies, dlq>>
  BY <1>3 DEF WorkerStep, LoopTop, Receive, ReceiveFails, RunStages, Gate,
     CheckAndRecord, RecordResult, Snapshot, Publish, ShadowSend, Commit, Nack,
     sinkVars
<1>4. ASSUME NEW w \in Workers, ConnectionLost(w) \/ Redeliver(w)
      PROVE UNCHANGED <<copies, dlq>>
  BY <1>4 DEF ConnectionLost, Redeliver, sinkVars
<1>5. ASSUME NEW p \in Payloads, DedupExpire(p) PROVE UNCHANGED <<copies, dlq>>
  BY <1>5 DEF DedupExpire, sinkVars
<1>6. CASE CooldownTick \/ Cancel \/ Restart \/ Crash \/ Drained \/ UNCHANGED vars
  BY <1>1, <1>6 DEF CooldownTick, Cancel, Restart, Crash, Drained, vars, sinkVars
<1> QED
  BY <1>1, <1>2, <1>3, <1>4, <1>5, <1>6 DEF Next

(* Shadow traffic follows production. *)
LEMMA ShadowStep ==
  ASSUME ExecTypeOK, ExecTypeOK', LocalsOK, EvidenceOK, ShadowFollowsProd, Grows,
         [Next]_vars
  PROVE  ShadowFollowsProd'
<1> SUFFICES ASSUME NEW m \in shadow' PROVE Delivered(m)'
  BY DEF ShadowFollowsProd
<1>1. m \in Msgs
  BY DEF ExecTypeOK
<1>2. CASE m \in shadow
  BY <1>1, <1>2, OwnedStays DEF ShadowFollowsProd
<1>3. CASE m \notin shadow
  <2>1. PICK w \in Workers : ShadowSend(w)
    BY <1>3 DEF Next, WorkerStep, LoopTop, Receive, ReceiveFails, RunStages, Gate,
       CheckAndRecord, Send, RecordResult, Snapshot, Publish, Push, Commit, Nack,
       ConnectionLost, Redeliver, DedupExpire, CooldownTick, Cancel, Restart,
       Crash, Drained, vars, sinkVars
  <2>2. m = cur[w] /\ pc[w] = "shadow"
    BY <1>3, <2>1 DEF ShadowSend
  <2>3. Delivered(m)
    BY <2>2 DEF EvidenceOK, Evidence
  <2> QED
    BY <1>1, <2>3, OwnedStays
<1> QED
  BY <1>2, <1>3

(* The inductive step of NoLoss. *)
LEMMA ExecutorInvStep ==
  ASSUME ~DedupOn PROVE ExecutorInv /\ [Next]_vars => ExecutorInv'
<1> SUFFICES ASSUME ExecutorInv, [Next]_vars PROVE ExecutorInv'
  OBVIOUS
<1>1. ExecTypeOK' /\ LocalsOK' /\ BreakerTypeOK'
  BY TypeStep, BreakerStep, BreakerTypeStep DEF ExecutorInv
<1>2. Grows
  BY SinksGrow DEF ExecutorInv
<1>3. EvidenceOK'
  BY <1>1, <1>2, EvidenceStep DEF ExecutorInv
<1>4. ShadowFollowsProd'
  BY <1>1, <1>2, ShadowStep DEF ExecutorInv
<1>5. NoLoss'
  <2> SUFFICES ASSUME NEW m \in Msgs PROVE m \in Pending' \/ m \in Owned'
    BY DEF NoLoss
  <2>1. m \in Owned => m \in Owned'
    BY <1>1, <1>2, OwnedStays DEF ExecutorInv
  <2>2. CASE Pending' = Pending
    BY <2>1, <2>2 DEF ExecutorInv, NoLoss
  <2>3. ASSUME NEW w \in Workers, Commit(w), Pending' = Pending \ {cur[w]}
        PROVE  m \in Pending' \/ m \in Owned'
    <3>1. cur[w] \in Owned
      BY <2>3 DEF Commit, ExecutorInv, EvidenceOK, Evidence
    <3> QED
      BY <2>1, <2>3, <3>1 DEF ExecutorInv, NoLoss
  <2> QED
    BY <2>2, <2>3, PendingStep DEF ExecutorInv
<1> QED
  BY <1>1, <1>3, <1>4, <1>5 DEF ExecutorInv

(* The initial state: everything is queued at the source. *)
LEMMA ExecutorInvInit == Init => ExecutorInv
<1> SUFFICES ASSUME Init PROVE ExecutorInv
  OBVIOUS
<1>1. EvidenceOK
  BY DEF Init, EvidenceOK, Evidence
<1>2. NoLoss
  BY DEF Init, NoLoss, Pending
<1>3. ShadowFollowsProd
  BY DEF Init, ShadowFollowsProd
<1> QED
  BY <1>1, <1>2, <1>3, TypeInit DEF ExecutorInv

(* At-least-once delivery (executor.go, processOne and finalize): without  *)
(* a dedup window, whatever fails and whoever crashes, a message the       *)
(* source broker has forgotten is at all its destinations or in the DLQ.   *)
THEOREM ExecutorLosesNothing == ASSUME ~DedupOn PROVE Spec => []NoLoss
<1>1. ExecutorInv => NoLoss
  BY DEF ExecutorInv
<1>2. ExecutorInv /\ [Next]_vars => ExecutorInv'
  BY ExecutorInvStep
<1> QED
  BY ExecutorInvInit, <1>1, <1>2, PTL DEF Spec

(* Shadow copies exist only of messages production has (executor.go:90-95).*)
THEOREM ExecutorShadow == ASSUME ~DedupOn PROVE Spec => []ShadowFollowsProd
<1>1. ExecutorInv => ShadowFollowsProd
  BY DEF ExecutorInv
<1>2. ExecutorInv /\ [Next]_vars => ExecutorInv'
  BY ExecutorInvStep
<1> QED
  BY ExecutorInvInit, <1>1, <1>2, PTL DEF Spec

(* A step of the executor is a step of the hand-off contract or stutters. *)
LEMMA HandoffStep ==
  ASSUME ~DedupOn
  PROVE  ExecutorInv /\ ExecutorInv' /\ [Next]_vars => [H!HandoffNext]_(H!handoffVars)
<1> SUFFICES ASSUME ExecutorInv, ExecutorInv', [Next]_vars
             PROVE  [H!HandoffNext]_(H!handoffVars)
  OBVIOUS
<1>0. ExecTypeOK /\ ExecTypeOK' /\ LocalsOK
  BY DEF ExecutorInv
<1>1. ASSUME NEW w \in Workers, Send(w) \/ Push(w), cur[w] \in Msgs,
             Owned' = Owned \cup {cur[w]}
      PROVE  [H!HandoffNext]_(H!handoffVars)
  <2>1. Pending' = Pending
    BY <1>1 DEF Send, Push, brokerVars, Pending
  <2> QED
    BY <1>1, <2>1 DEF H!HandoffNext, H!TakeOver, H!handoffVars
<1>2. ASSUME NEW w \in Workers, Commit(w), Pending' = Pending \ {cur[w]}
      PROVE  [H!HandoffNext]_(H!handoffVars)
  <2>1. Owned' = Owned
    BY <1>2 DEF Commit, sinkVars, Owned, Delivered
  <2>2. cur[w] \in Owned /\ cur[w] \in Msgs
    BY <1>2 DEF Commit, ExecutorInv, EvidenceOK, Evidence, Owned
  <2> QED
    BY <1>2, <2>1, <2>2 DEF H!HandoffNext, H!Release, H!handoffVars
<1>3. CASE Pending' = Pending /\ Owned' = Owned
  BY <1>3 DEF H!handoffVars
<1> QED
  BY <1>0, <1>1, <1>2, <1>3, PendingStep, OwnedStep

(* The executor implements the hand-off contract for every pipeline        *)
(* without a dedup window.                                                 *)
THEOREM ExecutorImplementsHandoff == ASSUME ~DedupOn PROVE Spec => ImplementsHandoff
<1>1. Init => H!HandoffInit
  <2> SUFFICES ASSUME Init PROVE H!HandoffInit
    OBVIOUS
  <2>1. Pending = Msgs
    BY DEF Init, Pending
  <2>2. ASSUME NEW m \in Msgs PROVE m \notin Owned
    <3>1. 1 \in 1..Len(Route[m]) /\ Route[m][1] \in Dests
      BY RouteFacts
    <3>2. copies[m][Route[m][1]] = 0 /\ dlq[m] = 0
      BY <3>1 DEF Init
    <3> QED
      BY <3>1, <3>2 DEF Owned, Delivered
  <2>3. Owned = {}
    BY <2>2 DEF Owned
  <2> QED
    BY <2>1, <2>3 DEF H!HandoffInit
<1>2. ExecutorInv /\ [Next]_vars => ExecutorInv'
  BY ExecutorInvStep
<1>3. ExecutorInv /\ ExecutorInv' /\ [Next]_vars => [H!HandoffNext]_(H!handoffVars)
  BY HandoffStep
<1> QED
  BY ExecutorInvInit, <1>1, <1>2, <1>3, PTL DEF Spec, ImplementsHandoff, H!HandoffSpec

-----------------------------------------------------------------------------
(* What is still to come.  A worker that holds m and may yet send it to d  *)
(* (a nack gives it back, for the same purpose), one that will dead-letter *)
(* m, and a connection with a delivery of m whose answer was lost each     *)
(* stand for one more copy or row.                                         *)
Bit(b) == IF b THEN 1 ELSE 0

MaySend(c, l, i, m, d) ==
  /\ c = m
  /\ \/ l \in {"stages", "gate", "dedup", "nack"}
     \/ l = "send" /\ \E j \in i..Len(Route[m]) : Route[m][j] = d
WillPush(c, l, e, m) ==
  /\ c = m
  /\ l = "push" \/ (l \in {"send", "record", "snapshot", "publish"} /\ e)

Forwarding(m, d) == {w \in Workers : MaySend(cur[w], pc[w], idx[w], m, d)}
Failing(m) == {w \in Workers : WillPush(cur[w], pc[w], sendErr[w], m)}
Stale(m) == {w \in Workers : m \in unacked[w] /\ cur[w] # m}

PaidFor ==
  \A m \in Msgs, d \in Dests :
     copies[m][d] + dlq[m] + Bit(m \in queued) + Cardinality(Forwarding(m, d))
        + Cardinality(Failing(m)) + Cardinality(Stale(m)) <= 1 + faults

HandsEmpty == \A w \in Workers : pc[w] \in {"top", "receive", "exited"} => cur[w] = NoMsg

PaidInv == ExecTypeOK /\ LocalsOK /\ BreakerTypeOK /\ HandsEmpty /\ PaidFor

(* The part of the account that a step of worker w can change. *)
Account(w, m, d) ==
  copies[m][d] + dlq[m] + Bit(m \in queued) + Bit(w \in Forwarding(m, d))
     + Bit(w \in Failing(m)) + Bit(w \in Stale(m))

OthersKeep(w) ==
  \A p \in Workers \ {w} :
     /\ cur'[p] = cur[p] /\ pc'[p] = pc[p] /\ idx'[p] = idx[p]
     /\ sendErr'[p] = sendErr[p] /\ unacked'[p] = unacked[p]

LEMMA CardinalitySplit ==
  ASSUME NEW S \in SUBSET Workers, NEW w \in Workers
  PROVE  /\ Cardinality(S \ {w}) \in Nat
         /\ Cardinality(S) = Cardinality(S \ {w}) + Bit(w \in S)
<1>1. S \ {w} \in SUBSET Workers
  OBVIOUS
<1>2. Cardinality(S \ {w}) \in Nat /\ Cardinality(S) \in Nat
  BY <1>1, WorkerSets
<1>3. CASE w \in S
  BY <1>2, <1>3, OneWorker DEF Bit
<1>4. CASE w \notin S
  <2>1. S \ {w} = S
    BY <1>4
  <2> QED BY <1>2, <1>4, <2>1 DEF Bit
<1> QED BY <1>3, <1>4

LEMMA OneWorkerPays ==
  ASSUME ExecTypeOK, ExecTypeOK', PaidFor, NEW w \in Workers, OthersKeep(w),
         \A m \in Msgs, d \in Dests : Account(w, m, d)' + faults <= Account(w, m, d) + faults'
  PROVE  PaidFor'
<1> SUFFICES ASSUME NEW m \in Msgs, NEW d \in Dests
             PROVE  copies'[m][d] + dlq'[m] + Bit(m \in queued') + Cardinality(Forwarding(m, d)')
                      + Cardinality(Failing(m)') + Cardinality(Stale(m)') <= 1 + faults'
  BY DEF PaidFor
<1> DEFINE A == Forwarding(m, d)
           B == Failing(m)
           C == Stale(m)
<1>1. A' \ {w} = A \ {w} /\ A \in SUBSET Workers /\ A' \in SUBSET Workers
  BY DEF Forwarding, OthersKeep
<1>2. B' \ {w} = B \ {w} /\ B \in SUBSET Workers /\ B' \in SUBSET Workers
  BY DEF Failing, OthersKeep
<1>3. C' \ {w} = C \ {w} /\ C \in SUBSET Workers /\ C' \in SUBSET Workers
  BY DEF Stale, OthersKeep
<1>4. /\ Cardinality(A \ {w}) \in Nat /\ Cardinality(A) = Cardinality(A \ {w}) + Bit(w \in A)
      /\ Cardinality(A') = Cardinality(A \ {w}) + Bit(w \in A')
  BY <1>1, CardinalitySplit
<1>5. /\ Cardinality(B \ {w}) \in Nat /\ Cardinality(B) = Cardinality(B \ {w}) + Bit(w \in B)
      /\ Cardinality(B') = Cardinality(B \ {w}) + Bit(w \in B')
  BY <1>2, CardinalitySplit
<1>6. /\ Cardinality(C \ {w}) \in Nat /\ Cardinality(C) = Cardinality(C \ {w}) + Bit(w \in C)
      /\ Cardinality(C') = Cardinality(C \ {w}) + Bit(w \in C')
  BY <1>3, CardinalitySplit
<1>7. copies[m][d] + dlq[m] + Bit(m \in queued) + Cardinality(A)
        + Cardinality(B) + Cardinality(C) <= 1 + faults
  BY DEF PaidFor
<1>8. copies'[m][d] + dlq'[m] + Bit(m \in queued') + Bit(w \in A')
          + Bit(w \in B') + Bit(w \in C') + faults
        <= copies[m][d] + dlq[m] + Bit(m \in queued) + Bit(w \in A)
          + Bit(w \in B) + Bit(w \in C) + faults'
  BY DEF Account
<1>9. /\ copies[m][d] \in Nat /\ copies'[m][d] \in Nat /\ dlq[m] \in Nat /\ dlq'[m] \in Nat
      /\ faults \in Nat /\ faults' \in Nat
  BY DEF ExecTypeOK
<1> HIDE DEF A, B, C
<1>10. /\ Bit(m \in queued) \in Nat /\ Bit(m \in queued') \in Nat
       /\ Bit(w \in A) \in Nat /\ Bit(w \in A') \in Nat /\ Bit(w \in B) \in Nat
       /\ Bit(w \in B') \in Nat /\ Bit(w \in C) \in Nat /\ Bit(w \in C') \in Nat
  BY DEF Bit
<1>11. copies'[m][d] + dlq'[m] + Bit(m \in queued') + Cardinality(A')
        + Cardinality(B') + Cardinality(C') <= 1 + faults'
  BY <1>4, <1>5, <1>6, <1>7, <1>8, <1>9, <1>10
<1> QED BY <1>11 DEF A, B, C

(* The account of worker w, in terms of its locals. *)
LEMMA AccountValue ==
  ASSUME NEW w \in Workers, NEW m \in Msgs, NEW d \in Dests
  PROVE  /\ Account(w, m, d) = copies[m][d] + dlq[m] + Bit(m \in queued)
                 + Bit(MaySend(cur[w], pc[w], idx[w], m, d))
                 + Bit(WillPush(cur[w], pc[w], sendErr[w], m))
                 + Bit(m \in unacked[w] /\ cur[w] # m)
         /\ Account(w, m, d)' = copies'[m][d] + dlq'[m] + Bit(m \in queued')
                 + Bit(MaySend(cur'[w], pc'[w], idx'[w], m, d))
                 + Bit(WillPush(cur'[w], pc'[w], sendErr'[w], m))
                 + Bit(m \in unacked'[w] /\ cur'[w] # m)
  BY DEF Account, Forwarding, Failing, Stale, Bit

(* A step that moves the worker and touches neither broker nor sinks. *)
LEMMA LabelMoves ==
  ASSUME ExecTypeOK, ExecTypeOK', NEW w \in Workers, NEW l, pc' = [pc EXCEPT ![w] = l],
         UNCHANGED <<cur, idx, sendErr, unacked, queued, copies, dlq>>, faults' >= faults,
         NEW m \in Msgs, NEW d \in Dests,
         MaySend(cur[w], l, idx[w], m, d) => MaySend(cur[w], pc[w], idx[w], m, d),
         WillPush(cur[w], l, sendErr[w], m) =>
            \/ WillPush(cur[w], pc[w], sendErr[w], m)
            \/ MaySend(cur[w], pc[w], idx[w], m, d) /\ ~MaySend(cur[w], l, idx[w], m, d)
  PROVE  Account(w, m, d)' + faults <= Account(w, m, d) + faults'
<1>1. pc'[w] = l
  BY DEF ExecTypeOK
<1>2. copies[m][d] \in Nat /\ dlq[m] \in Nat /\ faults \in Nat /\ faults' \in Nat
  BY DEF ExecTypeOK
<1> DEFINE a == MaySend(cur[w], pc[w], idx[w], m, d)
           b == WillPush(cur[w], pc[w], sendErr[w], m)
           x == MaySend(cur[w], l, idx[w], m, d)
           y == WillPush(cur[w], l, sendErr[w], m)
           z == m \in unacked[w] /\ cur[w] # m
           q == m \in queued
<1>3. /\ Account(w, m, d) = copies[m][d] + dlq[m] + Bit(q) + Bit(a) + Bit(b) + Bit(z)
      /\ Account(w, m, d)' = copies[m][d] + dlq[m] + Bit(q) + Bit(x) + Bit(y) + Bit(z)
  BY <1>1, AccountValue
<1>4. (x => a) /\ (y => b \/ (a /\ ~x))
  OBVIOUS
<1> HIDE DEF a, b, x, y, z, q
<1>5. Bit(x) + Bit(y) <= Bit(a) + Bit(b) /\ Bit(q) \in Nat /\ Bit(z) \in Nat
      /\ Bit(x) \in Nat /\ Bit(y) \in Nat /\ Bit(a) \in Nat /\ Bit(b) \in Nat
  BY <1>4 DEF Bit
<1> QED BY <1>2, <1>3, <1>5

LEMMA WorkersKeepLocals ==
  ASSUME ExecTypeOK, NEW w \in Workers, WorkerStep(w) \/ ConnectionLost(w) \/ Redeliver(w)
  PROVE  OthersKeep(w)
<1> USE DEF ExecTypeOK, OthersKeep, Goto, Return
<1>1. CASE LoopTop(w) BY <1>1 DEF LoopTop, brokerVars
<1>2. CASE Receive(w) BY <1>2 DEF Receive
<1>3. CASE ReceiveFails(w) BY <1>3 DEF ReceiveFails, brokerVars
<1>4. CASE RunStages(w) BY <1>4 DEF RunStages, brokerVars
<1>5. CASE Gate(w) BY <1>5 DEF Gate, brokerVars
<1>6. CASE CheckAndRecord(w) BY <1>6 DEF CheckAndRecord, brokerVars
<1>7. CASE Send(w) BY <1>7 DEF Send, brokerVars
<1>8. CASE RecordResult(w) BY <1>8 DEF RecordResult, brokerVars
<1>9. CASE Snapshot(w) BY <1>9 DEF Snapshot, brokerVars
<1>10. CASE Publish(w) BY <1>10 DEF Publish, brokerVars
<1>11. CASE Push(w) BY <1>11 DEF Push, brokerVars
<1>12. CASE ShadowSend(w) BY <1>12 DEF ShadowSend, brokerVars
<1>13. CASE Commit(w) BY <1>13 DEF Commit
<1>14. CASE Nack(w) BY <1>14 DEF Nack, brokerVars
<1>15. CASE ConnectionLost(w) BY <1>15 DEF ConnectionLost, workerVars
<1>16. CASE Redeliver(w) BY <1>16 DEF Redeliver, workerVars
<1> QED BY <1>1, <1>2, <1>3, <1>4, <1>5, <1>6, <1>7, <1>8, <1>9, <1>10, <1>11, <1>12,
           <1>13, <1>14, <1>15, <1>16 DEF WorkerStep

LEMMA FaultsGrow ==
  ASSUME ExecTypeOK
  PROVE  /\ Fault => faults' = faults + 1
         /\ (UNCHANGED faults \/ Fault) => faults' >= faults
  BY DEF ExecTypeOK, Fault

LEMMA LabelStepsPay ==
  ASSUME ExecTypeOK, ExecTypeOK', LocalsOK, HandsEmpty,
         NEW w \in Workers, NEW m \in Msgs, NEW d \in Dests,
         \/ LoopTop(w) \/ ReceiveFails(w) \/ RunStages(w) \/ Gate(w) \/ CheckAndRecord(w)
         \/ RecordResult(w) \/ Snapshot(w) \/ Publish(w) \/ ShadowSend(w)
  PROVE  Account(w, m, d)' + faults <= Account(w, m, d) + faults'
<1> USE DEF Goto, brokerVars, sinkVars, MaySend, WillPush
<1>1. CASE LoopTop(w) \/ ReceiveFails(w)
  <2>1. cur[w] # m
    BY <1>1, MsgsAssumption DEF LoopTop, ReceiveFails, HandsEmpty
  <2>2. PICK l : /\ pc' = [pc EXCEPT ![w] = l]
                 /\ UNCHANGED <<cur, idx, sendErr, unacked, queued, copies, dlq>>
    BY <1>1 DEF LoopTop, ReceiveFails
  <2>3. faults' >= faults
    BY <1>1, FaultsGrow DEF LoopTop, ReceiveFails
  <2> QED BY <2>1, <2>2, <2>3, LabelMoves
<1>2. CASE RunStages(w)
  <2>1. PICK l \in {"push", "gate"} :
          /\ pc' = [pc EXCEPT ![w] = l] /\ pc[w] = "stages"
          /\ UNCHANGED <<cur, idx, sendErr, unacked, queued, copies, dlq, faults>>
    BY <1>2 DEF RunStages
  <2>2. faults' >= faults
    BY <2>1, FaultsGrow
  <2> QED BY <2>1, <2>2, LabelMoves
<1>3. CASE Gate(w) \/ CheckAndRecord(w)
  <2>1. PICK l \in {"dedup", "send", "nack", "commit"} :
          /\ pc' = [pc EXCEPT ![w] = l] /\ pc[w] \in {"gate", "dedup"}
          /\ UNCHANGED <<cur, idx, sendErr, unacked, queued, copies, dlq>>
    BY <1>3 DEF Gate, CheckAndRecord
  <2>2. faults' >= faults
    BY <1>3, FaultsGrow DEF Gate, CheckAndRecord
  <2>3. sendErr[w] = FALSE
    BY <2>1 DEF LocalsOK, BeforeSend
  <2> QED BY <2>1, <2>2, <2>3, LabelMoves
<1>4. CASE RecordResult(w) \/ Snapshot(w)
  <2>1. PICK l \in {"snapshot", "publish"} :
          /\ pc' = [pc EXCEPT ![w] = l] /\ pc[w] \in {"record", "snapshot"}
          /\ UNCHANGED <<cur, idx, sendErr, unacked, queued, copies, dlq, faults>>
    BY <1>4 DEF RecordResult, Snapshot
  <2>2. faults' >= faults
    BY <2>1, FaultsGrow
  <2> QED BY <2>1, <2>2, LabelMoves
<1>5. CASE Publish(w)
  <2>1. PICK l \in {"push", "shadow", "commit"} :
          /\ pc' = [pc EXCEPT ![w] = l] /\ pc[w] = "publish" /\ (l = "push" => sendErr[w])
          /\ UNCHANGED <<cur, idx, sendErr, unacked, queued, copies, dlq, faults>>
    BY <1>5 DEF Publish, AfterSuccess
  <2>2. faults' >= faults
    BY <2>1, FaultsGrow
  <2> QED BY <2>1, <2>2, LabelMoves
<1>6. CASE ShadowSend(w)
  <2>1. PICK l \in {"commit"} :
          /\ pc' = [pc EXCEPT ![w] = l]
          /\ UNCHANGED <<cur, idx, sendErr, unacked, queued, copies, dlq>>
    BY <1>6 DEF ShadowSend
  <2>2. faults' >= faults
    BY <1>6, FaultsGrow DEF ShadowSend
  <2> QED BY <2>1, <2>2, LabelMoves
<1> QED BY <1>1, <1>2, <1>3, <1>4, <1>5, <1>6

(* Sums of bits, by cases *)
LEMMA BitValues ==
  /\ Bit(TRUE) = 1 /\ Bit(FALSE) = 0
  /\ \A b : Bit(b) \in {0, 1}
  BY DEF Bit

LEMMA SendPays ==
  ASSUME ExecTypeOK, ExecTypeOK', LocalsOK,
         NEW w \in Workers, NEW m \in Msgs, NEW d \in Dests, Send(w)
  PROVE  Account(w, m, d)' + faults <= Account(w, m, d) + faults'
<1>1. /\ pc[w] = "send" /\ cur[w] \in Msgs /\ idx[w] \in 1..Len(Route[cur[w]])
      /\ Len(Route[cur[w]]) \in Nat /\ Route[cur[w]][idx[w]] \in Dests
  BY RouteFacts DEF Send, LocalsOK, Holding
<1> DEFINE c == cur[w]
           i == idx[w]
           n == Len(Route[c])
           e == Route[c][i]
<1>2. /\ UNCHANGED <<cur, unacked, queued, dlq>>
      /\ idx'[w] = i + 1 /\ pc'[w] = (IF i = n THEN "record" ELSE "send")
  BY DEF Send, Goto, brokerVars, ExecTypeOK
<1>3. /\ copies[m][d] \in Nat /\ dlq[m] \in Nat /\ faults \in Nat /\ faults' \in Nat
      /\ copies'[m][d] \in Nat
  BY DEF ExecTypeOK
<1>4. \/ copies' = [copies EXCEPT ![c][e] = @ + 1] /\ sendErr' = sendErr /\ faults' = faults
      \/ /\ copies' = copies \/ copies' = [copies EXCEPT ![c][e] = @ + 1]
         /\ faults' = faults + 1
  BY FaultsGrow DEF Send
<1>5. copies'[m][d] = copies[m][d] \/ (c = m /\ e = d /\ copies'[m][d] = copies[m][d] + 1)
  <2>1. c \in Msgs /\ e \in Dests /\ copies \in [Msgs -> [Dests -> Nat]]
    BY <1>1 DEF ExecTypeOK
  <2> HIDE DEF c, e
  <2>2. CASE copies' = [copies EXCEPT ![c][e] = @ + 1]
    BY <2>1, <2>2
  <2> QED BY <1>4, <2>2
<1> DEFINE a == MaySend(cur[w], pc[w], idx[w], m, d)
           b == WillPush(cur[w], pc[w], sendErr[w], m)
           x == MaySend(cur'[w], pc'[w], idx'[w], m, d)
           y == WillPush(cur'[w], pc'[w], sendErr'[w], m)
<1>6. x => a
  BY <1>1, <1>2 DEF MaySend
<1>7. c = m /\ e = d => a /\ ~x
  BY <1>1, <1>2, RouteAssumption DEF MaySend
<1>8. sendErr' = sendErr => (y => b)
  BY <1>1, <1>2 DEF WillPush
<1>9. /\ Account(w, m, d) = copies[m][d] + dlq[m] + Bit(m \in queued) + Bit(a) + Bit(b)
             + Bit(m \in unacked[w] /\ cur[w] # m)
      /\ Account(w, m, d)' = copies'[m][d] + dlq[m] + Bit(m \in queued) + Bit(x) + Bit(y)
             + Bit(m \in unacked[w] /\ cur[w] # m)
  BY <1>2, AccountValue
<1> HIDE DEF a, b, x, y
<1>10. Bit(m \in queued) \in Nat /\ Bit(m \in unacked[w] /\ cur[w] # m) \in Nat
  BY BitValues
<1>11. copies'[m][d] + Bit(x) + Bit(y) + faults <= copies[m][d] + Bit(a) + Bit(b) + faults'
  BY <1>3, <1>4, <1>5, <1>6, <1>7, <1>8 DEF Bit
<1>12. Bit(x) \in Nat /\ Bit(y) \in Nat /\ Bit(a) \in Nat /\ Bit(b) \in Nat
  BY BitValues
<1> QED BY <1>3, <1>9, <1>10, <1>11, <1>12

LEMMA PushPays ==
  ASSUME ExecTypeOK, ExecTypeOK', LocalsOK,
         NEW w \in Workers, NEW m \in Msgs, NEW d \in Dests, Push(w)
  PROVE  Account(w, m, d)' + faults <= Account(w, m, d) + faults'
<1>1. /\ pc[w] = "push" /\ cur[w] \in Msgs
      /\ UNCHANGED <<cur, idx, sendErr, unacked, queued, copies>>
  BY DEF Push, brokerVars, LocalsOK, Holding
<1>2. /\ copies[m][d] \in Nat /\ dlq[m] \in Nat /\ faults \in Nat /\ faults' \in Nat
      /\ dlq'[m] \in Nat /\ dlq \in [Msgs -> Nat] /\ pc \in [Workers -> Labels]
  BY DEF ExecTypeOK
<1>3. \/ dlq' = [dlq EXCEPT ![cur[w]] = @ + 1] /\ pc'[w] = "commit" /\ faults' = faults
      \/ /\ dlq' = dlq \/ dlq' = [dlq EXCEPT ![cur[w]] = @ + 1]
         /\ pc'[w] = "nack" /\ faults' = faults + 1
  BY <1>2, FaultsGrow DEF Push, Goto
<1>4. dlq'[m] = dlq[m] \/ (cur[w] = m /\ dlq'[m] = dlq[m] + 1)
  BY <1>1, <1>2, <1>3
<1> DEFINE a == MaySend(cur[w], pc[w], idx[w], m, d)
           b == WillPush(cur[w], pc[w], sendErr[w], m)
           x == MaySend(cur'[w], pc'[w], idx'[w], m, d)
           y == WillPush(cur'[w], pc'[w], sendErr'[w], m)
<1>5. /\ ~a /\ ~y /\ (b <=> cur[w] = m) /\ (x <=> cur[w] = m /\ pc'[w] = "nack")
  BY <1>1, <1>3 DEF MaySend, WillPush
<1>6. /\ Account(w, m, d) = copies[m][d] + dlq[m] + Bit(m \in queued) + Bit(a) + Bit(b)
             + Bit(m \in unacked[w] /\ cur[w] # m)
      /\ Account(w, m, d)' = copies[m][d] + dlq'[m] + Bit(m \in queued) + Bit(x) + Bit(y)
             + Bit(m \in unacked[w] /\ cur[w] # m)
  BY <1>1, AccountValue
<1> HIDE DEF a, b, x, y
<1>7. Bit(m \in queued) \in Nat /\ Bit(m \in unacked[w] /\ cur[w] # m) \in Nat
  BY BitValues
<1>8. dlq'[m] + Bit(x) + Bit(y) + faults <= dlq[m] + Bit(a) + Bit(b) + faults'
  BY <1>2, <1>3, <1>4, <1>5 DEF Bit
<1>9. Bit(x) \in Nat /\ Bit(y) \in Nat /\ Bit(a) \in Nat /\ Bit(b) \in Nat
  BY BitValues
<1> QED BY <1>2, <1>6, <1>7, <1>8, <1>9

(* A step of the broker, or one that gives the message in hand away: what  *)
(* counts is how often m is queued, held for a send, or left unanswered.   *)
LEMMA BrokerPays ==
  ASSUME ExecTypeOK, ExecTypeOK', NEW w \in Workers, NEW m \in Msgs, NEW d \in Dests,
         UNCHANGED <<copies, dlq>>,
         WillPush(cur'[w], pc'[w], sendErr'[w], m) => WillPush(cur[w], pc[w], sendErr[w], m),
         Bit(m \in queued') + Bit(MaySend(cur'[w], pc'[w], idx'[w], m, d))
             + Bit(m \in unacked'[w] /\ cur'[w] # m) + faults
           <= Bit(m \in queued) + Bit(MaySend(cur[w], pc[w], idx[w], m, d))
             + Bit(m \in unacked[w] /\ cur[w] # m) + faults'
  PROVE  Account(w, m, d)' + faults <= Account(w, m, d) + faults'
<1>1. copies[m][d] \in Nat /\ dlq[m] \in Nat /\ faults \in Nat /\ faults' \in Nat
  BY DEF ExecTypeOK
<1> DEFINE q == m \in queued
           a == MaySend(cur[w], pc[w], idx[w], m, d)
           b == WillPush(cur[w], pc[w], sendErr[w], m)
           z == m \in unacked[w] /\ cur[w] # m
<1>2. /\ Account(w, m, d) = copies[m][d] + dlq[m] + Bit(q) + Bit(a) + Bit(b) + Bit(z)
      /\ Account(w, m, d)' = copies[m][d] + dlq[m] + Bit(q') + Bit(a') + Bit(b') + Bit(z')
  BY AccountValue
<1>3. (b' => b) /\ Bit(q') + Bit(a') + Bit(z') + faults <= Bit(q) + Bit(a) + Bit(z) + faults'
  OBVIOUS
<1> HIDE DEF q, a, b, z
<1>4. /\ Bit(q) \in Nat /\ Bit(a) \in Nat /\ Bit(b) \in Nat /\ Bit(z) \in Nat
      /\ Bit(q') \in Nat /\ Bit(a') \in Nat /\ Bit(b') \in Nat /\ Bit(z') \in Nat
  BY BitValues
<1>5. Bit(b') <= Bit(b)
  BY <1>3 DEF Bit
<1> QED BY <1>1, <1>2, <1>3, <1>4, <1>5

LEMMA BrokerStepsPay ==
  ASSUME ExecTypeOK, ExecTypeOK', LocalsOK, HandsEmpty,
         NEW w \in Workers, NEW m \in Msgs, NEW d \in Dests,
         Receive(w) \/ Commit(w) \/ Nack(w) \/ ConnectionLost(w) \/ Redeliver(w)
  PROVE  Account(w, m, d)' + faults <= Account(w, m, d) + faults'
<1>1. /\ faults \in Nat /\ faults' \in Nat /\ pc \in [Workers -> Labels]
      /\ cur \in [Workers -> Msgs \cup {NoMsg}] /\ unacked \in [Workers -> SUBSET Msgs]
      /\ NoMsg # m
  BY MsgsAssumption DEF ExecTypeOK
<1>2. UNCHANGED <<copies, dlq>>
  BY DEF Receive, Commit, Nack, ConnectionLost, Redeliver, sinkVars
<1>3. CASE Receive(w)
  <2>1. PICK n \in queued : /\ queued' = queued \ {n}
                            /\ unacked'[w] = unacked[w] \cup {n} /\ cur'[w] = n
    BY <1>1, <1>3 DEF Receive
  <2>2. cur[w] = NoMsg /\ pc'[w] = "stages" /\ faults' = faults
    BY <1>1, <1>3 DEF Receive, Goto, HandsEmpty
  <2>3. ~WillPush(cur'[w], pc'[w], sendErr'[w], m)
    BY <2>2 DEF WillPush
  <2>4. /\ ~MaySend(cur[w], pc[w], idx[w], m, d)
        /\ MaySend(cur'[w], pc'[w], idx'[w], m, d) <=> n = m
        /\ m \in queued' <=> m \in queued /\ n # m
        /\ n = m => m \in queued
        /\ (m \in unacked'[w] /\ cur'[w] # m) => (m \in unacked[w] /\ cur[w] # m)
    BY <1>1, <2>1, <2>2 DEF MaySend
  <2>5. Bit(m \in queued') + Bit(MaySend(cur'[w], pc'[w], idx'[w], m, d))
             + Bit(m \in unacked'[w] /\ cur'[w] # m) + faults
           <= Bit(m \in queued) + Bit(MaySend(cur[w], pc[w], idx[w], m, d))
             + Bit(m \in unacked[w] /\ cur[w] # m) + faults'
    BY <1>1, <2>2, <2>4 DEF Bit
  <2> QED BY <1>2, <2>3, <2>5, BrokerPays
<1>4. CASE Commit(w)
  <2>1. /\ pc[w] = "commit" /\ cur'[w] = NoMsg /\ pc'[w] = "top" /\ queued' = queued
        /\ \/ unacked'[w] = unacked[w] \ {cur[w]} /\ faults' = faults
           \/ unacked'[w] = unacked[w] /\ faults' = faults + 1
           \/ unacked'[w] = unacked[w] /\ faults' = faults /\ cur[w] \notin unacked[w]
    BY <1>1, <1>4, FaultsGrow DEF Commit, Return, Goto
  <2>2. /\ ~MaySend(cur[w], pc[w], idx[w], m, d)
        /\ ~MaySend(cur'[w], pc'[w], idx'[w], m, d)
        /\ ~WillPush(cur'[w], pc'[w], sendErr'[w], m)
    BY <1>1, <2>1 DEF MaySend, WillPush
  <2>3. Bit(m \in unacked'[w] /\ cur'[w] # m) + faults
           <= Bit(m \in unacked[w] /\ cur[w] # m) + faults'
    BY <1>1, <2>1 DEF Bit
  <2>4. Bit(m \in queued') + Bit(MaySend(cur'[w], pc'[w], idx'[w], m, d))
             + Bit(m \in unacked'[w] /\ cur'[w] # m) + faults
           <= Bit(m \in queued) + Bit(MaySend(cur[w], pc[w], idx[w], m, d))
             + Bit(m \in unacked[w] /\ cur[w] # m) + faults'
    BY <1>1, <2>1, <2>2, <2>3 DEF Bit
  <2> QED BY <1>2, <2>2, <2>4, BrokerPays
<1>5. CASE Nack(w)
  <2>1. /\ pc[w] = "nack" /\ cur'[w] = NoMsg /\ pc'[w] = "top"
        /\ \/ /\ unacked'[w] = unacked[w] \ {cur[w]} /\ queued' = queued \cup {cur[w]}
              /\ faults' = faults
           \/ unacked'[w] = unacked[w] /\ queued' = queued /\ faults' = faults + 1
           \/ /\ unacked'[w] = unacked[w] /\ queued' = queued /\ faults' = faults
              /\ cur[w] \notin unacked[w]
    BY <1>1, <1>5, FaultsGrow DEF Nack, Return, Goto, brokerVars
  <2>2. /\ MaySend(cur[w], pc[w], idx[w], m, d) <=> cur[w] = m
        /\ ~MaySend(cur'[w], pc'[w], idx'[w], m, d)
        /\ ~WillPush(cur'[w], pc'[w], sendErr'[w], m)
    BY <1>1, <2>1 DEF MaySend, WillPush
  <2>3. Bit(m \in queued') + Bit(MaySend(cur'[w], pc'[w], idx'[w], m, d))
             + Bit(m \in unacked'[w] /\ cur'[w] # m) + faults
           <= Bit(m \in queued) + Bit(MaySend(cur[w], pc[w], idx[w], m, d))
             + Bit(m \in unacked[w] /\ cur[w] # m) + faults'
    <3>1. CASE cur[w] = m
      BY <1>1, <2>1, <2>2, <3>1 DEF Bit
    <3>2. CASE cur[w] # m
      <4>1. /\ m \in queued' <=> m \in queued
            /\ (m \in unacked'[w] /\ cur'[w] # m) => (m \in unacked[w] /\ cur[w] # m)
            /\ faults' >= faults
        BY <1>1, <2>1, <3>2
      <4>2. /\ Bit(MaySend(cur[w], pc[w], idx[w], m, d)) = 0
            /\ Bit(MaySend(cur'[w], pc'[w], idx'[w], m, d)) = 0
        BY <2>2, <3>2 DEF Bit
      <4>3. Bit(m \in queued') = Bit(m \in queued) /\ Bit(m \in queued) \in Nat
        BY <4>1 DEF Bit
      <4>4. /\ Bit(m \in unacked'[w] /\ cur'[w] # m) <= Bit(m \in unacked[w] /\ cur[w] # m)
            /\ Bit(m \in unacked'[w] /\ cur'[w] # m) \in Nat
            /\ Bit(m \in unacked[w] /\ cur[w] # m) \in Nat
        BY <4>1 DEF Bit
      <4> QED BY <1>1, <4>1, <4>2, <4>3, <4>4
    <3> QED BY <3>1, <3>2
  <2> QED BY <1>2, <2>2, <2>3, BrokerPays
<1>6. CASE ConnectionLost(w) \/ Redeliver(w)
  <2>1. /\ UNCHANGED <<cur, pc, idx, sendErr>>
        /\ \/ /\ queued' = queued \cup unacked[w] /\ unacked'[w] = {} /\ faults' = faults + 1
           \/ /\ queued' = queued \cup (unacked[w] \ {cur[w]})
              /\ unacked'[w] = unacked[w] \cap {cur[w]} /\ faults' = faults
    BY <1>1, <1>6, FaultsGrow DEF ConnectionLost, Redeliver, workerVars
  <2>2. /\ ~(m \in unacked'[w] /\ cur'[w] # m)
        /\ \/ faults' = faults + 1
           \/ /\ m \in queued' => m \in queued \/ (m \in unacked[w] /\ cur[w] # m)
              /\ faults' = faults
    BY <1>1, <2>1
  <2>3. /\ Bit(MaySend(cur'[w], pc'[w], idx'[w], m, d)) = Bit(MaySend(cur[w], pc[w], idx[w], m, d))
        /\ WillPush(cur'[w], pc'[w], sendErr'[w], m) => WillPush(cur[w], pc[w], sendErr[w], m)
    BY <2>1
  <2>4. Bit(m \in queued') + Bit(MaySend(cur'[w], pc'[w], idx'[w], m, d))
             + Bit(m \in unacked'[w] /\ cur'[w] # m) + faults
           <= Bit(m \in queued) + Bit(MaySend(cur[w], pc[w], idx[w], m, d))
             + Bit(m \in unacked[w] /\ cur[w] # m) + faults'
    <3>1. Bit(m \in queued') + Bit(m \in unacked'[w] /\ cur'[w] # m) + faults
             <= Bit(m \in queued) + Bit(m \in unacked[w] /\ cur[w] # m) + faults'
      BY <1>1, <2>2 DEF Bit
    <3>2. /\ Bit(m \in queued') \in Nat /\ Bit(m \in unacked'[w] /\ cur'[w] # m) \in Nat
          /\ Bit(m \in queued) \in Nat /\ Bit(m \in unacked[w] /\ cur[w] # m) \in Nat
          /\ Bit(MaySend(cur[w], pc[w], idx[w], m, d)) \in Nat
      BY BitValues
    <3> QED BY <1>1, <2>3, <3>1, <3>2
  <2> QED BY <1>2, <2>3, <2>4, BrokerPays
<1> QED BY <1>3, <1>4, <1>5, <1>6

LEMMA HandsStep ==
  ASSUME ExecTypeOK, LocalsOK, HandsEmpty, [Next]_vars
  PROVE  HandsEmpty'
<1> USE DEF ExecTypeOK, HandsEmpty, Goto, Return
<1>1. ASSUME NEW w \in Workers, WorkerStep(w) PROVE HandsEmpty'
  <2>1. CASE LoopTop(w) \/ ReceiveFails(w)
    BY <2>1 DEF LoopTop, ReceiveFails
  <2>2. CASE Receive(w)
    BY <2>2 DEF Receive
  <2>3. CASE RunStages(w) \/ Gate(w) \/ CheckAndRecord(w)
    BY <2>3 DEF RunStages, Gate, CheckAndRecord
  <2>4. CASE Send(w) \/ RecordResult(w) \/ Snapshot(w)
    BY <2>4 DEF Send, RecordResult, Snapshot
  <2>5. CASE Publish(w) \/ Push(w) \/ ShadowSend(w)
    BY <2>5 DEF Publish, AfterSuccess, Push, ShadowSend
  <2>6. CASE Commit(w) \/ Nack(w)
    BY <2>6 DEF Commit, Nack
  <2> QED BY <1>1, <2>1, <2>2, <2>3, <2>4, <2>5, <2>6 DEF WorkerStep
<1>2. CASE Restart \/ Crash
  BY <1>2 DEF Restart, Crash, NewWorkers
<1>3. CASE UNCHANGED <<pc, cur>>
  BY <1>3
<1> QED BY <1>1, <1>2, <1>3 DEF Next, ConnectionLost, Redeliver, DedupExpire, CooldownTick,
           Cancel, Drained, vars, workerVars

LEMMA PaidStep ==
  ASSUME PaidInv, ExecTypeOK', [Next]_vars
  PROVE  PaidFor'
<1>1. ExecTypeOK /\ LocalsOK /\ HandsEmpty /\ PaidFor
  BY DEF PaidInv
<1>2. ASSUME NEW w \in Workers, WorkerStep(w) \/ ConnectionLost(w) \/ Redeliver(w)
      PROVE  PaidFor'
  <2>1. OthersKeep(w)
    BY <1>1, <1>2, WorkersKeepLocals
  <2>2. ASSUME NEW m \in Msgs, NEW d \in Dests
        PROVE  Account(w, m, d)' + faults <= Account(w, m, d) + faults'
    BY <1>1, <1>2, LabelStepsPay, SendPays, PushPays, BrokerStepsPay DEF WorkerStep
  <2> QED BY <1>1, <2>1, <2>2, OneWorkerPays
<1>3. ASSUME UNCHANGED <<copies, dlq, queued, unacked, cur, pc, idx, sendErr>>, faults' >= faults
      PROVE  PaidFor'
  <2>1. ASSUME NEW m \in Msgs, NEW d \in Dests
        PROVE  copies'[m][d] + dlq'[m] + Bit(m \in queued') + Cardinality(Forwarding(m, d)')
                 + Cardinality(Failing(m)') + Cardinality(Stale(m)') <= 1 + faults'
    <3>1. /\ Forwarding(m, d)' = Forwarding(m, d) /\ Failing(m)' = Failing(m)
          /\ Stale(m)' = Stale(m)
      BY <1>3 DEF Forwarding, Failing, Stale
    <3>2. copies'[m][d] + dlq'[m] + Bit(m \in queued') + Cardinality(Forwarding(m, d)')
            + Cardinality(Failing(m)') + Cardinality(Stale(m)') <= 1 + faults
      BY <1>1, <1>3, <3>1 DEF PaidFor
    <3>3. /\ copies'[m][d] + dlq'[m] + Bit(m \in queued') + Cardinality(Forwarding(m, d)')
            + Cardinality(Failing(m)') + Cardinality(Stale(m)') \in Int
          /\ faults \in Nat /\ faults' \in Nat
      <4>1. copies'[m][d] \in Nat /\ dlq'[m] \in Nat /\ faults \in Nat /\ faults' \in Nat
        BY <1>1 DEF ExecTypeOK
      <4>2. Bit(m \in queued') \in Nat
        BY BitValues
      <4>3. /\ Cardinality(Forwarding(m, d)') \in Nat /\ Cardinality(Failing(m)') \in Nat
            /\ Cardinality(Stale(m)') \in Nat
        BY WorkerSets DEF Forwarding, Failing, Stale
      <4> QED BY <4>1, <4>2, <4>3
    <3> QED BY <1>3, <3>2, <3>3
  <2> QED BY <2>1 DEF PaidFor
<1>4. CASE Crash
  <2> SUFFICES ASSUME NEW m \in Msgs, NEW d \in Dests
               PROVE  copies'[m][d] + dlq'[m] + Bit(m \in queued') + Cardinality(Forwarding(m, d)')
                        + Cardinality(Failing(m)') + Cardinality(Stale(m)') <= 1 + faults'
    BY DEF PaidFor
  <2>1. /\ UNCHANGED <<copies, dlq>> /\ faults' = faults + 1
        /\ cur' = [w \in Workers |-> NoMsg] /\ unacked' = [w \in Workers |-> {}]
    BY <1>1, <1>4, FaultsGrow DEF Crash, NewWorkers, sinkVars
  <2>2. Forwarding(m, d)' = {} /\ Failing(m)' = {} /\ Stale(m)' = {}
    BY <2>1, MsgsAssumption DEF Forwarding, Failing, Stale, MaySend, WillPush
  <2>3. /\ Cardinality(Forwarding(m, d)) \in Nat /\ Cardinality(Failing(m)) \in Nat
        /\ Cardinality(Stale(m)) \in Nat /\ Cardinality({}) = 0
    BY WorkerSets, FS_EmptySet DEF Forwarding, Failing, Stale
  <2>4. copies[m][d] \in Nat /\ dlq[m] \in Nat /\ faults \in Nat
        /\ Bit(m \in queued) \in {0, 1} /\ Bit(m \in queued') \in {0, 1}
    <3>1. copies[m][d] \in Nat /\ dlq[m] \in Nat /\ faults \in Nat
      BY <1>1 DEF ExecTypeOK
    <3>2. Bit(m \in queued) \in {0, 1} /\ Bit(m \in queued') \in {0, 1}
      BY BitValues
    <3> QED BY <3>1, <3>2
  <2>5. copies[m][d] + dlq[m] + Bit(m \in queued) + Cardinality(Forwarding(m, d))
          + Cardinality(Failing(m)) + Cardinality(Stale(m)) <= 1 + faults
    BY <1>1 DEF PaidFor
  <2> QED BY <2>1, <2>2, <2>3, <2>4, <2>5
<1>5. CASE Restart
  <2>1. \A w \in Workers : pc[w] = "exited" /\ cur[w] = NoMsg /\ idx[w] = 1 /\ sendErr[w] = FALSE
    BY <1>1, <1>5 DEF Restart, HandsEmpty, LocalsOK, BeforeSend
  <2>2. /\ UNCHANGED <<copies, dlq, queued, unacked, faults>>
        /\ \A w \in Workers : cur'[w] = NoMsg
    BY <1>5 DEF Restart, NewWorkers, brokerVars, sinkVars
  <2> SUFFICES ASSUME NEW m \in Msgs, NEW d \in Dests
               PROVE  copies'[m][d] + dlq'[m] + Bit(m \in queued') + Cardinality(Forwarding(m, d)')
                        + Cardinality(Failing(m)') + Cardinality(Stale(m)') <= 1 + faults'
    BY DEF PaidFor
  <2>3. /\ Forwarding(m, d)' = Forwarding(m, d) /\ Failing(m)' = Failing(m)
        /\ Stale(m)' = Stale(m)
    BY <2>1, <2>2, MsgsAssumption DEF Forwarding, Failing, Stale, MaySend, WillPush
  <2> QED BY <1>1, <2>2, <2>3 DEF PaidFor
<1>6. CASE \/ \E p \in Payloads : DedupExpire(p)
           \/ CooldownTick \/ Cancel \/ Drained \/ UNCHANGED vars
  <2>1. UNCHANGED <<copies, dlq, queued, unacked, cur, pc, idx, sendErr>>
    BY <1>6 DEF DedupExpire, CooldownTick, Cancel, Drained, vars, workerVars, brokerVars, sinkVars
  <2>2. faults' >= faults
    BY <1>1, <1>6, FaultsGrow DEF DedupExpire, CooldownTick, Cancel, Drained, vars
  <2> QED BY <1>3, <2>1, <2>2
<1> QED BY <1>2, <1>4, <1>5, <1>6 DEF Next

(* Nothing is duplicated for free (executor.go, processOne and finalize):  *)
(* with or without a dedup window, for any number of workers and crashes,  *)
(* copies at a destination and DLQ rows beyond the first are no more than  *)
(* what went wrong; the breaker's nacks add none.                          *)
THEOREM DuplicatesArePaidFor == Spec => []DuplicatesAreFaults
<1>1. Init => PaidInv
  <2> SUFFICES ASSUME Init PROVE PaidInv
    OBVIOUS
  <2>1. ExecTypeOK /\ LocalsOK /\ BreakerTypeOK
    BY TypeInit
  <2>2. HandsEmpty
    BY DEF Init, HandsEmpty
  <2>3. ASSUME NEW m \in Msgs, NEW d \in Dests
        PROVE  copies[m][d] + dlq[m] + Bit(m \in queued) + Cardinality(Forwarding(m, d))
                 + Cardinality(Failing(m)) + Cardinality(Stale(m)) <= 1 + faults
    <3>1. Forwarding(m, d) = {} /\ Failing(m) = {} /\ Stale(m) = {}
      BY MsgsAssumption DEF Init, Forwarding, Failing, Stale, MaySend, WillPush
    <3>2. copies[m][d] = 0 /\ dlq[m] = 0 /\ faults = 0 /\ Bit(m \in queued) \in {0, 1}
      BY BitValues DEF Init
    <3> QED BY <3>1, <3>2, FS_EmptySet
  <2> QED BY <2>1, <2>2, <2>3 DEF PaidInv, PaidFor
<1>2. PaidInv /\ [Next]_vars => PaidInv'
  BY TypeStep, BreakerStep, BreakerTypeStep, HandsStep, PaidStep DEF PaidInv
<1>3. PaidInv => DuplicatesAreFaults
  <2> SUFFICES ASSUME PaidInv, NEW m \in Msgs, NEW d \in Dests
               PROVE  copies[m][d] + dlq[m] <= 1 + faults
    BY DEF DuplicatesAreFaults
  <2>1. /\ Cardinality(Forwarding(m, d)) \in Nat /\ Cardinality(Failing(m)) \in Nat
        /\ Cardinality(Stale(m)) \in Nat /\ Bit(m \in queued) \in Nat
    BY WorkerSets, BitValues DEF Forwarding, Failing, Stale
  <2>2. copies[m][d] \in Nat /\ dlq[m] \in Nat /\ faults \in Nat
    BY DEF PaidInv, ExecTypeOK
  <2>3. copies[m][d] + dlq[m] + Bit(m \in queued) + Cardinality(Forwarding(m, d))
          + Cardinality(Failing(m)) + Cardinality(Stale(m)) <= 1 + faults
    BY DEF PaidInv, PaidFor
  <2> QED BY <2>1, <2>2, <2>3
<1> QED BY <1>1, <1>2, <1>3, PTL DEF Spec

-----------------------------------------------------------------------------
(* The dedup window.  A row, once written, stands for the one send it lets *)
(* through; an absent row, and a worker that passed the check and has not  *)
(* sent to d yet, each stand for a copy still to come.                     *)
WillSend(l, c, i, p, d) ==
  l = "send" /\ Payload[c] = p /\ \E j \in i..Len(Route[c]) : Route[c][j] = d
Sending(p, d) == {w \in Workers : WillSend(pc[w], cur[w], idx[w], p, d)}

Window(p, d) ==
  /\ IsFiniteSet(Arrivals(p, d))
  /\ Cardinality(Arrivals(p, d)) + Cardinality(Sending(p, d)) + Bit(p \notin seen)
        <= 1 + lapses[p]

WindowInv ==
  /\ ExecTypeOK /\ LocalsOK /\ BreakerTypeOK
  /\ DedupOn => \A p \in Payloads, d \in Dests : Window(p, d)

(* A copy is counted once: by its message and its number. *)
LEMMA ArrivalsDef ==
  ASSUME NEW p, NEW d
  PROVE  /\ \A x : x \in Arrivals(p, d) <=>
                     \E m \in Msgs : Payload[m] = p /\ \E k \in 1..copies[m][d] : x = <<m, k>>
         /\ \A x : x \in Arrivals(p, d)' <=>
                     \E m \in Msgs : Payload[m] = p /\ \E k \in 1..copies'[m][d] : x = <<m, k>>
  BY DEF Arrivals

(* What a step must show of one payload and destination: what arrives and  *)
(* what may be sent is paid for by the row that is written, the copy that  *)
(* is no longer to come, or the lapse that is counted.                     *)
LEMMA WindowMoves ==
  ASSUME ExecTypeOK, ExecTypeOK', NEW p \in Payloads, NEW d \in Dests, Window(p, d),
         NEW X, IsFiniteSet(X), Arrivals(p, d)' \subseteq Arrivals(p, d) \cup X,
         Cardinality(X) + Cardinality(Sending(p, d)') + Bit(p \notin seen') + lapses[p]
            <= Cardinality(Sending(p, d)) + Bit(p \notin seen) + lapses'[p]
  PROVE  Window(p, d)'
<1> DEFINE A == Arrivals(p, d)
<1>1. /\ IsFiniteSet(A \cup X) /\ IsFiniteSet(A) /\ IsFiniteSet(A \cap X)
      /\ Cardinality(A \cup X) = Cardinality(A) + Cardinality(X) - Cardinality(A \cap X)
  BY FS_Union, FS_Subset DEF Window
<1>2. IsFiniteSet(A') /\ Cardinality(A') <= Cardinality(A \cup X)
  BY <1>1, FS_Subset
<1>3. /\ Cardinality(A) \in Nat /\ Cardinality(A') \in Nat /\ Cardinality(X) \in Nat
      /\ Cardinality(A \cup X) \in Nat /\ Cardinality(A \cap X) \in Nat
  BY <1>1, <1>2, FS_CardinalityType
<1>4. Cardinality(Sending(p, d)) \in Nat /\ Cardinality(Sending(p, d)') \in Nat
  BY WorkerSets DEF Sending
<1>5. lapses[p] \in Nat /\ lapses'[p] \in Nat
  BY DEF ExecTypeOK
<1>6. Bit(p \notin seen) \in Nat /\ Bit(p \notin seen') \in Nat
  BY BitValues
<1>7. Cardinality(A) + Cardinality(Sending(p, d)) + Bit(p \notin seen) <= 1 + lapses[p]
  BY DEF Window
<1> HIDE DEF A
<1>8. Cardinality(A') + Cardinality(Sending(p, d)') + Bit(p \notin seen') <= 1 + lapses'[p]
  BY <1>1, <1>2, <1>3, <1>4, <1>5, <1>6, <1>7
<1> QED BY <1>2, <1>8 DEF Window, A

(* Nobody passes the check, nothing is sent *)
LEMMA WindowKept ==
  ASSUME ExecTypeOK, ExecTypeOK', NEW p \in Payloads, NEW d \in Dests, Window(p, d),
         UNCHANGED <<copies, seen, lapses>>,
         \A w \in Workers : pc'[w] = "send" =>
            pc[w] = "send" /\ cur'[w] = cur[w] /\ idx'[w] = idx[w]
  PROVE  Window(p, d)'
<1>1. Arrivals(p, d)' \subseteq Arrivals(p, d) \cup {}
  BY ArrivalsDef
<1>2. Sending(p, d)' \subseteq Sending(p, d) /\ Sending(p, d) \in SUBSET Workers
  BY DEF Sending, WillSend
<1>3. Cardinality(Sending(p, d)') <= Cardinality(Sending(p, d))
  BY <1>2, WorkerSets, FS_Subset
<1>4. Cardinality(Sending(p, d)) \in Nat /\ Cardinality(Sending(p, d)') \in Nat
  BY WorkerSets DEF Sending
<1>5. lapses[p] \in Nat /\ Bit(p \notin seen) \in Nat /\ IsFiniteSet({}) /\ Cardinality({}) = 0
  <2>1. lapses[p] \in Nat
    BY DEF ExecTypeOK
  <2>2. Bit(p \notin seen) \in Nat
    BY BitValues
  <2> QED BY <2>1, <2>2, FS_EmptySet
<1>6. Cardinality({}) + Cardinality(Sending(p, d)') + Bit(p \notin seen') + lapses[p]
         <= Cardinality(Sending(p, d)) + Bit(p \notin seen) + lapses'[p]
  BY <1>3, <1>4, <1>5
<1> QED BY <1>1, <1>5, <1>6, WindowMoves

(* CheckAndRecord: whoever passes has written the row or failed open. *)
LEMMA CheckKeepsWindow ==
  ASSUME ExecTypeOK, ExecTypeOK', LocalsOK, NEW p \in Payloads, NEW d \in Dests, Window(p, d),
         NEW w \in Workers, CheckAndRecord(w)
  PROVE  Window(p, d)'
<1> DEFINE q == Payload[cur[w]]
<1>1. /\ pc[w] = "dedup" /\ UNCHANGED <<copies, cur, idx>>
      /\ \A v \in Workers \ {w} : pc'[v] = pc[v]
      /\ \/ q \notin seen /\ seen' = seen \cup {q} /\ lapses' = lapses
         \/ UNCHANGED <<seen, lapses>> /\ pc'[w] = "commit"
         \/ seen' \in {seen, seen \cup {q}} /\ lapses' = [lapses EXCEPT ![q] = @ + 1]
  BY DEF CheckAndRecord, Goto, ExecTypeOK, sinkVars, dedupVars
<1>2. CASE p # q \/ pc'[w] = "commit"
  <2>1. Arrivals(p, d)' \subseteq Arrivals(p, d) \cup {}
    BY <1>1, ArrivalsDef
  <2>2. Sending(p, d)' \subseteq Sending(p, d) /\ Sending(p, d) \in SUBSET Workers
    BY <1>1, <1>2 DEF Sending, WillSend
  <2>3. Cardinality(Sending(p, d)') <= Cardinality(Sending(p, d))
    BY <2>2, WorkerSets, FS_Subset
  <2>4. Cardinality(Sending(p, d)) \in Nat /\ Cardinality(Sending(p, d)') \in Nat
    BY WorkerSets DEF Sending
  <2>5. lapses'[p] >= lapses[p] /\ lapses[p] \in Nat /\ lapses'[p] \in Nat
    BY <1>1 DEF ExecTypeOK
  <2>6. p \notin seen' => p \notin seen
    BY <1>1
  <2>7. Bit(p \notin seen') <= Bit(p \notin seen) /\ Bit(p \notin seen') \in Nat /\ Bit(p \notin seen) \in Nat
    BY <2>6 DEF Bit
  <2>8. IsFiniteSet({}) /\ Cardinality({}) = 0
    BY FS_EmptySet
  <2>9. Cardinality({}) + Cardinality(Sending(p, d)') + Bit(p \notin seen') + lapses[p]
           <= Cardinality(Sending(p, d)) + Bit(p \notin seen) + lapses'[p]
    BY <2>3, <2>4, <2>5, <2>7, <2>8
  <2> QED BY <2>1, <2>8, <2>9, WindowMoves
<1>3. CASE p = q /\ pc'[w] # "commit"
  <2>1. Arrivals(p, d)' \subseteq Arrivals(p, d) \cup {}
    BY <1>1, ArrivalsDef
  <2>2. /\ Sending(p, d)' \subseteq Sending(p, d) \cup {w} /\ w \notin Sending(p, d)
        /\ Sending(p, d) \in SUBSET Workers
    BY <1>1 DEF Sending, WillSend
  <2>3. /\ Cardinality(Sending(p, d) \cup {w}) = Cardinality(Sending(p, d)) + 1
        /\ Sending(p, d) \cup {w} \in SUBSET Workers
    BY <2>2, OneWorker
  <2>4. Cardinality(Sending(p, d)') <= Cardinality(Sending(p, d) \cup {w})
    BY <2>2, <2>3, WorkerSets, FS_Subset
  <2>5. Cardinality(Sending(p, d)) \in Nat /\ Cardinality(Sending(p, d)') \in Nat
    BY WorkerSets DEF Sending
  <2>6. lapses[p] \in Nat /\ lapses'[p] \in Nat
    BY DEF ExecTypeOK
  <2>7. \/ p \notin seen /\ p \in seen' /\ lapses'[p] = lapses[p]
        \/ (p \notin seen' => p \notin seen) /\ lapses'[p] = lapses[p] + 1
    BY <1>1, <1>3 DEF ExecTypeOK
  <2>8. /\ Bit(p \notin seen') + lapses[p] + 1 <= Bit(p \notin seen) + lapses'[p]
        /\ Bit(p \notin seen') \in Nat /\ Bit(p \notin seen) \in Nat
    BY <2>6, <2>7 DEF Bit
  <2>9. IsFiniteSet({}) /\ Cardinality({}) = 0
    BY FS_EmptySet
  <2>10. Cardinality({}) + Cardinality(Sending(p, d)') + Bit(p \notin seen') + lapses[p]
            <= Cardinality(Sending(p, d)) + Bit(p \notin seen) + lapses'[p]
    BY <2>3, <2>4, <2>5, <2>6, <2>8, <2>9
  <2> QED BY <2>1, <2>9, <2>10, WindowMoves
<1> QED BY <1>2, <1>3

(* Send: the copy that arrives was to come from this worker, and only once *)
(* because a route names a destination once.                               *)
LEMMA SendKeepsWindow ==
  ASSUME ExecTypeOK, ExecTypeOK', LocalsOK, NEW p \in Payloads, NEW d \in Dests, Window(p, d),
         NEW w \in Workers, Send(w)
  PROVE  Window(p, d)'
<1> DEFINE c == cur[w]
           i == idx[w]
           n == Len(Route[c])
           e == Route[c][i]
<1>1. pc[w] = "send" /\ c \in Msgs /\ i \in 1..n /\ n \in Nat /\ e \in Dests
  BY RouteFacts DEF Send, LocalsOK, Holding
<1>2. /\ UNCHANGED <<cur, seen, lapses>>
      /\ idx'[w] = i + 1 /\ pc'[w] = (IF i = n THEN "record" ELSE "send")
      /\ \A v \in Workers \ {w} : pc'[v] = pc[v] /\ idx'[v] = idx[v]
  BY DEF Send, Goto, dedupVars, ExecTypeOK
<1>3. copies' = copies \/ copies' = [copies EXCEPT ![c][e] = @ + 1]
  BY DEF Send
<1>4. WillSend(pc'[w], cur'[w], idx'[w], p, d) => WillSend(pc[w], cur[w], idx[w], p, d)
  BY <1>1, <1>2 DEF WillSend
<1>5. Sending(p, d)' \subseteq Sending(p, d) /\ Sending(p, d) \in SUBSET Workers
  BY <1>2, <1>4 DEF Sending
<1>6. Cardinality(Sending(p, d)) \in Nat /\ Cardinality(Sending(p, d)') \in Nat
  BY WorkerSets DEF Sending
<1>7. lapses[p] \in Nat /\ Bit(p \notin seen) \in Nat
  <2>1. lapses[p] \in Nat
    BY DEF ExecTypeOK
  <2>2. Bit(p \notin seen) \in Nat
    BY BitValues
  <2> QED BY <2>1, <2>2
<1>8. copies \in [Msgs -> [Dests -> Nat]]
  BY DEF ExecTypeOK
<1>9. CASE Payload[c] = p /\ e = d
  <2>1. WillSend(pc[w], cur[w], idx[w], p, d)
    BY <1>1, <1>9 DEF WillSend
  <2>2. ~WillSend(pc'[w], cur'[w], idx'[w], p, d)
    BY <1>1, <1>2, <1>9, RouteAssumption DEF WillSend
  <2>3. Sending(p, d)' \subseteq Sending(p, d) \ {w} /\ w \in Sending(p, d)
    BY <1>5, <2>1, <2>2 DEF Sending
  <2>4. /\ Cardinality(Sending(p, d) \ {w}) = Cardinality(Sending(p, d)) - 1
        /\ Sending(p, d) \ {w} \in SUBSET Workers
    BY <1>5, <2>3, OneWorker
  <2>5. Cardinality(Sending(p, d)') <= Cardinality(Sending(p, d) \ {w})
    BY <2>3, <2>4, WorkerSets, FS_Subset
  <2> DEFINE k == copies[c][e] + 1
             X == {<<c, k>>}
  <2>6. IsFiniteSet(X) /\ Cardinality(X) = 1
    BY FS_Singleton
  <2>7. Arrivals(p, d)' \subseteq Arrivals(p, d) \cup X
    <3> SUFFICES ASSUME NEW x \in Arrivals(p, d)', x \notin Arrivals(p, d) PROVE x = <<c, k>>
      OBVIOUS
    <3>1. PICK m \in Msgs : Payload[m] = p /\ \E j \in 1..copies'[m][d] : x = <<m, j>>
      BY ArrivalsDef
    <3>2. PICK j \in 1..copies'[m][d] : x = <<m, j>>
      BY <3>1
    <3>3. ~(j \in 1..copies[m][d])
      BY <3>1, <3>2, ArrivalsDef
    <3>4. c \in Msgs /\ e \in Dests /\ e = d
      BY <1>1, <1>9
    <3> HIDE DEF c, e
    <3>5. m = c /\ copies'[m][d] = copies[m][d] + 1
      BY <1>3, <1>8, <3>3, <3>4
    <3>6. copies[m][d] \in Nat
      BY <1>8, <3>4, <3>5
    <3>7. j = copies[m][d] + 1
      BY <3>3, <3>5, <3>6
    <3> QED BY <3>2, <3>4, <3>5, <3>7
  <2> HIDE DEF X
  <2>8. Cardinality(X) + Cardinality(Sending(p, d)') + Bit(p \notin seen') + lapses[p]
           <= Cardinality(Sending(p, d)) + Bit(p \notin seen) + lapses'[p]
    BY <1>2, <1>6, <1>7, <2>4, <2>5, <2>6
  <2> QED BY <2>6, <2>7, <2>8, WindowMoves
<1>10. CASE ~(Payload[c] = p /\ e = d)
  <2>1. \A m \in Msgs : Payload[m] = p => copies'[m][d] = copies[m][d]
    <3>1. c \in Msgs /\ e \in Dests
      BY <1>1
    <3> HIDE DEF c, e
    <3> QED BY <1>3, <1>8, <1>10, <3>1
  <2>2. Arrivals(p, d)' \subseteq Arrivals(p, d) \cup {}
    BY <2>1, ArrivalsDef
  <2>3. Cardinality(Sending(p, d)') <= Cardinality(Sending(p, d))
    BY <1>5, WorkerSets, FS_Subset
  <2>4. IsFiniteSet({}) /\ Cardinality({}) = 0
    BY FS_EmptySet
  <2>5. Cardinality({}) + Cardinality(Sending(p, d)') + Bit(p \notin seen') + lapses[p]
           <= Cardinality(Sending(p, d)) + Bit(p \notin seen) + lapses'[p]
    BY <1>2, <1>6, <1>7, <2>3, <2>4
  <2> QED BY <2>2, <2>4, <2>5, WindowMoves
<1> QED BY <1>9, <1>10

(* A row that expires lets one more send through, and is counted. *)
LEMMA ExpiryKeepsWindow ==
  ASSUME ExecTypeOK, ExecTypeOK', NEW p \in Payloads, NEW d \in Dests, Window(p, d),
         NEW q \in Payloads, DedupExpire(q)
  PROVE  Window(p, d)'
<1>1. /\ UNCHANGED <<copies, pc, cur, idx>>
      /\ q \in seen /\ seen' = seen \ {q} /\ lapses' = [lapses EXCEPT ![q] = @ + 1]
  BY DEF DedupExpire, workerVars, sinkVars
<1>2. Arrivals(p, d)' \subseteq Arrivals(p, d) \cup {} /\ Sending(p, d)' = Sending(p, d)
  BY <1>1, ArrivalsDef DEF Sending
<1>3. Cardinality(Sending(p, d)) \in Nat
  BY WorkerSets DEF Sending
<1>4. lapses[p] \in Nat /\ lapses'[p] \in Nat
  BY DEF ExecTypeOK
<1>5. \/ p = q /\ p \in seen /\ lapses'[p] = lapses[p] + 1
      \/ (p \notin seen' <=> p \notin seen) /\ lapses'[p] = lapses[p]
  BY <1>1 DEF ExecTypeOK
<1>6. /\ Bit(p \notin seen') + lapses[p] <= Bit(p \notin seen) + lapses'[p]
      /\ Bit(p \notin seen') \in Nat /\ Bit(p \notin seen) \in Nat
  BY <1>4, <1>5 DEF Bit
<1>7. IsFiniteSet({}) /\ Cardinality({}) = 0
  BY FS_EmptySet
<1>8. Cardinality({}) + Cardinality(Sending(p, d)') + Bit(p \notin seen') + lapses[p]
         <= Cardinality(Sending(p, d)) + Bit(p \notin seen) + lapses'[p]
  BY <1>2, <1>3, <1>4, <1>6, <1>7
<1> QED BY <1>2, <1>7, <1>8, WindowMoves

(* With a window, no other step lets a worker into the forward loop. *)
LEMMA OthersKeepWindow ==
  ASSUME ExecTypeOK, DedupOn, [Next]_vars,
         \A w \in Workers : ~CheckAndRecord(w) /\ ~Send(w),
         \A p \in Payloads : ~DedupExpire(p)
  PROVE  /\ UNCHANGED <<copies, seen, lapses>>
         /\ \A w \in Workers : pc'[w] = "send" =>
               pc[w] = "send" /\ cur'[w] = cur[w] /\ idx'[w] = idx[w]
<1> USE DEF ExecTypeOK, Goto, Return, sinkVars, dedupVars, workerVars
<1> DEFINE P == /\ UNCHANGED <<copies, seen, lapses>>
                /\ \A w \in Workers : pc'[w] = "send" =>
                      pc[w] = "send" /\ cur'[w] = cur[w] /\ idx'[w] = idx[w]
<1>1. ASSUME NEW w \in Workers, LoopTop(w) \/ ReceiveFails(w) PROVE P
  BY <1>1 DEF LoopTop, ReceiveFails
<1>2. ASSUME NEW w \in Workers, Receive(w) PROVE P
  BY <1>2 DEF Receive
<1>3. ASSUME NEW w \in Workers, RunStages(w) PROVE P
  BY <1>3 DEF RunStages
<1>4. ASSUME NEW w \in Workers, Gate(w) PROVE P
  BY <1>4 DEF Gate
<1>5. ASSUME NEW w \in Workers, RecordResult(w) \/ Snapshot(w) PROVE P
  BY <1>5 DEF RecordResult, Snapshot
<1>6. ASSUME NEW w \in Workers, Publish(w) PROVE P
  BY <1>6 DEF Publish, AfterSuccess
<1>7. ASSUME NEW w \in Workers, Push(w) PROVE P
  BY <1>7 DEF Push
<1>8. ASSUME NEW w \in Workers, ShadowSend(w) PROVE P
  BY <1>8 DEF ShadowSend
<1>9. ASSUME NEW w \in Workers, Commit(w) \/ Nack(w) PROVE P
  BY <1>9 DEF Commit, Nack
<1>10. ASSUME NEW w \in Workers, ConnectionLost(w) \/ Redeliver(w) PROVE P
  BY <1>10 DEF ConnectionLost, Redeliver
<1>11. CASE Restart \/ Crash
  BY <1>11 DEF Restart, Crash, NewWorkers
<1>12. CASE CooldownTick \/ Cancel \/ Drained \/ UNCHANGED vars
  BY <1>12 DEF CooldownTick, Cancel, Drained, vars
<1> QED BY <1>1, <1>2, <1>3, <1>4, <1>5, <1>6, <1>7, <1>8, <1>9, <1>10, <1>11, <1>12
           DEF Next, WorkerStep

(* The dedup window works under concurrency (storage/dedup.go,             *)
(* CheckAndRecord): for any number of workers, redeliveries, crashes and   *)
(* restarts, the messages of one payload put no more copies at a           *)
(* destination than one, plus one for each row that expired and each check *)
(* that failed open.                                                       *)
THEOREM WindowCollapses == Spec => []DedupCollapses
<1>1. Init => WindowInv
  <2> SUFFICES ASSUME Init PROVE WindowInv
    OBVIOUS
  <2>1. ASSUME NEW p \in Payloads, NEW d \in Dests PROVE Window(p, d)
    <3>1. \A m \in Msgs : copies[m][d] = 0
      BY DEF Init
    <3>2. Arrivals(p, d) = {}
      BY <3>1, ArrivalsDef
    <3>3. Sending(p, d) = {}
      BY DEF Init, Sending, WillSend
    <3>4. IsFiniteSet({}) /\ Cardinality({}) = 0
      BY FS_EmptySet
    <3>5. lapses[p] = 0 /\ Bit(p \notin seen) \in {0, 1}
      BY BitValues DEF Init
    <3> QED BY <3>2, <3>3, <3>4, <3>5 DEF Window
  <2> QED BY <2>1, TypeInit DEF WindowInv
<1>2. WindowInv /\ [Next]_vars => WindowInv'
  <2> SUFFICES ASSUME WindowInv, [Next]_vars PROVE WindowInv'
    OBVIOUS
  <2>1. ExecTypeOK' /\ LocalsOK' /\ BreakerTypeOK'
    BY TypeStep, BreakerStep, BreakerTypeStep DEF WindowInv
  <2>2. ASSUME DedupOn, NEW p \in Payloads, NEW d \in Dests PROVE Window(p, d)'
    <3>1. ExecTypeOK /\ LocalsOK /\ Window(p, d)
      BY <2>2 DEF WindowInv
    <3>2. CASE \E w \in Workers : CheckAndRecord(w)
      BY <2>1, <3>1, <3>2, CheckKeepsWindow
    <3>3. CASE \E w \in Workers : Send(w)
      BY <2>1, <3>1, <3>3, SendKeepsWindow
    <3>4. CASE \E q \in Payloads : DedupExpire(q)
      BY <2>1, <3>1, <3>4, ExpiryKeepsWindow
    <3>5. CASE /\ \A w \in Workers : ~CheckAndRecord(w) /\ ~Send(w)
               /\ \A q \in Payloads : ~DedupExpire(q)
      <4>1. /\ UNCHANGED <<copies, seen, lapses>>
            /\ \A w \in Workers : pc'[w] = "send" =>
                  pc[w] = "send" /\ cur'[w] = cur[w] /\ idx'[w] = idx[w]
        BY <2>2, <3>1, <3>5, OthersKeepWindow
      <4> QED BY <2>1, <3>1, <4>1, WindowKept
    <3> QED BY <3>2, <3>3, <3>4, <3>5
  <2> QED BY <2>1, <2>2 DEF WindowInv
<1>3. WindowInv => DedupCollapses
  <2> SUFFICES ASSUME WindowInv, DedupOn, NEW p \in Payloads, NEW d \in Dests
               PROVE  Cardinality(Arrivals(p, d)) <= 1 + lapses[p]
    BY DEF DedupCollapses
  <2>1. Window(p, d)
    BY DEF WindowInv
  <2>2. Cardinality(Arrivals(p, d)) \in Nat /\ Cardinality(Sending(p, d)) \in Nat
    BY <2>1, FS_CardinalityType, WorkerSets DEF Window, Sending
  <2>3. lapses[p] \in Nat /\ Bit(p \notin seen) \in Nat
    <3>1. lapses[p] \in Nat
      BY DEF WindowInv, ExecTypeOK
    <3>2. Bit(p \notin seen) \in Nat
      BY BitValues
    <3> QED BY <3>1, <3>2
  <2> QED BY <2>1, <2>2, <2>3 DEF Window
<1> QED BY <1>1, <1>2, <1>3, PTL DEF Spec

-----------------------------------------------------------------------------
(* The cached circuit token.  Recording a result, reading the state and    *)
(* publishing it are three critical sections of one worker; with a single  *)
(* worker nobody changes the breaker in between.                           *)
Reporting(w) == pc[w] \in {"send", "record", "snapshot", "publish"}
TokenInv ==
  /\ pc \in [Workers -> Labels] /\ snap \in [Workers -> BreakerStates]
  /\ \A w \in Workers :
       /\ circuit # "none" /\ ~Reporting(w) => circuit = bstate
       /\ pc[w] = "publish" => snap[w] = bstate
       /\ pc[w] # "dedup"

LEMMA TokenStepKeeps ==
  ASSUME ~DedupOn, NEW v \in Workers, Workers = {v}, TokenInv, bstate \in BreakerStates,
         [Next]_vars
  PROVE  TokenInv'
<1> USE DEF TokenInv, Reporting, Labels
<1>1. CASE LoopTop(v) \/ Receive(v) \/ ReceiveFails(v) \/ RunStages(v)
  BY <1>1 DEF LoopTop, Receive, ReceiveFails, RunStages, Goto, breakerVars
<1>2. CASE Gate(v)
  BY <1>2 DEF Gate, Goto, Allow, AllowClosed, AllowProbe, breakerVars
<1>3. CASE CheckAndRecord(v)
  BY <1>3 DEF CheckAndRecord
<1>4. CASE Send(v)
  BY <1>4 DEF Send, Goto, breakerVars
<1>5. CASE RecordResult(v)
  BY <1>5 DEF RecordResult, Goto
<1>6. CASE Snapshot(v)
  BY <1>6 DEF Snapshot, Goto, breakerVars
<1>7. CASE Publish(v)
  BY <1>7 DEF Publish, Goto, AfterSuccess, breakerVars
<1>8. CASE Push(v) \/ ShadowSend(v)
  BY <1>8 DEF Push, ShadowSend, Goto, breakerVars
<1>9. CASE Commit(v) \/ Nack(v)
  BY <1>9 DEF Commit, Nack, Return, Goto, breakerVars, BreakerStates
<1>10. CASE ConnectionLost(v) \/ Redeliver(v) \/ (\E p \in Payloads : DedupExpire(p))
            \/ CooldownTick \/ Cancel \/ Drained \/ UNCHANGED vars
  BY <1>10 DEF ConnectionLost, Redeliver, DedupExpire, CooldownTick, Tick, Cancel,
               Drained, vars, workerVars, breakerVars
<1>11. CASE Restart \/ Crash
  BY <1>11 DEF Restart, Crash, NewWorkers, BreakerStates
<1> QED
  BY <1>1, <1>2, <1>3, <1>4, <1>5, <1>6, <1>7, <1>8, <1>9, <1>10, <1>11
     DEF Next, WorkerStep

(* With one worker, the default, and no dedup window: once the breaker has *)
(* reported, the cached token is its state whenever the worker is between  *)
(* two messages.  Both conditions are needed: two workers publish out of   *)
(* order, and a duplicate that is the probe reports nothing.               *)
THEOREM TokenCurrentAlone ==
  ASSUME ~DedupOn, NEW CONSTANT v \in Workers, Workers = {v}
  PROVE  Spec => []CircuitStateCurrent
<1>1. Init => TokenInv
  BY DEF Init, TokenInv, Reporting, Labels, BreakerStates
<1>2. TokenInv /\ bstate \in BreakerStates /\ [Next]_vars => TokenInv'
  BY TokenStepKeeps
<1>3. TypeOK => bstate \in BreakerStates
  BY DEF TypeOK, BreakerTypeOK
<1>4. TokenInv => CircuitStateCurrent
  BY DEF TokenInv, Reporting, CircuitStateCurrent
<1>5. Spec => []TypeOK
  BY ExecutorTyped
<1> QED BY <1>1, <1>2, <1>3, <1>4, <1>5, PTL DEF Spec
=============================================================================
