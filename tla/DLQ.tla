--------------------------------- MODULE DLQ ---------------------------------
(***************************************************************************)
(* The dead-letter table and everything that works on it: Service.Push,    *)
(* Retry and BulkRetry (src/internal/dlq/dlq.go), the retry reaper         *)
(* (src/internal/dlq/retry.go), the retention sweep                        *)
(* (src/internal/dlq/retention.go) and the statements they issue           *)
(* (src/internal/storage/dlq.go).                                          *)
(*                                                                         *)
(* Retry takes no lock and no transaction: it reads the row, reads the     *)
(* pipeline, increments the counter and sends, each a step of its own.     *)
(* Every replica runs a reaper (it is not gated on leadership) and HTTP    *)
(* callers run Retry and BulkRetry beside them.  The table is shared.      *)
(*                                                                         *)
(* One pipeline owns the rows.  An id is the position of its Push, so ids  *)
(* order rows as created_at does.  When next_retry_at comes is left open:  *)
(* it is set or NULL.  `faults' counts failed writes and process exits,    *)
(* at most MaxFaults.  History: `sent' counts the copies of a row's        *)
(* message that reached the destination while the row is in the table;     *)
(* `leaked' records that a masked form was sent.                           *)
(***************************************************************************)
EXTENDS Integers, FiniteSets, FiniteSetsExt

CONSTANTS MaxPushed,    \* bound on the entries pushed
          Reapers,      \* one retry goroutine per replica
          Admins,       \* HTTP requests that retry
          MaxRetries,   \* Options.MaxRetries (3 unless configured)
          RetryMax,     \* pipelines.retry_max
          BatchSize,    \* ReaperOptions.BatchSize
          MaxRows,      \* retention: rows kept, 0 when disabled
          AgeLimit,     \* retention: whether a maximal age is configured
          Dialect,      \* storage driver
          CanDelete,    \* whether the operator deletes the pipeline
          MaxFaults     \* bound on failed writes and process exits

Ids == 1 .. MaxPushed
NoId == 0
Actors == Reapers \cup Admins

ASSUME ActorsAssumption ==
  /\ MaxPushed \in Nat
  /\ IsFiniteSet(Actors) /\ Reapers \cap Admins = {}
ASSUME LimitsAssumption ==
  /\ MaxRetries \in Nat \ {0} /\ BatchSize \in Nat \ {0} /\ MaxRows \in Nat
  /\ RetryMax \in Nat /\ MaxFaults \in Nat
ASSUME SwitchesAssumption ==
  /\ AgeLimit \in BOOLEAN /\ CanDelete \in BOOLEAN
  /\ Dialect \in {"sqlite", "postgres"}

VARIABLES pushed,       \* entries pushed so far
          present,      \* ids in the table
          count,        \* retry_count
          scheduled,    \* ids whose next_retry_at is set
          masked,       \* ids with redacted = 1 and a sealed raw_msg
          alive,        \* the pipeline row exists
          sealer,       \* the master key is configured
          pc, cur, todo, bulk, ent, res,   \* per caller of Retry
          faults, sent, leaked

table == <<pushed, present, count, scheduled, masked>>
config == <<alive, sealer>>
callers == <<pc, cur, todo, bulk, ent, res>>
history == <<sent, leaked>>
vars == <<table, config, callers, faults, history>>

Steps == {"idle", "next", "get", "pipe", "incr", "send", "after"}
Entries == [count : Nat, masked : BOOLEAN]
NoEntry == [count |-> 0, masked |-> FALSE]

TypeOK ==
  /\ present \subseteq Ids /\ masked \subseteq present /\ scheduled \subseteq present
  /\ pushed \in 0 .. MaxPushed
  /\ count \in [Ids -> Nat]
  /\ alive \in BOOLEAN /\ sealer \in BOOLEAN
  /\ pc \in [Actors -> Steps] /\ cur \in [Actors -> Ids \cup {NoId}]
  /\ todo \in [Actors -> SUBSET Ids] /\ bulk \in [Actors -> BOOLEAN]
  /\ ent \in [Actors -> Entries]
  /\ res \in [Actors -> {"none", "ok", "max", "err"}]
  /\ faults \in 0 .. MaxFaults
  /\ sent \in [Ids -> Nat] /\ leaked \in BOOLEAN

Init ==
  /\ pushed = 0 /\ present = {} /\ scheduled = {} /\ masked = {}
  /\ count = [i \in Ids |-> 0]
  /\ alive = TRUE /\ sealer = TRUE
  /\ pc = [a \in Actors |-> "idle"]
  /\ cur = [a \in Actors |-> NoId]
  /\ todo = [a \in Actors |-> {}]
  /\ bulk = [a \in Actors |-> FALSE]
  /\ ent = [a \in Actors |-> NoEntry]
  /\ res = [a \in Actors |-> "none"]
  /\ faults = 0
  /\ sent = [i \in Ids |-> 0] /\ leaked = FALSE

-----------------------------------------------------------------------------
(* Statements on the table *)

(* f without what it says of the rows of S *)
Forget(f, S) == [i \in Ids |-> IF i \in S THEN 0 ELSE f[i]]

(* DLQRepo.Delete and deleteByIDs; what was known of the rows goes too *)
DeleteRows(S) ==
  /\ present' = present \ S
  /\ scheduled' = scheduled \ S /\ masked' = masked \ S
  /\ count' = Forget(count, S) /\ sent' = Forget(sent, S)

(* nothing is deleted *)
KeepRows == UNCHANGED <<present, scheduled, masked, count, sent>>

(* DLQRepo.ScheduleRetry: an UPDATE that matches nothing changes nothing *)
ScheduleRetry(i, set) ==
  scheduled' = IF set THEN scheduled \cup ({i} \cap present) ELSE scheduled \ {i}

(* DLQRepo.ListDue: of the scheduled rows those whose time has come, at    *)
(* most a batch                                                            *)
DueBatch == {S \in SUBSET scheduled : S # {} /\ Cardinality(S) <= BatchSize}

(* A failed write is logged and forgotten by each of its callers *)
Fault == faults < MaxFaults /\ faults' = faults + 1

-----------------------------------------------------------------------------
(* Service.Push.  While the pipeline is found the row is scheduled: a      *)
(* retry_max of 0 stands for the service default, which is positive.  The  *)
(* row is masked when the rules match and the raw form can be sealed.  An  *)
(* entry of a deleted pipeline is rejected by the foreign key.             *)
Schedules == (IF RetryMax = 0 THEN MaxRetries ELSE RetryMax) > 0

Push(i) ==
  /\ i = pushed + 1 /\ pushed' = i
  /\ \/ ~alive /\ UNCHANGED <<present, scheduled, masked>>
     \/ /\ alive /\ present' = present \cup {i}
        /\ scheduled' = IF Schedules THEN scheduled \cup {i} ELSE scheduled
        /\ \/ UNCHANGED masked
           \/ sealer /\ masked' = masked \cup {i}
  /\ UNCHANGED <<count, config, callers, faults, history>>

-----------------------------------------------------------------------------
(* Service.Retry, called by actor a for cur[a] *)

(* return err *)
Return(a, r) ==
  /\ pc' = [pc EXCEPT ![a] = "after"]
  /\ res' = [res EXCEPT ![a] = r]
  /\ ent' = [ent EXCEPT ![a] = NoEntry]

Goto(a, step) == pc' = [pc EXCEPT ![a] = step] /\ UNCHANGED res

(* mutant: one attempt too many *)
ExhaustedLate(i) == count[i] > MaxRetries
Exhausted(i) == count[i] >= MaxRetries

(* DLQ.Get, then the service-wide cap and the pipeline_id test: the column *)
(* is NULL once the pipeline is deleted.                                   *)
RetryGet(a) ==
  /\ pc[a] = "get"
  /\ LET i == cur[a] IN
       \/ i \notin present /\ Return(a, "err")
       \/ i \in present /\ Exhausted(i) /\ Return(a, "max")
       \/ i \in present /\ ~Exhausted(i) /\ ~alive /\ Return(a, "err")
       \/ /\ i \in present /\ ~Exhausted(i) /\ alive
          /\ ent' = [ent EXCEPT ![a] = [count |-> count[i], masked |-> i \in masked]]
          /\ Goto(a, "pipe")
  /\ UNCHANGED <<table, config, cur, todo, bulk, faults, history>>

Limit == IF RetryMax > MaxRetries THEN RetryMax ELSE MaxRetries

(* Pipelines.Get, then the per-pipeline cap *)
RetryPipe(a) ==
  /\ pc[a] = "pipe"
  /\ IF ~alive THEN Return(a, "err")
     ELSE IF ent[a].count >= Limit THEN Return(a, "max")
     ELSE Goto(a, "incr") /\ ent' = [ent EXCEPT ![a].count = 0]
  /\ UNCHANGED <<table, config, cur, todo, bulk, faults, history>>

(* mutant: only the attempts of requests are counted *)
RetryIncrForgets(a) ==
  /\ pc[a] = "incr"
  /\ count' = IF cur[a] \in present /\ a \in Admins
              THEN [count EXCEPT ![cur[a]] = @ + 1] ELSE count
  /\ UNCHANGED faults
  /\ Goto(a, "send")
  /\ UNCHANGED <<pushed, present, scheduled, masked, config, cur, todo,
                 bulk, ent, history>>
(* IncrementRetry: a missing row or a failed UPDATE does not stop the send *)
RetryIncr(a) ==
  /\ pc[a] = "incr"
  /\ \/ /\ count' = IF cur[a] \in present
                    THEN [count EXCEPT ![cur[a]] = @ + 1] ELSE count
        /\ UNCHANGED faults
     \/ Fault /\ UNCHANGED count
  /\ Goto(a, "send")
  /\ UNCHANGED <<pushed, present, scheduled, masked, config, cur, todo, bulk, ent,
                 history>>

(* mutant: without the key the stored form is sent instead *)
PayloadFallsBack(a) == IF ent[a].masked /\ sealer THEN {"raw"} ELSE {"stored"}
(* The payload Retry puts on the wire: raw_msg, unsealed, of a row read as *)
(* redacted, and none without the key; original_msg as stored of any other *)
Payload(a) == IF ent[a].masked THEN (IF sealer THEN {"raw"} ELSE {}) ELSE {"stored"}

(* What is stored of a redacted row is its masked form *)
Deliver(a, form) ==
  /\ sent' = IF cur[a] \in present THEN [sent EXCEPT ![cur[a]] = @ + 1] ELSE sent
  /\ leaked' = (leaked \/ (form = "stored" /\ (ent[a].masked \/ cur[a] \in masked)))

(* SendMessage succeeds *)
RetrySend(a) ==
  /\ pc[a] = "send"
  /\ \E form \in Payload(a) : Deliver(a, form)
  /\ Return(a, "ok")
  /\ UNCHANGED <<table, config, cur, todo, bulk, faults>>

(* The destination is not found, no connection is had, the payload cannot  *)
(* be unsealed, or SendMessage fails -- before or after the broker has     *)
(* taken the message.                                                      *)
RetryFails(a) ==
  /\ pc[a] = "send"
  /\ \/ UNCHANGED <<sent, leaked>>
     \/ \E form \in Payload(a) : Deliver(a, form)
  /\ Return(a, "err")
  /\ UNCHANGED <<table, config, cur, todo, bulk, faults>>

Retry(a) ==
  RetryGet(a) \/ RetryPipe(a) \/ RetryIncr(a) \/ RetrySend(a) \/ RetryFails(a)

-----------------------------------------------------------------------------
(* The reaper.  reapOnce materialises a batch, then attempts row by row.   *)
ReapOnce(a) ==
  /\ a \in Reapers /\ pc[a] = "idle"
  /\ \E batch \in DueBatch : todo' = [todo EXCEPT ![a] = batch]
  /\ Goto(a, "next")
  /\ UNCHANGED <<table, config, cur, bulk, ent, faults, history>>

(* The caller is done; what it knew is forgotten *)
Idle(a) ==
  /\ pc' = [pc EXCEPT ![a] = "idle"]
  /\ cur' = [cur EXCEPT ![a] = NoId]
  /\ todo' = [todo EXCEPT ![a] = {}]
  /\ bulk' = [bulk EXCEPT ![a] = FALSE]
  /\ res' = [res EXCEPT ![a] = "none"]

(* The loop of reapOnce and of BulkRetry takes the next row, *)
NextRow(a) ==
  /\ pc[a] = "next"
  /\ \E i \in todo[a] :
       /\ cur' = [cur EXCEPT ![a] = i]
       /\ todo' = [todo EXCEPT ![a] = @ \ {i}]
  /\ Goto(a, "get")
  /\ UNCHANGED <<table, config, bulk, ent, faults, history>>

(* ... and is done with it: the last one ends the loop *)
RowDone(a) ==
  \/ todo[a] = {} /\ Idle(a)
  \/ /\ todo[a] # {}
     /\ pc' = [pc EXCEPT ![a] = "next"]
     /\ cur' = [cur EXCEPT ![a] = NoId]
     /\ res' = [res EXCEPT ![a] = "none"]
     /\ UNCHANGED <<todo, bulk>>

(* mutant: an exhausted row is rescheduled like any other failure *)
AttemptOneCycles(a) ==
  /\ a \in Reapers /\ pc[a] = "after"
  /\ ScheduleRetry(cur[a], res[a] # "ok")
  /\ UNCHANGED faults
  /\ RowDone(a)
  /\ UNCHANGED <<pushed, present, count, masked, config, ent, history>>
(* attemptOne, after Retry: success and ErrMaxRetries clear the schedule,  *)
(* any other error sets a later time                                       *)
AttemptOne(a) ==
  /\ a \in Reapers /\ pc[a] = "after"
  /\ \/ /\ ScheduleRetry(cur[a], res[a] = "err")
        /\ UNCHANGED faults
     \/ Fault /\ UNCHANGED scheduled
  /\ RowDone(a)
  /\ UNCHANGED <<pushed, present, count, masked, config, ent, history>>

(* handleRetryDLQ *)
RetryOne(a) ==
  /\ a \in Admins /\ pc[a] = "idle"
  /\ \E i \in present : cur' = [cur EXCEPT ![a] = i]
  /\ Goto(a, "get")
  /\ UNCHANGED <<table, config, todo, bulk, ent, faults, history>>

RetryOneEnds(a) ==
  /\ a \in Admins /\ pc[a] = "after" /\ ~bulk[a]
  /\ Idle(a)
  /\ UNCHANGED <<table, config, ent, faults, history>>

(* handleBulkRetryDLQ: the filter selects any set of rows *)
BulkRetry(a) ==
  /\ a \in Admins /\ pc[a] = "idle"
  /\ \E S \in SUBSET present : S # {} /\ todo' = [todo EXCEPT ![a] = S]
  /\ bulk' = [bulk EXCEPT ![a] = TRUE]
  /\ Goto(a, "next")
  /\ UNCHANGED <<table, config, cur, ent, faults, history>>

(* A retried row is deleted; a failed one is reported and kept.  A failed  *)
(* DELETE is ignored.                                                      *)
BulkRow(a) ==
  /\ a \in Admins /\ pc[a] = "after" /\ bulk[a]
  /\ \/ res[a] = "ok" /\ DeleteRows({cur[a]}) /\ UNCHANGED faults
     \/ res[a] = "ok" /\ Fault /\ KeepRows
     \/ res[a] # "ok" /\ KeepRows /\ UNCHANGED faults
  /\ RowDone(a)
  /\ UNCHANGED <<pushed, config, ent, leaked>>

(* The process of a exits, or its context is cancelled, wherever it is *)
Exit(a) ==
  /\ pc[a] # "idle" /\ Fault
  /\ Idle(a)
  /\ ent' = [ent EXCEPT ![a] = NoEntry]
  /\ UNCHANGED <<table, config, history>>

-----------------------------------------------------------------------------
(* handleDeleteDLQ and handleBulkDeleteDLQ *)
OperatorDeletes ==
  /\ \E S \in SUBSET present : S # {} /\ DeleteRows(S)
  /\ UNCHANGED <<pushed, config, callers, faults, leaked>>

(* Retention.sweep runs PruneOlderThan and then PruneToMaxRows; the first  *)
(* may find nothing, so each can follow the other.                         *)
SweepAge ==
  /\ AgeLimit
  /\ \E cutoff \in 2 .. pushed + 1 : DeleteRows({i \in present : i < cutoff})
  /\ UNCHANGED <<pushed, config, callers, faults, leaked>>

Newer(i) == {j \in present : j > i}
Surplus == {i \in present : Cardinality(Newer(i)) >= MaxRows}

(* PostgreSQL refuses LIMIT -1: the statement fails, the error is logged *)
SweepRows ==
  /\ MaxRows > 0
  /\ IF Dialect = "sqlite" THEN DeleteRows(Surplus) ELSE KeepRows
  /\ UNCHANGED <<pushed, config, callers, faults, leaked>>

(* The operator deletes the pipeline: ON DELETE SET NULL orphans its rows *)
DeletePipeline ==
  /\ CanDelete /\ alive /\ alive' = FALSE
  /\ UNCHANGED <<table, sealer, callers, faults, history>>

(* A restart with or without MQC_MASTER_KEY.  Requests under way keep the  *)
(* service they started with, so it happens between them.                  *)
ChangeKey ==
  /\ \A a \in Actors : pc[a] = "idle"
  /\ Fault /\ sealer' = ~sealer
  /\ UNCHANGED <<table, alive, callers, history>>

Reaper(a) == ReapOnce(a) \/ NextRow(a) \/ Retry(a) \/ AttemptOne(a)
Admin(a) == RetryOne(a) \/ RetryOneEnds(a) \/ BulkRetry(a) \/ NextRow(a) \/ Retry(a) \/ BulkRow(a)

Next ==
  \/ \E i \in Ids : Push(i)
  \/ \E a \in Reapers : Reaper(a)
  \/ \E a \in Admins : Admin(a)
  \/ \E a \in Actors : Exit(a)
  \/ OperatorDeletes \/ SweepAge \/ SweepRows
  \/ DeletePipeline \/ ChangeKey

Spec == Init /\ [][Next]_vars

(* Times come and the goroutines of a live process are scheduled.          *)
(* Nothing makes an operator, a sweep or a fault happen.                   *)
Fairness ==
  \A a \in Reapers : WF_vars(Reaper(a))

FairSpec == Spec /\ Fairness

-----------------------------------------------------------------------------
(* Retry reads the counter in one statement and increments it in another:  *)
(* each caller but one may have passed the test before it came true.  No   *)
(* row is attempted more often than that.                                  *)
OverrunBounded ==
  \A i \in Ids : count[i] <= MaxRetries + Cardinality(Actors) - 1

(* Every copy on the wire was counted first, but for one per failed write: *)
(* a broken destination, a lost answer or two callers at once give no free *)
(* attempt.                                                                *)
CopiesCounted ==
  \A i \in present : sent[i] <= count[i] + faults

(* The destination never receives the masked form of a redacted message,   *)
(* whatever happened to the key between Push and Retry.                    *)
NeverSendsMasked == ~leaked

(* BulkRetry removes no row whose message has not reached the broker, even *)
(* when a reaper, another request or a sweep worked on it meanwhile.       *)
BulkDeletesOnlySent ==
  [][\A a \in Actors : BulkRow(a) => \A i \in present \ present' : sent[i] > 0]_vars

(* While the pipeline exists the reaper lets go of every row for good: it  *)
(* is sent, given up or deleted, whatever failed, exited or changed on the *)
(* way.  (At most MaxPushed rows come.)                                    *)
ScheduleSettles == <>[](scheduled = {} \/ ~alive)

(* What comments and the runbook say, and the code does not do *)

(* Rows of a pipeline whose budget was raised can be retried again *)
RaisedBudgetRetries ==
  [][\A a \in Actors : RetryGet(a) /\ cur[a] \in present /\ count[cur[a]] < Limit
       => res'[a] # "max"]_vars

(* A manual retry that succeeds clears the row's schedule *)
ManualRetryClears ==
  [][\A a \in Admins : RetryOneEnds(a) /\ res[a] = "ok" /\ cur[a] \in present
       => cur[a] \notin scheduled']_vars

(* The number of attempts respects the retry budget *)
BudgetRespected == \A i \in Ids : count[i] <= Limit

(* A pipeline that did not opt in has no row on the reaper's schedule *)
OptInOnly == (RetryMax = 0) => scheduled = {}

(* An entry whose pipeline is gone is still persisted *)
PushPersists == [][\A i \in Ids : Push(i) => i \in present']_vars

(* The reaper lets go of the rows of a deleted pipeline too *)
OrphansSettle ==
  \A i \in Ids : i \in scheduled ~> i \notin scheduled

=============================================================================
