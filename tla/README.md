# mqConnector in TLA+

mqConnector moves messages between brokers (RabbitMQ, Kafka, NATS, AMQP 1.0,
IBM MQ, MQTT).  For each enabled *pipeline* an *executor* runs a few workers;
each worker receives a message from the source, runs it through the stages,
sends it to the destinations (or to the dead-letter queue) and only then
acknowledges the source.  A *manager* starts and stops executors, a *lease* in
the database decides which replica may run them, a *pool* owns the broker
connections, a *dead-letter service* stores and retries what could not be sent.
Around that path, every administrative request leaves a row in a hash-chained
*audit log* that an *archiver* moves to files and an object store, and every
change of a pipeline leaves a *revision* that can be deployed again.

This directory holds TLA+ models of those parts, TLC configurations that check
them on small instances, and TLAPS proofs of what matters most for every size.
Paths of the form `internal/...` and `cmd/...` are relative to `src/`.

1. [Inventory](#1-inventory): the system's parts
2. [Modules](#2-modules-and-how-they-follow-the-code): how the models follow the code
3. [Runs](#3-runs): what TLC checks, bounds, fairness
4. [Theorems](#4-theorems): what TLAPS proves, and from what
5. [Divergences](#5-where-code-and-comments-disagree): where code and comments disagree
6. [Not modelled](#6-what-is-not-modelled)
7. [Plan](#7-plan)

`PROJECT.json` has the same information by machine: every component, each
definition with the source lines it stands for, the hazards with the properties
that watch them, and for each property a mutation of the model that violates it.

Checking it by hand, in this directory:

    tlc -workers 2 -config Executor.cfg MCExecutor
    tlapm ExecutorProofs.tla
    tlc -workers 2 -config Revisions.cfg Revisions

## 1. Inventory

### Parts that carry the message path

| Part | Source | State it keeps | Operations | What makes it correct |
|---|---|---|---|---|
| Executor | `internal/pipeline/executor.go` | per worker: the message in hand, position in the fan-out, send error | `Run`, `runWorker`, `processOne`, `finalize`, `shadowSend`, `publishBreakerState` | a source message is acknowledged only when all its destinations or the DLQ have it; duplicates only after faults; everything settles once faults end |
| Circuit breaker | `internal/pipeline/breaker.go` | state, failure counter, time of opening | `allow`, `recordResult`, `snapshot` | the counter agrees with the state and is bounded; half-open is always left |
| Idempotency window | `internal/storage/dedup.go` | rows (pipeline, key, expiry) | `CheckAndRecord`, `Prune` | one copy per payload and window; a suppressed message is equivalent to a delivered one |
| Manager | `internal/pipeline/manager.go` | the active map, `stopped`, the circuit cache; entries in the metrics store | `Reload`, `Stop`, `StopAll`, `StopAndWait`, the executors' deferred clean-up | one executor per enabled pipeline, the map names live executors only, calls return, shutdown ends |
| Leadership | `internal/leadership/leadership.go`, `cmd/mqconnector/main.go` | the lease row (holder, expiry), `isLeader`, the event channel | `Run`, `attempt`, `promote`, `demote`, `release`, `emit`; main's consumer | at most one leader, which holds a valid row; takeover is bounded; workers follow the role |
| Dead-letter service | `internal/dlq/*.go`, `internal/storage/dlq.go` | rows: retry count, schedule, masked form | `Push`, `Retry`, `BulkRetry`, the reaper, the retention sweep, deletes | the budget, no free attempts, no masked payload on the wire, no row deleted unsent, every schedule ends |
| Connection pool | `internal/mq/pool.go` | map key → entry (connector, mutex, last use) | `Get`, the release function, the sweeper, `Close` | a connector has one user, is not closed under it, and is reachable |
| Kafka source | `internal/mq/connector_kafka.go` | group, deliveries channel, pending delivery | `Connect`, the consume goroutine, `ReceiveMessage`, `Commit`, `Nack`, `Disconnect`, `Depth` | an offset is committed only over handled messages |
| Acknowledging sources | `internal/mq/connector_{rabbitmq,nats,amqp10,ibm_on}.go` | handles, pending delivery | the same | the broker forgets only what was handed over, nothing is stranded, broken connections are replaced |
| Pushing sources | `internal/mq/connector_{mqtt,nats}.go` | client, deliveries channel | the same, and the publish handler | order, repeats only where the broker sends again, bounded loss, nothing stuck |

### Parts that keep the record

| Part | Source | State it keeps | Operations | What makes it correct |
|---|---|---|---|---|
| Audit log | `internal/storage/audit.go`, `internal/server/middleware_audit.go` | rows linked by hashes, `chainMu` | `Insert` (SQLite: mutex; Postgres: serialisable transaction with retries), `Verify`, `DeleteOlderThan` | the untouched table verifies, whatever prefix is gone; an alteration is found |
| Archiver | `internal/audit/archive.go`, `internal/audit/s3.go` | the open day file, files on disk, objects in the store | `Run`, `sweep`, `Archive`, `appendRow`, `uploadAndMaybePrune` | a row is in the table, in a file or in the store; the table stays bounded |
| Pipeline revisions | `internal/server/pipeline_revisions.go`, `handlers_pipeline_revisions.go`, `pipeline_apply.go`, `internal/storage/pipeline_revisions.go`, `stages.go`, `transforms.go`, `routing.go` | the live rows of a pipeline's four parts; numbered snapshots with a hash and a deployed stamp; a mutex per pipeline and process | the four saves and their snapshot goroutine, `Create`, `CreateForce`, `MarkDeployed`, rollback, deploy; the deletion of a schema or shadow connection | once requests are over the history has what is live, says which revision that is, and contains nothing that never was |

How they interact: `main` consumes the lease's events and calls
`Manager.Reload` or `StopAll`; HTTP handlers that edit a pipeline call `Reload`
in a goroutine; `Reload` starts executors; their workers call `Pool.Get` and the
connectors, the breaker they share, the dedup table and `Service.Push`; the
breaker's state goes back to the manager's cache; reaper and HTTP callers send
DLQ rows through the same pool.  Shared state is in the manager's map (mutex),
the breaker (mutex), the pool's map and its entries (two levels of mutexes) and
the database (single statements, few transactions).  The audit middleware and
the snapshot of a save run in goroutines that outlive their request, so the
order in which requests are answered is not the order in which they are
recorded.  The archiver asks the lease whether it may sweep, once per sweep.

What is hard to test in it, by theme (PROJECT.json lists the lines):

* workers racing through breaker, dedup gate and publication, with a send
  between `allow` and `recordResult`;
* a crash or a lost connection between send and acknowledgement, between dedup
  row and send, between DLQ push and commit;
* `Reload` releasing the mutex between snapshot, wait and start, while
  executors unwind and clear marks that carry the pipeline's id only;
* a lease statement whose clock reading is old when it runs; role changes that
  come faster than their consumer;
* read, test and increment of the retry counter in separate statements;
* the gap between the pool's mutex and an entry's;
* Kafka's cumulative offsets against per-message nacks, and a deliveries channel
  that outlives its session;
* connections that broke in a way `Connect` or `Ping` does not notice, and a
  worker that waits on one of them with the pool's entry locked;
* at QoS 1, messages the broker sends again behind later ones;
* the archiver deleting the head of the hash chain between an insert's look-up
  and its INSERT; a sweep that is cut short after its upload and local removal
  and then starts the day's file anew;
* transactions at read-committed isolation that replace the same rows;
* snapshots that read four tables while others commit, store in another order
  than they committed, and number themselves under a mutex that replicas do not
  share.

### Everything else

Stages, event bus and webhooks, SLO evaluator, tenant budget, replay, sessions and rate limits, secrets, storage
repositories, HTTP handlers, back-ups, scripting, tracing, front end, vendored
IBM libraries: each is a component of PROJECT.json with its status.  Sections 6
and 7 say which are planned and which are out.

## 2. Modules and how they follow the code

An action is the code between two points at which another goroutine, the
broker, the database or a crash can intervene: a critical section, one SQL
statement, one broker call.  Calls that can fail have a failing outcome, and in
most modules a counter `faults`, bounded by `MaxFaults`, pays for it.
Variables that the code does not have are marked *history* where they are
declared; no guard reads them except to bound the model.

| Module | Models | Composition |
|---|---|---|
| `Breaker` | the breaker. `admitted` is the window between `allow` and `recordResult`; time is the number of `Tick`s left of the cool-down | |
| `Handoff` | the contract of `Connector.Commit` and `finalize`, and nothing else: responsibility for a message is taken over before the source lets go of it | abstract |
| `Executor` | `processOne` by its steps (`LoopTop`, `Receive`, `RunStages`, `Gate`, `CheckAndRecord`, `Send` per destination, `RecordResult`, `Snapshot`, `Publish`, `Push`, `ShadowSend`, `Commit`, `Nack`), `Cancel`, `Restart`, `Crash`, `ConnectionLost` | EXTENDS `Breaker`; implements `Handoff` |
| `Manager` | `Reload` by its critical sections (`call`, `drain`, `wait`, `list`, `start`, `spawn`), the executor's goroutine with its deferred clean-up one step at a time, `Stop`, `StopAll`, `StopAndWait`, edits, SIGTERM | an executor is its handle |
| `Leadership` | `Run` and `attempt` on SQLite and Postgres (advisory lock, then upsert), `promote`, `demote`, `emit`, `release`, a migration that fails (`BootFails`), and main's consumer; discrete relative time. `Manager.Reload`, called by the consumer and by HTTP handlers, is drain, listing and starts, and the listing can fail | a manager is `workers` and the `Reload`s under way |
| `DLQ` | `Push`, `Retry` (get, pipeline, increment, send), `BulkRetry`, `ReapOnce`/`attemptOne`, both sweeps, operator deletes, deletion of the pipeline, change of the key | |
| `Pool` | `Get` (look-up, lock, connect, evict, drop), `Release`, the sweep per entry, `Close` per entry | |
| `KafkaSource` | one partition, its group coordinator (external), and per member the connector and the worker's loop | |
| `AckSource` | queue (external), connector and worker; `kind` selects the four connectors, which differ in `Redials`, `PingFails`, who buffers, and what an idle receive returns | implements `Handoff` |
| `PushSource` | the broker's session (external), the publish handler, the channel, the worker; `transport`, `qos` and `stableID` select core NATS, MQTT at QoS 0 (the default) and above, with a configured or generated client id. `inflight` is what the broker has sent and has no PUBACK for; `holds` is the worker's lock of the pool entry | |
| `AuditLog` | the table, its writers and `Verify`. A hash is the tuple it covers; `rounds` says that the column is coarser than the hash's time | |
| `Archiver` | `sweep`/`Archive`/`appendRow`/`uploadAndMaybePrune` by the steps between which a failure matters (query, row, rotation, fsync, DELETE), restarts, power loss, moves of the role | EXTENDS `AuditLog` |
| `Revisions` | one pipeline: the transactions of saves, rollbacks and deploys by their statements (`Begin`, `Statement`, `Commit`), `Unlink`, one action per read of the snapshot, `Create` as probe, `SELECT MAX` and INSERT, `CreateForce`, `MarkDeployed`, requests cut short | |
| `MCExecutor`, `MCManager` | values of the function-valued constants for TLC | |
| `*Proofs` | inductive invariants and theorems; `ExecutorProofs` has the breaker's too, `AuditProofs` is about `AuditLog` inside `Archiver`; `ConnectionProofs` is about `AckSource`, `Pool` and `PushSource` | EXTENDS the component or components |

Abstractions worth knowing when reading them against the code:

* What a stage computes is a property of the message: it is in `Poison` or not,
  has a `Route` and a `Payload`.  Routes are never empty (a message without a
  match goes to the default destination) and name a destination once.
* `Executor` meets an acknowledging source; Kafka and the push sources have the
  worker's loop again in their own modules, because what `Commit` and `Nack` mean
  there is the point.
* A send either reaches the destination or not, and either returns an error or
  not: an error after the message arrived is one of the outcomes.
* Conversions: a payload stored in the DLQ is the clear or the masked form,
  depending on the key, never simply itself.  An idle JetStream fetch returns the
  empty message `Blank`, as the code does.
* Time: cool-down and lease are explicit counters.  `next_retry_at` is set or
  not, and a set one may come due at any moment.  `lastUsed` is recent or idle.
* SHA-256 is injective.  Ids are compared as `ORDER BY at, id` compares them, so
  which of two rows of one instant comes first is not a matter of insertion.
* A part of a pipeline is a set of items (stages, transforms, rules, or what the
  pipeline row refers to), each with the request that wrote it and its kind; a
  configuration says how many items of each kind a part has, which is all that is
  left when `snapshotForHash` clears the ids.  Requests are numbered in the order
  of their commits, replicas in the order of their first request.
* Transactions run at the default isolation, as `BeginTx` with empty options asks
  for.  On Postgres a DELETE takes the rows it saw and waits for the locks of
  another's DELETE on them; rows committed since it began stay, so two
  replacements of a part leave the items of both.  An UPDATE of the pipeline row
  waits for whoever has the row.  SQLite has one writer: one replica and one
  connection.  A transaction that fails leaves nothing and is not a step.
* The library acknowledges an MQTT message while or after it calls the handler.
  The comment at `connector_mqtt.go:208-212` has the PUBACK go out first; then a
  crash would also lose what is in the library's own queue.  With QoS 0, the
  default, and on core NATS the broker keeps nothing while the client is away: a
  session ends with the connection, and `LossHasCause` speaks of the session.
* A `Ping` notices a dead connection or not: those of MQTT, NATS and RabbitMQ ask
  the client's state, those of AMQP 1.0, IBM MQ and Kafka only look at a handle
  (`connector_amqp10.go:220`, `connector_ibm_on.go:203`, `connector_kafka.go:381`).
* A file or an object is the set of row ids written to it, as archives are
  idempotent on the id; `synced` is the part of a file that survives a power loss.
* Undetermined library behaviour (a settlement under a cancelled context, when a
  broker notices a lost connection) is a nondeterministic choice.

## 3. Runs

| Run | Instance | States | Shows |
|---|---|---|---|
| `executor` | 2 workers, 2 messages (one with two destinations, one failing in a stage), threshold 1, 3 faults of any kind | 345 k | nothing is lost (`NoLoss`), the executor implements `Handoff`, each duplicate is paid for by a fault, and once faults end everything is settled |
| `executor_dedup` | 2 workers, 2 messages with one payload, a dedup window, 3 faults, 1 expiry | 733 k | one copy per payload and window even with redeliveries and concurrent workers; the breaker's counter is bounded although a dedup hit leaves without a result |
| `executor_dedup_loss` | the same, 2 faults | violation | a payload recorded before a send that fails is later taken for delivered |
| `manager` | 1 pipeline, 2 starts, an HTTP goroutine and the lease's consumer, 3 calls of `Reload` | 203 k | executors do not overlap while Reloads do not overlap; the map names no dead executor whatever overlaps; `Reload` returns; SIGTERM ends all |
| `leadership` | 2 replicas on Postgres, TTL 2, period 1, statement latency 1, channel of 1, one replica's consumer with an HTTP handler that reloads, 2 faults | 893 k | at most one leader, which holds a valid row; time without a leader is bounded while a replica competes; workers follow the role, with three named exceptions; somebody leads again and again |
| `dlq` | 2 rows, a reaper and an HTTP caller, budget 1 (pipeline: 2), batch 1, cap 1 row, 1 fault | 1.1 M | budget overrun by at most one per further caller; copies are counted; no masked payload is sent; the reaper lets go of every row |
| `pool` | 1 key, 2 callers, 2 connectors, failing dials and dying brokers | 74 k | one user per connector; only a caller whose own dial failed closes it under that user; `Get` returns |
| `kafka` | 2 members, 3 offsets, channel of 2, 2 faults, oldest offset | 212 k | a message is passed over only if it was nacked and a later one committed; lag 0 means done; progress |
| `ack` | RabbitMQ, JetStream, AMQP 1.0 and IBM MQ, 3 messages, prefetch 2, 3 faults | 28 k | `Handoff` is kept; no delivery is stranded unless its settlement was cut short; recovery from every break `Connect` notices |
| `push` | MQTT at QoS 0 and 1, with and without a client id, core NATS; 4 messages, channel of 2, 2 faults | 1.4 M | order without repeats, but for what the broker sends again; bounded loss; nothing stuck, but under a worker that waits on a client closed for good |
| `audit` | 3 rows (one older than the chain), 2 replicas, days of 2 ticks, rows archived after 2, insert context of 1 tick, 2 faults; SQLite and Postgres, with and without object store and local removal | 482 k | the chain verifies unless an insert overtook another or the column rounded; every alteration is found; a row is lost only in three named ways; the table drains |
| `revisions` | 3 requests or deletions, 2 replicas with one connection each, 2 parts of 0 or 1 items (more after a merge), 1 request cut short | 1.8 M | once the last request is done, what is live is recorded, with two named exceptions; `LatestDeployed` is what is live, with two more; revisions were live, with one; numbers collide only across replicas; requests end |

**Why these bounds.** Two actors are the least with which the races happen, and
the theorems below cover the other numbers for the safety properties that
depend on it.  Where a limit is the subject (channel, prefetch, threshold,
batch, retry budget, rows) it is small enough to be hit with items to spare:
channel 2 with 4 messages, prefetch 2 with 3 messages, cap 1 with 2 rows.  Fault
bounds are one more than what the shortest interesting history needs: the
dedup loss needs two, the executor run has three.  The handles of `manager` are
the number of starts; with two the second start always meets the first
executor's unwinding.  The lease's times make `Timely` true with equality
(`MaxWait + Latency = TTL`), the tightest case.  In `audit` three rows are two
hashed ones after one without a hash, or three of which the middle one can be
taken out; they fall into up to three days, so that files rotate, and the clock
runs on until all are due.  In `revisions` three requests are a save, one that
commits between its reads, and a rollback or deploy of what either stored; with
two parts a snapshot can be torn.  Its overlapping transactions are those of two
replicas; that two connections of one process overlap is left to the theorems,
which hold for any `PoolSize`.  The consumers of `leadership` do not touch each
other, so one of them is `Watched`; two faults are a failed `Reload` or dropped
event after a change of the role.  Each exception that a property of `audit`, `revisions`,
`leadership` and `push` names is needed: without it TLC finds the history.

**Deadlock** is checked for the executor, the manager and the lease.  It is
switched off where a bounded history really ends: all messages handed over
(`kafka`, `ack`, `push`), all rows gone (`dlq`), the pool closed (`pool`), the
clock at its bound (`audit`), all requests over (`revisions`).

**Fairness.**  Weak fairness of a goroutine's own steps: the Go scheduler runs
what can run.  A broker or database call is assumed to return, with a result or
an error: the code bounds most of them with a context, and a call that hangs for
ever is outside the models.  Beyond that:

* `Executor`: a cool-down passes, the broker redelivers on a closed channel, the
  manager restarts a cancelled executor.  No fairness for anything that fails.
* `Manager`: callers of `Reload` and unwinding executors proceed.  Nothing makes
  an edit, a stop or a SIGTERM happen.
* `Leadership`: attempts end, the consumer runs, time passes, and an exited
  process is started again (the deployment's restart policy).  A process that is up
  after a failed migration is not.
* `DLQ`: only the reaper's goroutine.  Operators and sweeps need not come.
* `Pool`: strong fairness of taking an entry's mutex, since Go's mutex has a
  starvation mode that hands it to the longest waiter; the holder gives it back,
  because the keys that callers share are those of sends.
* `KafkaSource`: the coordinator assigns the partition to somebody who asks.
* `Archiver`: an insert's goroutine proceeds or fails (its context expires), the
  clock runs, the sweep's ticker fires and its goroutine proceeds.
* `Revisions`: as long as a request's goroutine can run or the database can
  answer, one of them does; nobody has to send a request.
* `AckSource`, `PushSource`: the broker delivers what it may, the client library
  reconnects where it does so by itself.

## 4. Theorems

Each holds for every value of the constants that satisfies the named ASSUMEs
(numbers are naturals, actor sets finite where their size is counted, null
values outside the sets); the bounds `MaxFaults`, `MaxCalls`, `MaxPushed`,
`MaxOffset`, `MaxMishaps` are arbitrary naturals.  Every safety property that a
run checks and expects to hold is stated by one of these theorems.
`ConnectionProofs` extends three components at once; that is why the names of
`Pool` and `PushSource` carry prefixes (`PoolSpec`, `PushReceive`, `mishaps`)
where the others have the short ones.

| Theorem | Says | Invariant and why it is needed |
|---|---|---|
| `BreakerCorrect`, `FailsStayBounded` | counter and state agree, and the counter stays below threshold + workers | `BreakerInv`. The bound is not inductive alone: failures of sends admitted before the trip still arrive while the breaker is open, so the counter is traded against the number of sends outstanding (`LateFailuresBounded`) |
| `ImplementsBreaker`, `ExecutorFailsBounded` | each step of the executor is a breaker step or leaves it alone, so the bound holds inside it | `BreakerStep`, one case per action |
| `ExecutorTyped` | the executor's types | `ExecTypeOK` with `LocalsOK` (which locals are meaningful at which label) |
| `ExecutorLosesNothing`, `ExecutorShadow` | without a dedup window no message is lost, and the shadow has only what production took | `ExecutorInv`. `NoLoss` says nothing about a worker that is about to commit; `EvidenceOK` records at each label what the worker has already achieved: destinations before `idx` have the message, a commit is preceded by delivery or a DLQ row |
| `ExecutorImplementsHandoff` | the executor refines `Handoff` | from `ExecutorInv`; the counters grow, so what is owned stays owned |
| `DuplicatesArePaidFor` | copies at a destination and DLQ rows beyond the first are no more than the faults that happened, with or without dedup | `PaidInv` counts with the copies what may still become one: the message in the queue, a worker that may send it (`Forwarding`), one that will push it to the DLQ (`Failing`), a connection with a delivery whose answer was lost (`Stale`). Together they are at most one more than the faults; only a fault turns one of them into two |
| `WindowCollapses` | with a dedup window, the messages of one payload together put one copy at a destination, and one more per expired row and per check that failed open | `WindowInv`: copies that arrived, plus workers past the check that may still send, plus one while no row of the payload is stored, are at most one more than the lapses. The third term is the one needed: it is spent by the check that finds no row, and given back only by an expiry |
| `TokenCurrentAlone` | with one worker (the default) and no dedup window the cached circuit token is the breaker's state between two messages | `TokenInv`: from the snapshot to the publication the token in hand is the state, since nobody else changes it. With two workers, or a duplicate for a probe, the claim is false (section 5) |
| `ManagerTypes` | the manager's types | `MapTypes` with `CallTypes` |
| `MapExact`, `TokensFresh` | whatever calls interleave, the active map and the circuit cache name no executor that has cleaned up | `MapInv`: a handle about to be spawned is armed and belongs to one caller |
| `SerialRegistration`, `SerialOneExecutor` | until Reloads overlap or `StopAll` is called, no pipeline has two executors and none loses its registration | `SerialInv` follows the busy handles: in the map, then in `oldHandles`, then none, then one per started pipeline |
| `LeaseBacksLeader`, `LeaseExcludes` | under `Timely` a leader holds an unexpired row, and there is one leader at most, for any number of replicas and any TTL | `LeaseInv` keeps the exact time left: TTL minus the age of the attempt that wrote the row. `Timely` (an attempt begins and ends within the lease) is a hypothesis: without it the statement is false, see section 5 |
| `LeadershipTypes`, `WorkersFollowRole` | the lease's types; once the consumer has handled all events and no `Reload` is under way, there are executors exactly if the replica leads, but for a dropped event, a `Reload` that failed after its drain and a handler's starts without the lease | `FollowInv`: the newest event in the channel is the last that found room (`told`), a `Reload` of the consumer with nothing behind it was asked for by that event, and only with neither do the workers follow it. Handlers' `Reload`s drain and start in any order with it, which is why the statement waits for all of them |
| `TakeoverInTime` | time without a leader: at most one takeover (TTL, the tick that finds the row expired, the wait of the ticker and the statements' own time, with one more statement on Postgres), and one more for each error, failed migration or exit; time counts while some replica competes | `TakeoverInv`: some replica that competes is `InTime`, that is, time passed plus a potential (`Left`: what remains of row, wait and attempt on the replica's present step) is within the bound. A tick moves one unit from the potential to the time; only an error or exit raises the potential, by one takeover. Needs `Latency <= MaxWait`, the first half of `Timely`: an attempt takes no longer than the wait between two |
| `BudgetOverrun`, `CopiesAreCounted`, `BulkKeepsUnsent` | retries beyond the budget: at most one per further caller; copies are counted but for failed updates; bulk retry deletes nothing unsent | `RetryInv` counts the hidden slots: callers that passed the test and have not incremented, callers that have incremented and not sent |
| `MaskedStaysInside` | no attempt sends the masked form of a redacted message, whatever callers and changes of the key interleave | `MaskInv`: what is sent was read several statements before, and a caller on its way still knows of a redacted row that it is redacted (`Remembered`), because redaction is decided when the row is inserted and nobody works on a row before that |
| `DLQTypes` | what is scheduled or redacted is a row of the table; the counters' limits | `MaskInv` with `DLQLimits` |
| `PoolTyped` | the pool's map names only connectors that were made | `PoolInv` with `PoolRest` |
| `PoolExclusive`, `PoolUndisturbed` | one user per connector; sweeper and `Close` never close one in use | `PoolInv`: a caller past `Lock` holds the mutex of the entry it found, whether or not the map still names that entry |
| `AckTypes`, `AckNoneStranded`, `AckKeepsContract` | prefetch window and types; no delivery is stranded but by a settlement cut short; the broker forgets only what was handed over (refines `Handoff`) | `AckInv`: the slot `pending` is the message in hand exactly between receive and settlement, a broken connection has nothing unsettled, and a connector that pulls has no buffer. Without `SlotOK` a `Commit` could settle another message than the one handed over |
| `PushTypes`, `PushInOrder` | channel capacity; the worker takes messages in order of publication and none twice, but for those whose PUBACK a break cut off | `PushInv`: what was taken, the message in hand, the channel and the broker's session are each increasing and each lies before the next, up to messages in `again`; what is in flight lies before the session without exception, so that sending it again puts nothing out of order that is not marked |
| `PushLossHasCause` | each missing message was dropped by a full channel or thrown away with channel and hand by a fault | `LossInv` adds a `Reserve` of one channel while the client is closed for good: its fault has been counted and the channel is still there to be lost |
| `KafkaTyped` | channel capacity, positions inside the log | `SlotTaken`: the pending slot is taken exactly between receive and settlement |
| `KafkaLosesOnlyNacked`, `KafkaDrainedIsDone` | with `Oldest`, the group moves past a message only if it was handed over or nacked; lag 0 means done | `KafkaInv`: everything below a delivery in a channel is dealt with or ahead of it in the same channel, across sessions; whatever may be committed has only dealt-with offsets below it |
| `ChainVerifies` | without overtaking inserts and rounding, the chain verifies, for any rows, replicas and faults | `ChainInv`: ids are used once; every row is sealed with its own hash and carries that of the row before it; the row under `chainMu` carries the head's, or the table is empty. The last part is the one needed: deletions between look-up and INSERT take a prefix, so the head is the last row to go |
| `AlterationsDetected` | in every reachable table that verifies, altering a row, resealing one that is not the last or taking one out of the middle is found | `ChainInv`; the proof finds the neighbours of a row in the finite table and follows the link that breaks |
| `RowsAreKept` | a stored row is in the table, a local file or the object store, with the three exceptions of section 5 | `RowInv`. What is deleted was synced, row by row (`Copied`, `Kept`); with local removal that is not enough, because an upload replaces the object of a whole day. `Frontier` says that a day whose file was removed is closed for good: rows are archived oldest first and inserts end before rows of their age are due (`MaxAge > InsertTimeout`), so later rows are of later days |
| `RevisionsTyped`, `LiveStaysRecorded`, `LatestStaysLive`, `HistoryWasLive`, `ConflictsStayForeign` | every safety property of `revisions`, for any requests, replicas, connections, parts and items | `AllTyped` (an open rollback or deploy is of a stored revision and writes all its parts; a request's items have the content it wrote, `ContentWritten`) with one part per theorem: `LastCarriesLive` (at each label, what the last request has read or stored is what is live, unless live has drifted), `LastIsNewest`, `ReadsWereLive` (an undisturbed request has read a prefix of what is live), `MutexHeld` with `NumbersTaken` (while a number is in hand, only other replicas store from it on) |

**Only model-checked.**  Liveness under fairness (`EverythingSettles`,
`ReloadReturns`, `ShutdownEnds`, `SomebodyLeads`, `ScheduleSettles`,
`GetReturns`, `Progress`, `Recovers`, `Arrives`, `TableDrains`, `RequestsEnd`)
is out of the prover's reach.

**Only proved.**  The type invariants, `ShadowFollowsProd` (executor),
`CircuitStateCurrent` of a single worker, `NoStaleToken` and
`RegisteredUndisturbed` (manager) and `BulkDeletesOnlySent` (DLQ) are theorems
for every instance and have no run.  `AuditLog` and `Archiver` have no type
invariant of their own: `LogTyped` and `ArchiveTyped` are parts of `BaseInv`.

## 5. Where code and comments disagree

One disagreement has a run of its own; its counterexample is a history of the
code:

* **Dedup before send** (`executor_dedup_loss`): `CheckAndRecord` commits its row
  before the send.  If send and DLQ push fail, or the process dies in between,
  the redelivered message is acknowledged as a duplicate of something that was
  never delivered (`internal/pipeline/executor.go:365`, against the comment at 374).

Others were met while modelling.  The modules state each claim as a definition
beside the comment that makes it; checking it as an invariant or property, with
the constants given here, finds the history.

| Claim | Module, constants | What the code does |
|---|---|---|
| `OneProbeAtATime` | `Breaker`, 2 workers | a late result of a send admitted before the trip ends half-open while the probe is outstanding, and others are admitted (`breaker.go:102`) |
| `EverythingSettles` | `Executor`, dedup on | a dedup hit on the half-open probe returns without `recordResult`; the breaker stays half-open and every later message is nacked (`executor.go:378`) |
| `CircuitStateCurrent` | `Executor`, 2 workers | snapshot and publication are two critical sections; an older token overwrites a newer one (`executor.go:460`) |
| `AtMostOnce` | `Executor`, 1 fault | `docs/REQUEST_FLOW.md:282` says at-most-once; the source is acknowledged after the send, so it is at-least-once |
| `OneExecutor` | `Manager`, two HTTP goroutines | "Manager owns one Executor per enabled pipeline" (`manager.go:26`), "Safe to call repeatedly" (222): `Reload` releases the mutex between snapshot and starts, two of them both start the pipeline, and one executor ends in nobody's map (`manager.go:241`) |
| `RegisteredWhileRunning` | `Manager`, overlapping Reloads or `StopAll` then `Reload` | an unwinding executor unregisters the metrics of its successor (`manager.go:551`) |
| `CleanDrain` | `Manager`, a Reload under way at shutdown | a Reload that passed the `stopped` test starts its pipelines after `StopAndWait` saw the wait group at zero (`manager.go:530`) |
| `AtMostOneLeader` without `Timely` | `Leadership`, `MaxWait + Latency > TTL` | `isLeader` has no expiry of its own: a paused replica still believes (`leadership.go:120`) |
| `CleanShutdownClears` | `Leadership`, a shutdown | `release` is called because the context is done, and passes that same context to the UPDATE, which fails at once (`leadership.go:186`) |
| `TakeoverBound` as "Worst-case takeover is `ttl + tick`" | `Leadership` | `OPERATIONS.md:262-264` counts neither the statements nor, on Postgres, a standby's attempt that holds the advisory lock when the row expires (`leadership.go:269`) |
| `ConsumerFollows` without `~astray` | `Leadership`, a fault | a `Reload` whose `ListAll` fails after the drain leaves a leader without executors until the next event or edit (`manager.go:251`) |
| `SomebodyLeads` without its exception | `Leadership`, a fault per replica | a failed migration makes `Run` return; main only logs it (`leadership.go:168`, `main.go:486`), and the replica never competes |
| `OnlyLeaderWorks` | `Leadership`, `Handlers` not empty | an edit through any replica starts that replica's pipelines (`handlers_pipelines.go:300`) |
| `LosersStop` | `Leadership`, more events than the channel holds | `emit` drops the event when the channel is full (`leadership.go:364`) |
| `RaisedBudgetRetries` | `DLQ`, `RetryMax > MaxRetries` | the service-wide cap is tested first (`dlq.go:294`) |
| `ManualRetryClears` | `DLQ` | a manual retry does not touch `next_retry_at` (`handlers_dlq.go:70`) |
| `BudgetRespected` | `DLQ`, 2 callers | test and increment are two statements (`dlq.go:326`); by how much is `OverrunBounded` |
| `OptInOnly` | `DLQ`, `RetryMax = 0` | `Push` replaces 0 by the default (`dlq.go:131`) |
| `PushPersists` | `DLQ`, `CanDelete` | the foreign key rejects an entry whose pipeline was deleted (`storage/dlq.go:39`) |
| `OrphansSettle` | `DLQ`, `CanDelete` | `Retry` fails before it counts, so rows of a deleted pipeline are rescheduled for ever (`dlq.go:298`) |
| `UsersUndisturbed` | `Pool`, `ConnectFails` | after a failed dial `Get` disconnects without the entry's mutex (`pool.go:96`) |
| `NoOrphans` | `Pool` | a sweep between look-up and lock evicts the entry that is then used (`pool.go:82`) |
| `EditsTakeEffect` | `Pool` | a hit ignores the new configuration (`pool.go:70`) |
| `NoneLost` | `KafkaSource`, 1 fault | "any "unmarked" message will be re-claimed on restart or rebalance" (`connector_kafka.go`, comment of `Nack`; `SECURITY.md:53`): offsets are cumulative, so the next `Commit` moves the group past a nacked message |
| `NoneLost` with `Oldest = FALSE` | `KafkaSource` | nothing commits the position at which a group attaches (`initialOffsetFromConfig`) |
| `SelfHeals` | `KafkaSource` | the consume goroutine ends after one error and nobody notices |
| `SelfHeals` | `AckSource` | a closed channel on an open RabbitMQ connection, and any lost AMQP 1.0 or IBM connection, are taken for connected |
| `NoBlanks` | `AckSource`, JetStream | an idle fetch returns an empty message without an error (`connector_nats.go:206`) |
| `NoneStranded` without `cut` | `AckSource`, AMQP 1.0 | a settlement under a cancelled context clears the slot and settles nothing (`executor.go:538`) |
| `SubscriptionStays` | `PushSource`, `stableID` | `Disconnect` unsubscribes first (`connector_mqtt.go:144`) |
| `KeepsNewest` | `PushSource` | a full channel drops the arriving message, not the oldest (`connector_mqtt.go:106`) |
| `InOrder` without `again` | `PushSource`, QoS 1 | a break before the PUBACK brings messages again, behind later ones; the code says so (`connector_mqtt.go:219`), and neither connector nor executor without a dedup window tells them apart |
| `Arrives` without `Stalled` | `PushSource`, MQTT | a worker in `ReceiveMessage` waits for a channel that nobody closes (`connector_mqtt.go:187`) and keeps the pool's entry, so a client that does not reconnect is never replaced |
| `ChainIntact` without `~overtaken` | `Archiver` | rows are ordered by the time of the request and hashed in the order of their goroutines: one that overtakes another, or two of one instant whose ids sort the other way, break the link (`storage/audit.go:76` and 150: "can't pick the same prev_hash and fork the chain") |
| `ChainIntact` without `~rounds` | `Archiver`, Postgres | the hash covers nanoseconds (`storage/audit.go:49`), the TIMESTAMP column (`migrations.go:1023`) keeps microseconds; `TestPostgresAudit_SerialisableChain` expects the chain to verify |
| `RowsKept` without `redo` | `Archiver`, local removal | a crash after upload and removal makes the next sweep write a shorter file and upload it over the whole one; "never loses them" (`archive.go:192`), "never lost ones" (17) |
| `RowsKept` without the second sweeper | `Archiver`, local removal, 2 replicas | the other replica's file of the same day replaces the object |
| `RowsKept` without `unsynced` | `Archiver` | a rotation ignores the error of its fsync (`archive.go:227`), against "delete the rows ONLY after the file has been fsynced" (15) |
| `ConflictsAreForeign` as "no conflicts" | `Revisions`, 2 replicas | "an in-process mutex is sufficient" (`storage/pipeline_revisions.go:25`): two replicas choose one number, UNIQUE refuses the second, nobody retries and the snapshot is missing |
| `LatestDeployedIsLive` without its exceptions | `Revisions` | "the latest *deployed* revision" (`handlers_pipeline_revisions.go:120`) is not what is running after the deploy of an old revision, which makes no new one, or after snapshots stored out of order |
| `LiveIsRecorded` and `LatestDeployedIsLive` without `~drift` | `Revisions`, 2 replicas | "atomically replaces every stage" (`storage/stages.go:78`): a PUT of a child part that overlaps a rollback or deploy leaves the rows of both live, and the stored snapshot has one of them only (`stages.go:95-135`, `pipeline_apply.go:58`) |
| the same | `Revisions` | the deletion of a schema or of a shadow connection sets the reference in the pipeline row NULL, and no revision is stored (`migrations.go:429` and 682, `handlers_scripts.go:153`) |
| `RevisionsWereLive` without `torn` | `Revisions` | the four reads are four statements: a revision can combine parts that were never live together, and can be deployed |

**What the exceptions leave open.**  Several hazards of PROJECT.json happen in the
code, and the property listed with them says that nothing else does.  They are
not caught but excluded, each by a named exception whose history is in the table
above: overlapping Reloads and the clean-up of a predecessor (`disturbed`), a
dropped event, a failed Reload and the handlers' Reloads (`told`, `astray`), the
nacked message that a commit overtakes, dead consumers and connections nobody
notices (`SelfHeals`), the blocked push worker (`Stalled`), redelivery (`again`),
overtaking audit inserts (`overtaken`), interrupted sweeps and the ignored fsync
(`redo`, `unsynced`), and for revisions snapshots out of order (`inverted`), torn
reads (`torn`), the deploy of an old revision (`promoted`) and merged or unlinked
rows (`drift`).

Comments met on the way that no property is about: `handlers_pipeline_revisions.go:401`
speaks of hash-dedup in a rollback, which `CreateForce` does not do;
`storage/audit.go:183` speaks of seconds where times have nanoseconds;
`PruneToMaxRows` uses `LIMIT -1`, which is not PostgreSQL, so the DLQ table is
not capped there (`storage/dlq.go:721`).  A day file that is open when the
process ends is never uploaded: the next process opens it only if a row of that
day is left.

## 6. What is not modelled

* The send side of the connectors: one atomic call with its outcomes.
* Metrics values, traces, logs, formatting, listing and search: no property is
  about them.
* Dialect rewriting and schema, except where a statement behaves differently
  (`PruneToMaxRows`, the advisory lock).
* Multiple partitions: the group's partitions are independent, and one
  connector's channel mixes them; only one partition is modelled.
* TLS, cryptography, scripting engines, protobuf, the schema registry, the AI
  provider, the web interface, deployment, vendored client libraries.
* Of the audit log: the diff stored beside an entry, the sinks, several tenants
  (their chains share no row).  Of the revisions: deletion of the pipeline and the
  diff of two snapshots; an import makes a pipeline of its own.
* What section 7 plans.

## 7. Plan

Done: the message path, from the lease to the brokers, with its proofs, in the
order breaker, executor, manager, lease, DLQ, pool, sources; then the record:
audit log and archiver, pipeline revisions, with theirs.

Next, in this order:

1. `Alert` (`internal/slo/evaluator.go`): pending, firing, resolved over ticks,
   missing samples and restarts.
2. `Events` (`internal/events`, `internal/webhooks`): bounded subscriber buffers,
   retries, shutdown of the dispatcher.
3. `Budget` and `Limits`: the tenant's token bucket shared by executors,
   lock-out windows and rate limits, as small state machines over time.
4. `Stages`: `RunStages`, filter, transform and routing operators, the back-off
   function and the snapshot diff, checked against reference definitions over
   bounded inputs (a module with recursion and without theorems).
5. `Secrets`: rotation of the master key over rows sealed with two keys.
6. Composition of `Leadership` with `Manager` through the interface of
   `Reload`/`StopAll`, and of `Executor` with `AckSource` through `Handoff`.

Theorems to add: the two compositions of step 6, and the safety of the modules
of steps 1 to 5.
