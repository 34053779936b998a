---------------------------- MODULE KafkaSource ----------------------------
(***************************************************************************)
(* The Kafka connector as a source (src/internal/mq/connector_kafka.go):   *)
(* one partition, the consumer group that reads it, and per worker a       *)
(* connector (a member of the group) driven by the loop of processOne:     *)
(* Pool.Get, ReceiveMessage, hand the message over, Commit or Nack.        *)
(*                                                                         *)
(* Kafka acknowledges positions, not messages: committing one offset       *)
(* releases every earlier one.  Between the broker and the worker lie the  *)
(* claim's read position, the deliveries channel, which outlives the       *)
(* session that filled it, and the pending slot.                           *)
(*                                                                         *)
(* Offsets are 0 .. MaxOffset - 1.  `faults' counts what goes wrong, at    *)
(* most MaxFaults times: lost sessions, crashes, disconnects, offset       *)
(* commits that fail, messages that cannot be handed over.                 *)
(***************************************************************************)
EXTENDS Integers, Sequences

CONSTANTS Members,       \* connectors of the group: one per worker and replica
          MaxOffset,     \* messages ever produced
          Buf,           \* capacity of the deliveries channel (16 in the code)
          Oldest,        \* InitialOffset is "oldest" rather than "newest"
          MaxFaults      \* bound on what goes wrong

ASSUME KafkaAssumption ==
  /\ MaxOffset \in Nat /\ Buf \in Nat /\ MaxFaults \in Nat
  /\ Oldest \in BOOLEAN

Offsets == 0 .. MaxOffset - 1
NoOffset == -1                    \* the group has not committed yet
Nobody == "nobody"
ASSUME NobodyAssumption == Nobody \notin Members

VARIABLES
  hwm,          \* partition: messages produced so far
  committed,    \* group coordinator: the committed offset, or NoOffset
  gen,          \* group coordinator: number of the current session
  owner,        \* the member whose session claims the partition
  pos, marked,  \* that session: next offset to claim; offset MarkMessage left
  base,         \* where the group first attached (history)
  up,           \* connector: producer and group are not nil
  consuming,    \* connector: the goroutine around group.Consume runs
  deliveries,   \* connector: the channel between that goroutine and Receive
  groupErr,     \* connector: the error channel holds an error
  pending,      \* connector: the delivery to commit
  work,         \* the worker: where it is in processOne
  copies,       \* copies[o]: times o was handed over (history)
  nacked,       \* offsets that could not be handed over once (history)
  faults

Delivery == [off : Offsets, gen : Nat]
NoDelivery == [off |-> NoOffset, gen |-> 0]

group == <<committed, gen, owner, pos, marked, base>>
connector == <<up, consuming, deliveries, groupErr, pending>>
outcome == <<copies, nacked>>
vars == <<hwm, group, connector, work, outcome, faults>>

TypeOK ==
  /\ hwm \in 0 .. MaxOffset /\ committed \in {NoOffset} \cup 0 .. MaxOffset
  /\ gen \in Nat /\ owner \in Members \cup {Nobody}
  /\ pos \in 0 .. MaxOffset /\ marked \in 0 .. MaxOffset
  /\ base \in 0 .. MaxOffset
  /\ up \in [Members -> BOOLEAN] /\ consuming \in [Members -> BOOLEAN]
  /\ deliveries \in [Members -> Seq(Delivery)]
  /\ \A m \in Members : Len(deliveries[m]) <= Buf
  /\ groupErr \in [Members -> BOOLEAN]
  /\ pending \in [Members -> Delivery \cup {NoDelivery}]
  /\ work \in [Members -> {"idle", "receive", "handover", "commit", "nack"}]
  /\ copies \in [Offsets -> Nat] /\ nacked \subseteq Offsets /\ faults \in 0 .. MaxFaults

Init ==
  /\ hwm = 0 /\ committed = NoOffset
  /\ gen = 0 /\ owner = Nobody /\ pos = 0 /\ marked = 0 /\ base = MaxOffset
  /\ up = [m \in Members |-> FALSE] /\ consuming = [m \in Members |-> FALSE]
  /\ deliveries = [m \in Members |-> <<>>]
  /\ groupErr = [m \in Members |-> FALSE]
  /\ pending = [m \in Members |-> NoDelivery]
  /\ work = [m \in Members |-> "idle"]
  /\ copies = [o \in Offsets |-> 0] /\ nacked = {} /\ faults = 0

Fault == faults < MaxFaults /\ faults' = faults + 1
Goto(m, label) == work' = [work EXCEPT ![m] = label]
Handled(o) == copies[o] > 0

-----------------------------------------------------------------------------
(* The broker *)

Produce ==
  /\ hwm < MaxOffset
  /\ hwm' = hwm + 1
  /\ UNCHANGED <<group, connector, work, outcome, faults>>

(* mutant: the configured start is always the newest *)
InitialOffsetNewest == IF committed # NoOffset THEN committed ELSE hwm
(* initialOffsetFromConfig, and the broker's rule that a committed offset  *)
(* takes precedence: where a new session begins to read                    *)
InitialOffset ==
  IF committed # NoOffset THEN committed ELSE IF Oldest THEN 0 ELSE hwm

(* A rebalance gives the partition to a member that is consuming: Consume  *)
(* enters a new session.                                                   *)
Assign(m) ==
  /\ owner = Nobody /\ consuming[m]
  /\ owner' = m /\ gen' = gen + 1
  /\ pos' = InitialOffset /\ marked' = InitialOffset
  /\ base' = IF gen = 0 THEN InitialOffset ELSE base
  /\ UNCHANGED <<hwm, committed, connector, work, outcome, faults>>

EndSession(m) == owner' = IF owner = m THEN Nobody ELSE owner

(* A rebalance takes it away.  The connector keeps its channel and pending. *)
Revoke ==
  /\ owner # Nobody /\ Fault
  /\ owner' = Nobody
  /\ UNCHANGED <<hwm, committed, gen, pos, marked, base, connector, work, outcome>>

-----------------------------------------------------------------------------
(* Connector life cycle *)

(* Connect of a connector without producer and group *)
Connect(m) ==
  /\ work[m] = "idle" /\ ~up[m]
  /\ up' = [up EXCEPT ![m] = TRUE]
  /\ consuming' = [consuming EXCEPT ![m] = TRUE]
  /\ deliveries' = [deliveries EXCEPT ![m] = <<>>]
  /\ groupErr' = [groupErr EXCEPT ![m] = FALSE]
  /\ pending' = [pending EXCEPT ![m] = NoDelivery]
  /\ Goto(m, "receive")
  /\ UNCHANGED <<hwm, group, outcome, faults>>

(* Connect of a connector that has both: nothing is looked at *)
Reuse(m) ==
  /\ work[m] = "idle" /\ up[m]
  /\ Goto(m, "receive")
  /\ UNCHANGED <<hwm, group, connector, outcome, faults>>

(* Disconnect, or the end of the process, which also ends the worker.  The *)
(* pool disconnects a connector only while nobody uses it.                 *)
Drop(m) ==
  /\ EndSession(m)
  /\ up' = [up EXCEPT ![m] = FALSE]
  /\ consuming' = [consuming EXCEPT ![m] = FALSE]
  /\ deliveries' = [deliveries EXCEPT ![m] = <<>>]
  /\ groupErr' = [groupErr EXCEPT ![m] = FALSE]
  /\ pending' = [pending EXCEPT ![m] = NoDelivery]
  /\ UNCHANGED <<hwm, committed, gen, pos, marked, base, outcome>>

Disconnect(m) ==
  /\ up[m] /\ work[m] = "idle" /\ Fault
  /\ Drop(m) /\ UNCHANGED work

Crash(m) ==
  /\ up[m] /\ Fault
  /\ Drop(m) /\ Goto(m, "idle")

(* group.Consume returns an error: the goroutine reports it and is gone *)
ConsumeFails(m) ==
  /\ consuming[m] /\ Fault
  /\ consuming' = [consuming EXCEPT ![m] = FALSE]
  /\ groupErr' = [groupErr EXCEPT ![m] = TRUE]
  /\ EndSession(m)
  /\ UNCHANGED <<hwm, committed, gen, pos, marked, base, up, deliveries, pending, work,
                 outcome>>

(* mutant: a claimed message is marked at once *)
ConsumeClaimMarks(m) ==
  /\ owner = m /\ pos < hwm /\ Len(deliveries[m]) < Buf
  /\ deliveries' = [deliveries EXCEPT ![m] = Append(@, [off |-> pos, gen |-> gen])]
  /\ pos' = pos + 1
  /\ marked' = pos + 1 /\ committed' = pos + 1
  /\ UNCHANGED <<hwm, gen, owner, base, up, consuming, groupErr, pending, work, outcome,
                 faults>>
(* kafkaGroupHandler.ConsumeClaim forwards the next claimed message; a     *)
(* full channel blocks it                                                  *)
ConsumeClaim(m) ==
  /\ owner = m /\ pos < hwm /\ Len(deliveries[m]) < Buf
  /\ deliveries' = [deliveries EXCEPT ![m] = Append(@, [off |-> pos, gen |-> gen])]
  /\ pos' = pos + 1
  /\ UNCHANGED <<hwm, committed, gen, owner, marked, base, up, consuming, groupErr, pending,
                 work, outcome, faults>>

-----------------------------------------------------------------------------
(* The worker *)

(* ReceiveMessage returns a delivery ... *)
Receive(m) ==
  /\ work[m] = "receive" /\ deliveries[m] # <<>>
  /\ deliveries' = [deliveries EXCEPT ![m] = Tail(@)]
  /\ pending' = [pending EXCEPT ![m] = Head(deliveries[m])]
  /\ Goto(m, "handover")
  /\ UNCHANGED <<hwm, group, up, consuming, groupErr, outcome, faults>>

(* ... or the one error of the goroutine: processOne returns it, the       *)
(* worker backs off and asks the pool for the same connector again         *)
ReceiveErr(m) ==
  /\ work[m] = "receive" /\ groupErr[m]
  /\ groupErr' = [groupErr EXCEPT ![m] = FALSE]
  /\ Goto(m, "idle")
  /\ UNCHANGED <<hwm, group, up, consuming, deliveries, pending, outcome, faults>>

(* processOne hands the message to a destination or the DLQ *)
Handover(m) ==
  /\ work[m] = "handover"
  /\ copies' = [copies EXCEPT ![pending[m].off] = @ + 1]
  /\ Goto(m, "commit")
  /\ UNCHANGED <<hwm, group, connector, nacked, faults>>

(* neither destination nor DLQ takes it: finalize nacks *)
Refused(m) ==
  /\ work[m] = "handover" /\ Fault
  /\ nacked' = nacked \cup {pending[m].off}
  /\ Goto(m, "nack")
  /\ UNCHANGED <<hwm, group, connector, copies>>

(* MarkMessage only moves a live session's mark, and only forward *)
MarkMessage(m) ==
  IF pending[m].gen = gen /\ owner = m /\ marked < pending[m].off + 1
  THEN pending[m].off + 1 ELSE marked

(* MarkMessage, then sess.Commit.  A stale session or a failing broker     *)
(* leaves the committed offset where it was; Commit returns nil all the    *)
(* same.                                                                   *)
Commit(m) ==
  /\ work[m] = "commit"
  /\ marked' = MarkMessage(m)
  /\ \/ /\ committed' = IF pending[m].gen = gen /\ owner = m THEN marked' ELSE committed
        /\ UNCHANGED faults
     \/ Fault /\ UNCHANGED committed
  /\ pending' = [pending EXCEPT ![m] = NoDelivery]
  /\ Goto(m, "idle")
  /\ UNCHANGED <<hwm, gen, owner, pos, base, up, consuming, deliveries, groupErr, outcome>>

(* Nack drops the pending delivery without marking it *)
Nack(m) ==
  /\ work[m] = "nack"
  /\ pending' = [pending EXCEPT ![m] = NoDelivery]
  /\ Goto(m, "idle")
  /\ UNCHANGED <<hwm, group, up, consuming, deliveries, groupErr, outcome, faults>>

(* mutant: an unknown committed offset counts as no lag *)
DepthUnknownIsZero == IF committed = NoOffset THEN 0 ELSE hwm - committed
(* KafkaConnector.Depth: the lag the metrics show *)
Depth == IF committed = NoOffset THEN hwm ELSE hwm - committed

-----------------------------------------------------------------------------
MemberStep(m) ==
  \/ Connect(m) \/ Reuse(m) \/ ConsumeClaim(m)
  \/ Receive(m) \/ ReceiveErr(m) \/ Handover(m) \/ Commit(m) \/ Nack(m)

Next ==
  \/ Produce \/ Revoke
  \/ \E m \in Members :
       MemberStep(m) \/ Assign(m) \/ Disconnect(m) \/ Crash(m) \/ ConsumeFails(m)
       \/ Refused(m)

Spec == Init /\ [][Next]_vars

(* The group coordinator assigns the partition to somebody who asks, and   *)
(* goroutines that can run do.                                             *)
FairSpec ==
  /\ Spec /\ WF_vars(\E m \in Members : Assign(m))
  /\ \A m \in Members : WF_vars(MemberStep(m))

-----------------------------------------------------------------------------
(* A delivery of o is in some connector's channel or pending slot. *)
Held(o) ==
  \E m \in Members :
    \/ pending[m].off = o
    \/ \E i \in DOMAIN deliveries[m] : deliveries[m][i].off = o

(* Nobody will deliver o (again): it is in no connector, and the current   *)
(* session and any later one begin behind it.                              *)
Passed(o) ==
  base <= o /\ o < hwm /\ ~Held(o) /\ o < InitialOffset
  /\ ~(owner # Nobody /\ pos <= o)

(* At-least-once: a message produced since the group attached has been     *)
(* handed over, is in some worker's hands, or will be read again by the    *)
(* current session or the next one.  The only exception: it was nacked,    *)
(* and a later one was handed over and committed past it.                  *)
OnlyOvertaken ==
  \A o \in Offsets : Passed(o) =>
    Handled(o) \/ (o \in nacked /\ \E p \in Offsets : o < p /\ Handled(p))

(* When the lag metric reads zero, nothing the group has attached to is    *)
(* waiting to be handed over for the first time: an operator may stop the  *)
(* old consumer.                                                           *)
DrainedIsDone ==
  Depth = 0 => \A o \in Offsets : base <= o /\ o < hwm => Handled(o) \/ o \in nacked

(* Everything produced since the group attached is handed over in the end, *)
(* or nacked, over any crashes, rebalances and failed commits, as long as  *)
(* some connector's consume goroutine is not dead behind an open handle.   *)
Dead(m) == up[m] /\ ~consuming[m]
Progress ==
  \A o \in Offsets : (gen > 0 /\ base <= o /\ o < hwm)
                        ~> (Handled(o) \/ o \in nacked \/ \A m \in Members : Dead(m))

(* What comments say, and the code does not do *)

(* A nacked message is read again (the comment of Nack), and so is what    *)
(* was received before a crash (the type comment of KafkaConnector).       *)
NoneLost == \A o \in Offsets : Passed(o) => Handled(o)

(* Connectors heal themselves (the comment of Connect) *)
SelfHeals ==
  \A o \in Offsets : (gen > 0 /\ base <= o /\ o < hwm) ~> (Handled(o) \/ o \in nacked)
=============================================================================
