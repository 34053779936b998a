------------------------------ MODULE DLQProofs ------------------------------
(***************************************************************************)
(* How far concurrent callers of Service.Retry can overrun the retry       *)
(* budget, for any number of rows, reapers, requests and faults.  Between  *)
(* its read of retry_count and its increment a caller holds a slot nobody  *)
(* sees.  The induction counts those hidden slots: the counter plus the    *)
(* callers that passed the test and have not incremented yet.  A second    *)
(* induction does the same for the window between increment and send.      *)
(***************************************************************************)
EXTENDS DLQ, FiniteSetTheorems, TLAPS

(* Callers that passed the cap test for row i and have not counted it *)
Passed(i) == {a \in Actors : cur[a] = i /\ pc[a] \in {"pipe", "incr"}}

(* Callers that have counted their attempt at row i and not made it *)
Sending(i) == {a \in Actors : cur[a] = i /\ pc[a] = "send"}

Busy(a) == pc[a] \in {"get", "pipe", "incr", "send", "after"}

(* The part of the type the argument needs *)
RetryTypes ==
  /\ count \in [Ids -> Nat] /\ sent \in [Ids -> Nat]
  /\ pushed \in Nat /\ faults \in Nat
  /\ pc \in [Actors -> Steps] /\ cur \in [Actors -> Ids \cup {NoId}]
  /\ todo \in [Actors -> SUBSET Ids] /\ bulk \in [Actors -> BOOLEAN]
  /\ res \in [Actors -> {"none", "ok", "max", "err"}]
  /\ present \subseteq Ids /\ scheduled \subseteq present

(* Nobody works on a row that was never inserted *)
Known ==
  /\ \A i \in present : i <= pushed
  /\ \A a \in Actors : \A i \in todo[a] : i <= pushed
  /\ \A a \in Actors : Busy(a) => cur[a] \in Ids /\ cur[a] <= pushed
  /\ \A i \in Ids : i > pushed => sent[i] = 0

(* Counter and hidden slots together *)
Slots ==
  \A i \in Ids : count[i] + Cardinality(Passed(i)) <= MaxRetries + Cardinality(Actors) - 1

(* A counted attempt pays for the copy it is about to send *)
Paid ==
  \A i \in present : sent[i] + Cardinality(Sending(i)) <= count[i] + faults

(* The result a caller carries is the truth about its send *)
Truthful ==
  \A a \in Actors : pc[a] = "after" /\ res[a] = "ok" /\ cur[a] \in present
                      => sent[cur[a]] > 0

RetryInv == RetryTypes /\ Known /\ Slots /\ Paid /\ Truthful

-----------------------------------------------------------------------------
(* Cardinalities of sets of callers *)
LEMMA CallerSets ==
  ASSUME NEW S \in SUBSET Actors
  PROVE  /\ IsFiniteSet(S) /\ Cardinality(S) \in Nat
         /\ Cardinality(S) <= Cardinality(Actors)
         /\ S = {} => Cardinality(S) = 0
         /\ \A T \in SUBSET S : Cardinality(T) <= Cardinality(S)
         /\ \A a \in S : Cardinality(S \ {a}) = Cardinality(S) - 1
         /\ \A a \in Actors : Cardinality(S \cup {a}) <= Cardinality(S) + 1
<1> USE ActorsAssumption
<1>1. IsFiniteSet(S) /\ Cardinality(S) <= Cardinality(Actors)
  BY FS_Subset
<1>2. Cardinality(S) \in Nat /\ (S = {} => Cardinality(S) = 0)
  BY <1>1, FS_CardinalityType, FS_EmptySet
<1>3. \A T \in SUBSET S : Cardinality(T) <= Cardinality(S)
  BY <1>1, FS_Subset
<1>4. \A a \in S : Cardinality(S \ {a}) = Cardinality(S) - 1
  BY <1>1, FS_RemoveElement
<1>5. \A a \in Actors : Cardinality(S \cup {a}) <= Cardinality(S) + 1
  <2> TAKE a \in Actors
  <2>1. Cardinality(S \cup {a}) = IF a \in S THEN Cardinality(S) ELSE Cardinality(S) + 1
    BY <1>1, FS_AddElement
  <2> QED BY <2>1, <1>2
<1> QED BY <1>1, <1>2, <1>3, <1>4, <1>5

LEMMA ActorsCounted == Cardinality(Actors) \in Nat
  BY ActorsAssumption, FS_CardinalityType

(* The empty table *)
LEMMA RetryInitial == Init => RetryInv
<1> SUFFICES ASSUME Init PROVE RetryInv OBVIOUS
<1> USE DEF Init
<1>1. RetryTypes BY DEF RetryTypes, Steps
<1>2. Known BY DEF Known, Busy
<1>3. Slots
  <2> SUFFICES ASSUME NEW i \in Ids
               PROVE  count[i] + Cardinality(Passed(i)) <= MaxRetries + Cardinality(Actors) - 1
    BY DEF Slots
  <2>1. Passed(i) = {} BY DEF Passed
  <2>2. Cardinality(Passed(i)) = 0 BY <2>1, FS_EmptySet
  <2> QED BY <2>2, ActorsCounted, LimitsAssumption
<1>4. Paid BY DEF Paid
<1>5. Truthful BY DEF Truthful
<1> QED BY <1>1, <1>2, <1>3, <1>4, <1>5 DEF RetryInv

-----------------------------------------------------------------------------
(* Steps that let no caller in, count nothing and send nothing *)
LEMMA QuietStep ==
  ASSUME RetryInv, RetryTypes', Known', Truthful',
         present' \subseteq present, faults <= faults',
         \A i \in Ids : count'[i] <= count[i],
         \A i \in present' : count'[i] = count[i] /\ sent'[i] = sent[i],
         \A i \in Ids : Passed(i)' \subseteq Passed(i),
         \A i \in Ids : Sending(i)' \subseteq Sending(i)
  PROVE  RetryInv'
<1> USE DEF RetryInv
<1>1. ASSUME NEW i \in Ids
      PROVE  /\ Cardinality(Passed(i)') <= Cardinality(Passed(i))
             /\ Cardinality(Sending(i)') <= Cardinality(Sending(i))
             /\ {Cardinality(Passed(i)'), Cardinality(Passed(i)),
                 Cardinality(Sending(i)'), Cardinality(Sending(i))} \subseteq Nat
  <2>1. Passed(i) \in SUBSET Actors /\ Passed(i)' \in SUBSET Actors
        /\ Sending(i) \in SUBSET Actors /\ Sending(i)' \in SUBSET Actors
    BY DEF Passed, Sending
  <2> QED BY <2>1, CallerSets
<1>2. Slots' BY <1>1, ActorsCounted, LimitsAssumption DEF Slots, RetryTypes
<1>3. Paid' BY <1>1 DEF Paid, RetryTypes
<1> QED BY <1>2, <1>3

(* A row that is deleted takes its counter and its copies with it *)
LEMMA DeleteQuiet ==
  ASSUME RetryTypes, NEW S, DeleteRows(S)
  PROVE  /\ present' \subseteq present /\ scheduled' \subseteq present'
         /\ count' \in [Ids -> Nat] /\ sent' \in [Ids -> Nat]
         /\ \A i \in Ids : count'[i] <= count[i] /\ sent'[i] <= sent[i]
         /\ \A i \in present' : count'[i] = count[i] /\ sent'[i] = sent[i]
  BY DEF RetryTypes, DeleteRows, Forget

-----------------------------------------------------------------------------
(* The steps in which a slot is taken, counted or used, one lemma each *)

LEMMA PushKeeps ==
  ASSUME RetryInv, NEW i \in Ids, Push(i)
  PROVE  RetryInv'
<1> USE DEF RetryInv, Push, config, callers, table, history
<1>0. i \in Nat /\ pushed \in Nat /\ pushed' = pushed + 1 /\ i = pushed'
  BY ActorsAssumption DEF Ids, RetryTypes
<1>1. RetryTypes' BY <1>0 DEF RetryTypes
<1>2. Known'
  <2>1. \A j \in Ids : j \in Nat /\ (j <= pushed => j <= pushed')
    BY <1>0, ActorsAssumption DEF Ids
  <2>2. \A j \in Ids : j > pushed' => j > pushed BY <1>0, <2>1
  <2>3. \A j \in present' : j <= pushed'
    <3> TAKE j \in present'
    <3>1. CASE j = i BY <3>1, <1>0
    <3>2. CASE j \in present
      <4>1. j \in Ids /\ j <= pushed BY <3>2 DEF Known, RetryTypes
      <4> QED BY <4>1, <2>1
    <3> QED BY <3>1, <3>2
  <2>4. \A j \in Ids : j > pushed' => sent'[j] = 0 BY <2>2 DEF Known
  <2>5. \A a \in Actors : \A j \in todo'[a] : j <= pushed' BY <2>1 DEF Known, RetryTypes
  <2>6. \A a \in Actors : Busy(a)' => cur'[a] \in Ids /\ cur'[a] <= pushed'
    BY <2>1 DEF Known, Busy
  <2> QED BY <2>3, <2>4, <2>5, <2>6 DEF Known
<1>3. \A j \in Ids : Passed(j)' = Passed(j) /\ Sending(j)' = Sending(j)
  BY DEF Passed, Sending
<1>4. Slots' BY <1>3 DEF Slots
<1>5. Paid'
  <2> SUFFICES ASSUME NEW j \in present'
               PROVE  sent[j] + Cardinality(Sending(j)) <= count[j] + faults
    BY <1>1, <1>3 DEF Paid, RetryTypes
  <2>1. CASE j \in present BY <2>1 DEF Paid
  <2>2. CASE j \notin present
    <3>1. j = i /\ sent[j] = 0 BY <2>2 DEF Known, Ids, RetryTypes
    <3>2. Sending(j) = {} BY <3>1 DEF Sending, Known, Busy, Ids, RetryTypes
    <3>3. Cardinality(Sending(j)) = 0 BY <3>2, FS_EmptySet
    <3> QED BY <3>1, <3>3 DEF RetryTypes
  <2> QED BY <2>1, <2>2
<1>6. Truthful' BY DEF Truthful, Known, Busy, Ids, RetryTypes
<1> QED BY <1>1, <1>2, <1>4, <1>5, <1>6

LEMMA GetKeeps ==
  ASSUME RetryInv, NEW a \in Actors, RetryGet(a)
  PROVE  RetryInv'
<1> USE DEF RetryInv, RetryGet, Return, Goto, config, table, history
<1>1. RetryTypes' BY DEF RetryTypes, Steps
<1>2. Known' BY DEF Known, RetryTypes, Busy
<1>3. Truthful' BY DEF Truthful, RetryTypes
<1>4. CASE pc'[a] # "pipe"
  <2>1. \A i \in Ids : Passed(i)' \subseteq Passed(i) /\ Sending(i)' \subseteq Sending(i)
    BY <1>4 DEF Passed, Sending, RetryTypes
  <2> QED BY <2>1, <1>1, <1>2, <1>3, QuietStep DEF RetryTypes
<1>5. CASE pc'[a] = "pipe"
  <2>1. \A i \in Ids : Sending(i)' = Sending(i) BY <1>5 DEF Sending, RetryTypes
  <2>2. Paid' BY <2>1 DEF Paid, RetryTypes
  <2>3. Slots'
    <3> SUFFICES ASSUME NEW i \in Ids
                 PROVE  count[i] + Cardinality(Passed(i)') <= MaxRetries + Cardinality(Actors) - 1
      BY DEF Slots
    <3>1. CASE i = cur[a]
      <4>1. count[i] <= MaxRetries - 1
        BY <3>1, <1>5, LimitsAssumption DEF Exhausted, RetryTypes
      <4>2. Passed(i)' \in SUBSET Actors BY DEF Passed
      <4>3. Cardinality(Passed(i)') \in Nat /\ Cardinality(Passed(i)') <= Cardinality(Actors)
        BY <4>2, CallerSets
      <4> QED BY <4>1, <4>3, ActorsCounted, LimitsAssumption DEF RetryTypes
    <3>2. CASE i # cur[a]
      <4>1. Passed(i)' = Passed(i) BY <3>2 DEF Passed, RetryTypes
      <4> QED BY <4>1 DEF Slots
    <3> QED BY <3>1, <3>2
  <2> QED BY <1>1, <1>2, <1>3, <2>2, <2>3
<1> QED BY <1>4, <1>5

LEMMA IncrKeeps ==
  ASSUME RetryInv, NEW a \in Actors, RetryIncr(a)
  PROVE  RetryInv'
<1> USE DEF RetryInv, RetryIncr, Goto, config, Fault, history
<1>1. cur[a] \in Ids BY DEF Known, Busy
<1>2. RetryTypes' BY <1>1 DEF RetryTypes, Steps
<1>3. Known' BY DEF Known, RetryTypes, Busy
<1>4. Truthful' BY DEF Truthful, RetryTypes
<1>5. \A i \in Ids : i # cur[a] => /\ Passed(i)' = Passed(i) /\ Sending(i)' = Sending(i)
                                  /\ count'[i] = count[i]
  BY DEF Passed, Sending, RetryTypes
<1>6. Passed(cur[a])' = Passed(cur[a]) \ {a} /\ a \in Passed(cur[a])
  BY DEF Passed, RetryTypes
<1>7. Sending(cur[a])' = Sending(cur[a]) \cup {a}
  BY DEF Sending, RetryTypes
<1>8. Passed(cur[a]) \in SUBSET Actors /\ Sending(cur[a]) \in SUBSET Actors
  BY DEF Passed, Sending
<1>9. /\ Cardinality(Passed(cur[a])') = Cardinality(Passed(cur[a])) - 1
      /\ Cardinality(Passed(cur[a])) \in Nat
  BY <1>6, <1>8, CallerSets
<1>10. /\ Cardinality(Sending(cur[a])') <= Cardinality(Sending(cur[a])) + 1
       /\ Cardinality(Sending(cur[a])) \in Nat
  BY <1>7, <1>8, CallerSets
<1>11. Cardinality(Sending(cur[a])') \in Nat
  <2>1. Sending(cur[a])' \in SUBSET Actors BY DEF Sending
  <2> QED BY <2>1, CallerSets
<1>12. Slots'
  <2> SUFFICES ASSUME NEW i \in Ids
               PROVE  count'[i] + Cardinality(Passed(i)') <= MaxRetries + Cardinality(Actors) - 1
    BY DEF Slots
  <2>1. CASE i = cur[a]
    <3>1. count'[i] \in Nat /\ count'[i] <= count[i] + 1 BY <2>1, <1>2 DEF RetryTypes
    <3> QED BY <3>1, <2>1, <1>9, ActorsCounted, LimitsAssumption DEF Slots, RetryTypes
  <2>2. CASE i # cur[a] BY <2>2, <1>5 DEF Slots
  <2> QED BY <2>1, <2>2
<1>13. Paid'
  <2> SUFFICES ASSUME NEW i \in present
               PROVE  sent[i] + Cardinality(Sending(i)') <= count'[i] + faults'
    BY DEF Paid
  <2>0. i \in Ids BY DEF RetryTypes
  <2>1. CASE i = cur[a]
    <3>1. count'[i] + faults' = count[i] + faults + 1
      BY <2>0, <2>1 DEF RetryTypes
    <3> QED BY <3>1, <2>0, <2>1, <1>10, <1>11 DEF Paid, RetryTypes
  <2>2. CASE i # cur[a]
    <3>1. faults' \in Nat /\ faults' >= faults BY DEF RetryTypes
    <3>2. Cardinality(Sending(i)) \in Nat
      <4>1. Sending(i) \in SUBSET Actors BY DEF Sending
      <4> QED BY <4>1, CallerSets
    <3> QED BY <3>1, <3>2, <2>0, <2>2, <1>5 DEF Paid, RetryTypes
  <2> QED BY <2>1, <2>2
<1> QED BY <1>2, <1>3, <1>4, <1>12, <1>13

LEMMA SendKeeps ==
  ASSUME RetryInv, NEW a \in Actors, RetrySend(a) \/ RetryFails(a)
  PROVE  RetryInv'
<1> USE DEF RetryInv, RetrySend, RetryFails, Deliver, Return, config, table
<1>1. cur[a] \in Ids /\ cur[a] <= pushed /\ pc[a] = "send" BY DEF Known, Busy
<1>2. RetryTypes' BY <1>1 DEF RetryTypes, Steps
<1>3. Known'
  <2>1. \A i \in Ids : i # cur[a] => sent'[i] = sent[i] BY DEF RetryTypes
  <2>2. \A i \in Ids : i \in Nat BY ActorsAssumption DEF Ids
  <2>3. \A i \in Ids : i > pushed => sent'[i] = 0
    BY <1>1, <2>1, <2>2 DEF Known, RetryTypes
  <2> QED BY <1>1, <2>3 DEF Known, RetryTypes, Busy
<1>4. Truthful'
  <2>1. \A i \in Ids : sent[i] > 0 => sent'[i] > 0 BY <1>1 DEF RetryTypes
  <2>3. ASSUME NEW b \in Actors, pc'[b] = "after", res'[b] = "ok", cur'[b] \in present'
        PROVE  sent'[cur'[b]] > 0
    <3>1. CASE b = a
      <4>1. RetrySend(a) BY <2>3, <3>1 DEF RetryTypes
      <4> QED BY <4>1, <3>1, <2>3, <1>1 DEF RetryTypes
    <3>2. CASE b # a
      <4>1. pc[b] = "after" /\ res[b] = "ok" /\ cur'[b] = cur[b] /\ cur[b] \in present
        BY <2>3, <3>2 DEF RetryTypes
      <4>2. cur[b] \in Ids /\ sent[cur[b]] > 0 BY <4>1 DEF Known, Busy, Truthful
      <4> QED BY <4>1, <4>2, <2>1
    <3> QED BY <3>1, <3>2
  <2> QED BY <2>3 DEF Truthful
<1>5. \A i \in Ids : Passed(i)' = Passed(i)
  BY <1>1 DEF Passed, RetryTypes
<1>6. Slots' BY <1>5 DEF Slots
<1>7. Sending(cur[a])' = Sending(cur[a]) \ {a} /\ a \in Sending(cur[a])
  BY <1>1 DEF Sending, RetryTypes
<1>8. Sending(cur[a]) \in SUBSET Actors BY DEF Sending
<1>9. /\ Cardinality(Sending(cur[a])') = Cardinality(Sending(cur[a])) - 1
      /\ Cardinality(Sending(cur[a])) \in Nat
  BY <1>7, <1>8, CallerSets
<1>10. Paid'
  <2> SUFFICES ASSUME NEW i \in present
               PROVE  sent'[i] + Cardinality(Sending(i)') <= count[i] + faults
    BY DEF Paid
  <2>0. i \in Ids BY DEF RetryTypes
  <2>1. CASE i = cur[a]
    <3>1. sent'[i] \in Nat /\ sent'[i] <= sent[i] + 1 BY <2>0, <2>1, <1>2 DEF RetryTypes
    <3> QED BY <3>1, <2>0, <2>1, <1>9 DEF Paid, RetryTypes
  <2>2. CASE i # cur[a]
    <3>1. Sending(i)' = Sending(i) /\ sent'[i] = sent[i]
      BY <2>0, <2>2, <1>1 DEF Sending, RetryTypes
    <3> QED BY <3>1 DEF Paid
  <2> QED BY <2>1, <2>2
<1> QED BY <1>2, <1>3, <1>4, <1>6, <1>10

(* The remaining steps of a caller neither count nor send *)
LEMMA CallerKeeps ==
  ASSUME RetryInv, NEW a \in Actors,
         RetryPipe(a) \/ ReapOnce(a) \/ NextRow(a) \/ AttemptOne(a) \/ RetryOne(a)
           \/ RetryOneEnds(a) \/ BulkRetry(a) \/ BulkRow(a) \/ Exit(a)
  PROVE  RetryInv'
<1> USE DEF RetryInv, config, table, history
<1>1. CASE RetryPipe(a)
  <2> USE <1>1 DEF RetryPipe, Return, Goto
  <2>1. RetryTypes' /\ Known' /\ Truthful'
    BY DEF RetryTypes, Steps, Known, Busy, Truthful
  <2>2. \A i \in Ids : Passed(i)' \subseteq Passed(i) /\ Sending(i)' \subseteq Sending(i)
    BY DEF Passed, Sending, RetryTypes
  <2> QED BY <2>1, <2>2, QuietStep DEF RetryTypes
<1>2. CASE ReapOnce(a) \/ BulkRetry(a) \/ RetryOne(a)
  <2> USE <1>2 DEF ReapOnce, BulkRetry, RetryOne, DueBatch, Goto
  <2>0. \A S \in SUBSET present : [todo EXCEPT ![a] = S] \in [Actors -> SUBSET Ids]
    BY DEF RetryTypes
  <2>1. RetryTypes'
    <3>1. todo' \in [Actors -> SUBSET Ids] BY <2>0 DEF RetryTypes
    <3>2. bulk' \in [Actors -> BOOLEAN] BY DEF RetryTypes
    <3> QED BY <3>1, <3>2 DEF RetryTypes, Steps
  <2>2. Known' BY DEF RetryTypes, Known, Busy
  <2>3. Truthful' BY DEF RetryTypes, Truthful
  <2>4. \A i \in Ids : Passed(i)' \subseteq Passed(i) /\ Sending(i)' \subseteq Sending(i)
    BY DEF Passed, Sending, RetryTypes
  <2> QED BY <2>1, <2>2, <2>3, <2>4, QuietStep DEF RetryTypes
<1>3. CASE NextRow(a)
  <2> USE <1>3 DEF NextRow, Goto
  <2>0. \A i \in Ids : [todo EXCEPT ![a] = @ \ {i}] \in [Actors -> SUBSET Ids]
    BY DEF RetryTypes
  <2>1. RetryTypes'
    <3>1. todo' \in [Actors -> SUBSET Ids] BY <2>0 DEF RetryTypes
    <3>2. bulk' \in [Actors -> BOOLEAN] BY DEF RetryTypes
    <3>3. cur' \in [Actors -> Ids \cup {NoId}] BY DEF RetryTypes
    <3> QED BY <3>1, <3>2, <3>3 DEF RetryTypes, Steps
  <2>2. Known' BY DEF RetryTypes, Known, Busy
  <2>3. Truthful' BY DEF RetryTypes, Truthful
  <2>4. \A i \in Ids : Passed(i)' \subseteq Passed(i) /\ Sending(i)' \subseteq Sending(i)
    BY DEF Passed, Sending, RetryTypes
  <2> QED BY <2>1, <2>2, <2>3, <2>4, QuietStep DEF RetryTypes
<1>4. CASE RetryOneEnds(a) \/ Exit(a)
  <2> USE <1>4 DEF RetryOneEnds, Exit, Idle, Fault
  <2>0. bulk' \in [Actors -> BOOLEAN] /\ todo' \in [Actors -> SUBSET Ids] BY DEF RetryTypes
  <2>1. RetryTypes' BY <2>0 DEF RetryTypes, Steps
  <2>2. Known' BY DEF RetryTypes, Known, Busy
  <2>3. Truthful' BY DEF RetryTypes, Truthful
  <2>4. \A i \in Ids : Passed(i)' \subseteq Passed(i) /\ Sending(i)' \subseteq Sending(i)
    BY DEF Passed, Sending, RetryTypes
  <2> QED BY <2>1, <2>2, <2>3, <2>4, QuietStep DEF RetryTypes
<1>5. CASE AttemptOne(a) \/ BulkRow(a)
  <2> USE <1>5 DEF AttemptOne, ScheduleRetry, BulkRow, KeepRows, RowDone, Idle, Fault
  <2>1. /\ present' \subseteq present /\ scheduled' \subseteq present'
        /\ count' \in [Ids -> Nat] /\ sent' \in [Ids -> Nat]
        /\ \A i \in Ids : count'[i] <= count[i] /\ sent'[i] <= sent[i]
        /\ \A i \in present' : count'[i] = count[i] /\ sent'[i] = sent[i]
    BY DeleteQuiet DEF RetryTypes
  <2>2. /\ UNCHANGED pushed /\ faults' \in Nat /\ faults <= faults'
        /\ pc' \in [Actors -> Steps] /\ pc'[a] \in {"idle", "next"}
        /\ \A b \in Actors \ {a} : pc'[b] = pc[b] /\ cur'[b] = cur[b] /\ res'[b] = res[b]
        /\ cur' \in [Actors -> Ids \cup {NoId}]
        /\ \A b \in Actors : todo'[b] \subseteq todo[b]
        /\ res' \in [Actors -> {"none", "ok", "max", "err"}]
    BY DEF RetryTypes, Steps
  <2>3. todo' \in [Actors -> SUBSET Ids] /\ bulk' \in [Actors -> BOOLEAN]
    BY DEF RetryTypes
  <2> HIDE <1>5 DEF AttemptOne, ScheduleRetry, BulkRow, KeepRows, RowDone, Idle, Fault
  <2>4. RetryTypes' BY <2>1, <2>2, <2>3 DEF RetryTypes
  <2>5. Known' BY <2>1, <2>2 DEF RetryTypes, Known, Busy
  <2>6. Truthful' BY <2>1, <2>2 DEF RetryTypes, Truthful
  <2>7. \A i \in Ids : Passed(i)' \subseteq Passed(i) /\ Sending(i)' \subseteq Sending(i)
    BY <2>2 DEF Passed, Sending
  <2> QED BY <2>1, <2>2, <2>4, <2>5, <2>6, <2>7, QuietStep
<1> QED BY <1>1, <1>2, <1>3, <1>4, <1>5

(* Operators and sweeps do not touch the callers and only delete rows *)
LEMMA OthersKeep ==
  ASSUME RetryInv,
         OperatorDeletes \/ SweepAge \/ SweepRows \/ DeletePipeline \/ ChangeKey
           \/ UNCHANGED vars
  PROVE  RetryInv'
<1> USE DEF RetryInv
<1>1. /\ UNCHANGED <<pushed, pc, cur, todo, bulk, res>>
      /\ faults' \in Nat /\ faults <= faults'
  BY DEF OperatorDeletes, SweepAge, SweepRows, DeletePipeline, ChangeKey, Fault, vars,
         table, callers, RetryTypes
<1>2. /\ present' \subseteq present /\ scheduled' \subseteq present'
      /\ count' \in [Ids -> Nat] /\ sent' \in [Ids -> Nat]
      /\ \A i \in Ids : count'[i] <= count[i] /\ sent'[i] <= sent[i]
      /\ \A i \in present' : count'[i] = count[i] /\ sent'[i] = sent[i]
  <2>1. CASE \E S : DeleteRows(S) BY <2>1, DeleteQuiet
  <2>2. CASE UNCHANGED <<present, scheduled, count, sent>> BY <2>2 DEF RetryTypes
  <2> QED BY <2>1, <2>2 DEF OperatorDeletes, SweepAge, SweepRows, KeepRows, DeletePipeline,
                           ChangeKey, vars, table, history
<1>3. RetryTypes' BY <1>1, <1>2 DEF RetryTypes
<1>4. Known' BY <1>1, <1>2 DEF Known, Busy, RetryTypes
<1>5. Truthful' BY <1>1, <1>2 DEF Truthful
<1>6. \A i \in Ids : Passed(i)' \subseteq Passed(i) /\ Sending(i)' \subseteq Sending(i)
  BY <1>1 DEF Passed, Sending
<1> QED BY <1>1, <1>2, <1>3, <1>4, <1>5, <1>6, QuietStep

(* One step of the system *)
LEMMA RetryStepKeeps == RetryInv /\ [Next]_vars => RetryInv'
<1> SUFFICES ASSUME RetryInv, [Next]_vars PROVE RetryInv' OBVIOUS
<1>1. ASSUME NEW a \in Actors, Reaper(a) \/ Admin(a) \/ Exit(a) PROVE RetryInv'
  BY <1>1, GetKeeps, IncrKeeps, SendKeeps, CallerKeeps DEF Reaper, Admin, Retry
<1>2. CASE \E i \in Ids : Push(i) BY <1>2, PushKeeps
<1>3. CASE \/ OperatorDeletes \/ SweepAge \/ SweepRows
           \/ DeletePipeline \/ ChangeKey \/ UNCHANGED vars
  BY <1>3, OthersKeep
<1> QED BY <1>1, <1>2, <1>3 DEF Next, Actors

-----------------------------------------------------------------------------
(* The invariant of every behaviour *)
THEOREM RetryInvariant == Spec => []RetryInv
  BY RetryInitial, RetryStepKeeps, PTL DEF Spec

(* The read-then-increment of Service.Retry overruns the budget by at most *)
(* one attempt for each caller beyond the first.                           *)
THEOREM BudgetOverrun == Spec => []OverrunBounded
<1>1. RetryInv => OverrunBounded
  <2> SUFFICES ASSUME RetryInv, NEW i \in Ids
               PROVE  count[i] <= MaxRetries + Cardinality(Actors) - 1
    BY DEF OverrunBounded
  <2>1. Passed(i) \in SUBSET Actors BY DEF Passed
  <2>2. Cardinality(Passed(i)) \in Nat BY <2>1, CallerSets
  <2> QED BY <2>2, ActorsCounted, LimitsAssumption DEF RetryInv, RetryTypes, Slots
<1> QED BY <1>1, RetryInvariant, PTL

(* Each copy Retry put on the wire was counted before, but for one per     *)
(* failed write.                                                           *)
THEOREM CopiesAreCounted == Spec => []CopiesCounted
<1>1. RetryInv => CopiesCounted
  <2> SUFFICES ASSUME RetryInv, NEW i \in present
               PROVE  sent[i] <= count[i] + faults
    BY DEF CopiesCounted
  <2>1. Sending(i) \in SUBSET Actors BY DEF Sending
  <2>2. Cardinality(Sending(i)) \in Nat BY <2>1, CallerSets
  <2>3. i \in Ids BY DEF RetryInv, RetryTypes
  <2> QED BY <2>2, <2>3 DEF RetryInv, RetryTypes, Paid
<1> QED BY <1>1, RetryInvariant, PTL

(* BulkRetry deletes a row only after a send that succeeded *)
THEOREM BulkKeepsUnsent == Spec => BulkDeletesOnlySent
<1>1. RetryInv /\ [Next]_vars
        => [\A a \in Actors : BulkRow(a) => \A i \in present \ present' : sent[i] > 0]_vars
  <2> SUFFICES ASSUME RetryInv, NEW a \in Actors, BulkRow(a), NEW i \in present \ present'
               PROVE  sent[i] > 0
    OBVIOUS
  <2>1. res[a] = "ok" /\ pc[a] = "after" /\ i = cur[a]
    BY DEF BulkRow, KeepRows, DeleteRows
  <2> QED BY <2>1 DEF RetryInv, Truthful
<1> QED BY <1>1, RetryInvariant, PTL DEF Spec, BulkDeletesOnlySent

-----------------------------------------------------------------------------
(***************************************************************************)
(* What Retry sends was read with the row, several statements before; in   *)
(* between rows come and go.  A caller on its way to the send still knows  *)
(* of a redacted row that it is redacted: redaction is decided when the    *)
(* row is inserted, and nobody works on a row before that.                 *)
(***************************************************************************)
OnTheWay(a) == pc[a] \in {"pipe", "incr", "send"}
Remembered ==
  \A a \in Actors : OnTheWay(a) /\ cur[a] \in masked => ent[a].masked
MaskInv ==
  /\ RetryInv
  /\ ent \in [Actors -> Entries]
  /\ masked \subseteq Ids
  /\ Remembered
  /\ ~leaked

LEMMA MaskInitial == Init => MaskInv
  BY RetryInitial
     DEF Init, MaskInv, Remembered, OnTheWay, Entries, NoEntry

(* Steps that mask nothing, send nothing and let no caller on the way *)
LEMMA MaskQuiet ==
  ASSUME MaskInv, RetryInv', masked' \subseteq masked, ent' = ent, leaked' = leaked,
         \A b \in Actors : OnTheWay(b)' => OnTheWay(b) /\ cur'[b] = cur[b]
  PROVE  MaskInv'
  BY DEF MaskInv, Remembered

LEMMA MaskStepKeeps ==
  ASSUME MaskInv, [Next]_vars
  PROVE  MaskInv'
<1>1. RetryInv /\ RetryInv' /\ RetryTypes
  BY RetryStepKeeps DEF MaskInv, RetryInv
<1>2. ASSUME NEW i \in Ids, Push(i) PROVE MaskInv'
  <2>1. i = pushed + 1 /\ UNCHANGED <<pc, cur, ent, leaked>>
        /\ masked' \subseteq masked \cup {i}
    BY <1>2 DEF Push, callers, history
  <2>2. \A a \in Actors : OnTheWay(a) => cur[a] # i
    BY <1>1, <2>1 DEF RetryInv, RetryTypes, Known, Busy, OnTheWay
  <2>3. Remembered'
    BY <2>1, <2>2 DEF MaskInv, Remembered, OnTheWay
  <2> QED BY <1>1, <2>1, <2>3 DEF MaskInv
<1>3. ASSUME NEW a \in Actors, RetryGet(a) PROVE MaskInv'
  <2>1. UNCHANGED <<masked, cur, leaked>>
    BY <1>3 DEF RetryGet, table, history
  <2>2. \A b \in Actors \ {a} : pc'[b] = pc[b] /\ ent'[b] = ent[b]
    BY <1>1, <1>3 DEF RetryGet, Return, Goto, RetryTypes, MaskInv
  <2>3. CASE pc' = [pc EXCEPT ![a] = "after"] /\ ent' = [ent EXCEPT ![a] = NoEntry]
    <3>1. ent' \in [Actors -> Entries] /\ ~OnTheWay(a)'
      BY <1>1, <2>3 DEF MaskInv, RetryTypes, OnTheWay, Entries, NoEntry
    <3>2. Remembered'
      BY <2>1, <2>2, <3>1 DEF MaskInv, Remembered, OnTheWay
    <3> QED BY <1>1, <2>1, <3>1, <3>2 DEF MaskInv
  <2>4. CASE ~(pc' = [pc EXCEPT ![a] = "after"] /\ ent' = [ent EXCEPT ![a] = NoEntry])
    <3>1. /\ cur[a] \in Ids
          /\ ent' = [ent EXCEPT ![a] = [count |-> count[cur[a]],
                                        masked |-> cur[a] \in masked]]
      BY <1>1, <1>3, <2>4 DEF RetryGet, Return, RetryTypes
    <3>2. [count |-> count[cur[a]], masked |-> cur[a] \in masked] \in Entries
      BY <1>1, <3>1 DEF Entries, RetryTypes
    <3>3. ent' \in [Actors -> Entries] /\ ent'[a].masked = (cur[a] \in masked)
      BY <3>1, <3>2 DEF MaskInv
    <3>4. Remembered'
      BY <2>1, <2>2, <3>3 DEF MaskInv, Remembered, OnTheWay
    <3> QED BY <1>1, <2>1, <3>3, <3>4 DEF MaskInv
  <2> QED BY <2>3, <2>4
<1>4. ASSUME NEW a \in Actors, RetryPipe(a) PROVE MaskInv'
  <2>1. UNCHANGED <<masked, cur, leaked>> /\ pc[a] = "pipe"
    BY <1>4 DEF RetryPipe, table, history
  <2>2. \A b \in Actors \ {a} : pc'[b] = pc[b] /\ ent'[b] = ent[b]
    BY <1>1, <1>4 DEF RetryPipe, Return, Goto, RetryTypes, MaskInv
  <2>3. CASE pc' = [pc EXCEPT ![a] = "after"] /\ ent' = [ent EXCEPT ![a] = NoEntry]
    <3>1. ent' \in [Actors -> Entries] /\ ~OnTheWay(a)'
      BY <1>1, <2>3 DEF MaskInv, RetryTypes, OnTheWay, Entries, NoEntry
    <3>2. Remembered'
      BY <2>1, <2>2, <3>1 DEF MaskInv, Remembered, OnTheWay
    <3> QED BY <1>1, <2>1, <3>1, <3>2 DEF MaskInv
  <2>4. CASE ent' = [ent EXCEPT ![a].count = 0]
    <3>1. ent' \in [Actors -> Entries] /\ ent'[a].masked = ent[a].masked
      BY <2>4 DEF MaskInv, Entries
    <3>2. Remembered'
      BY <2>1, <2>2, <3>1 DEF MaskInv, Remembered, OnTheWay
    <3> QED BY <1>1, <2>1, <3>1, <3>2 DEF MaskInv
  <2> QED BY <1>4, <2>3, <2>4 DEF RetryPipe, Return
<1>5. ASSUME NEW a \in Actors, RetrySend(a) \/ RetryFails(a) PROVE MaskInv'
  <2>1. /\ UNCHANGED <<masked, cur>> /\ pc[a] = "send"
        /\ pc' = [pc EXCEPT ![a] = "after"] /\ ent' = [ent EXCEPT ![a] = NoEntry]
    BY <1>5 DEF RetrySend, RetryFails, Return, table
  <2>2. ASSUME NEW form \in Payload(a)
        PROVE  ~(form = "stored" /\ (ent[a].masked \/ cur[a] \in masked))
    BY <2>1, <2>2 DEF Payload, MaskInv, Remembered, OnTheWay
  <2>3. ~leaked'
    BY <1>5, <2>2 DEF RetrySend, RetryFails, Deliver, MaskInv
  <2>4. ent' \in [Actors -> Entries] /\ ~OnTheWay(a)'
    BY <1>1, <2>1 DEF MaskInv, RetryTypes, OnTheWay, Entries, NoEntry
  <2>5. Remembered'
    BY <1>1, <2>1, <2>4 DEF MaskInv, Remembered, OnTheWay, RetryTypes
  <2> QED BY <1>1, <2>1, <2>3, <2>4, <2>5 DEF MaskInv
<1>6. ASSUME NEW a \in Actors, RetryIncr(a) PROVE MaskInv'
  <2>1. UNCHANGED <<masked, cur, ent, leaked>>
    BY <1>6 DEF RetryIncr, history
  <2>2. \A b \in Actors : OnTheWay(b)' => OnTheWay(b)
    BY <1>1, <1>6 DEF RetryIncr, Goto, OnTheWay, RetryTypes
  <2> QED BY <1>1, <2>1, <2>2, MaskQuiet
<1>7. ASSUME NEW a \in Actors,
             ReapOnce(a) \/ NextRow(a) \/ AttemptOne(a) \/ RetryOne(a)
               \/ RetryOneEnds(a) \/ BulkRetry(a) \/ BulkRow(a)
      PROVE  MaskInv'
  <2>1. ent' = ent /\ leaked' = leaked
    BY <1>7 DEF ReapOnce, NextRow, AttemptOne, RetryOne, RetryOneEnds, BulkRetry,
                BulkRow, history
  <2>2. masked' \subseteq masked
    BY <1>7 DEF ReapOnce, NextRow, AttemptOne, RetryOne, RetryOneEnds, BulkRetry,
                BulkRow, DeleteRows, KeepRows, table
  <2>3. ~OnTheWay(a)'
    BY <1>1, <1>7 DEF ReapOnce, NextRow, AttemptOne, RetryOne, RetryOneEnds, BulkRetry,
                      BulkRow, RowDone, Idle, Goto, OnTheWay, RetryTypes
  <2>4. \A b \in Actors \ {a} : pc'[b] = pc[b] /\ cur'[b] = cur[b]
    BY <1>1, <1>7 DEF ReapOnce, NextRow, AttemptOne, RetryOne, RetryOneEnds, BulkRetry,
                      BulkRow, RowDone, Idle, Goto, RetryTypes
  <2>5. \A b \in Actors : OnTheWay(b)' => OnTheWay(b) /\ cur'[b] = cur[b]
    BY <2>3, <2>4 DEF OnTheWay
  <2> QED BY <1>1, <2>1, <2>2, <2>5, MaskQuiet
<1>8. ASSUME NEW a \in Actors, Exit(a) PROVE MaskInv'
  <2>1. UNCHANGED <<masked, leaked>> /\ ent' = [ent EXCEPT ![a] = NoEntry]
    BY <1>8 DEF Exit, table, history
  <2>2. ent' \in [Actors -> Entries]
    BY <2>1 DEF MaskInv, Entries, NoEntry
  <2>3. ~OnTheWay(a)' /\ \A b \in Actors \ {a} : pc'[b] = pc[b] /\ cur'[b] = cur[b]
    BY <1>1, <1>8 DEF Exit, Idle, OnTheWay, RetryTypes
  <2>4. Remembered'
    BY <2>1, <2>3 DEF MaskInv, Remembered, OnTheWay
  <2> QED BY <1>1, <2>1, <2>2, <2>4 DEF MaskInv
<1>9. ASSUME OperatorDeletes \/ SweepAge \/ SweepRows \/ DeletePipeline \/ ChangeKey
               \/ UNCHANGED vars
      PROVE  MaskInv'
  <2>1. UNCHANGED <<pc, cur, ent, leaked>>
    BY <1>9 DEF OperatorDeletes, SweepAge, SweepRows, DeletePipeline, ChangeKey, vars,
                callers, history
  <2>2. masked' \subseteq masked
    BY <1>9 DEF OperatorDeletes, SweepAge, SweepRows, DeletePipeline, ChangeKey, vars,
                table, DeleteRows, KeepRows
  <2> QED BY <1>1, <2>1, <2>2, MaskQuiet DEF OnTheWay
<1> QED
  BY <1>2, <1>3, <1>4, <1>5, <1>6, <1>7, <1>8, <1>9
     DEF Next, Reaper, Admin, Retry, Actors

(* No masked form reaches a destination, whatever is deleted, pushed,      *)
(* restarted or reconfigured between Retry's read of a row and its send.   *)
THEOREM MaskedStaysInside == Spec => []NeverSendsMasked
<1>1. MaskInv => NeverSendsMasked
  BY DEF MaskInv, NeverSendsMasked
<1> QED BY <1>1, MaskInitial, MaskStepKeeps, PTL DEF Spec

-----------------------------------------------------------------------------
(* Limits of the counters, and of what is redacted *)
DLQLimits ==
  /\ masked \subseteq present
  /\ pushed <= MaxPushed /\ faults <= MaxFaults
DLQFlags == alive \in BOOLEAN /\ sealer \in BOOLEAN /\ leaked \in BOOLEAN

(* A failed write, a restart and an exit count one fault *)
LEMMA FaultCounts ==
  ASSUME faults \in Nat, faults <= MaxFaults,
         Fault \/ UNCHANGED faults
  PROVE  faults' <= MaxFaults
  BY LimitsAssumption DEF Fault

LEMMA FlagsKept ==
  ASSUME DLQFlags, [Next]_vars
  PROVE  DLQFlags'
<1>1. alive' = alive \/ alive' = FALSE
  BY DEF Next, Push, Reaper, Admin, Retry, RetryGet, RetryPipe, RetryIncr, RetrySend,
         RetryFails, ReapOnce, NextRow, AttemptOne, RetryOne, RetryOneEnds, BulkRetry,
         BulkRow, Exit, OperatorDeletes, SweepAge, SweepRows, DeletePipeline, ChangeKey,
         vars, config
<1>2. sealer' = sealer \/ sealer' = ~sealer
  BY DEF Next, Push, Reaper, Admin, Retry, RetryGet, RetryPipe, RetryIncr, RetrySend,
         RetryFails, ReapOnce, NextRow, AttemptOne, RetryOne, RetryOneEnds, BulkRetry,
         BulkRow, Exit, OperatorDeletes, SweepAge, SweepRows, DeletePipeline, ChangeKey,
         vars, config
<1>3. leaked' = leaked \/ \E a, form : Deliver(a, form)
  BY DEF Next, Push, Reaper, Admin, Retry, RetryGet, RetryPipe, RetryIncr, RetrySend,
         RetryFails, ReapOnce, NextRow, AttemptOne, RetryOne, RetryOneEnds, BulkRetry,
         BulkRow, Exit, OperatorDeletes, SweepAge, SweepRows, DeletePipeline, ChangeKey,
         vars, history
<1>4. leaked' \in BOOLEAN
  BY <1>3, Zenon DEF Deliver, DLQFlags
<1> QED BY <1>1, <1>2, <1>4, Zenon DEF DLQFlags

LEMMA LimitsKept ==
  ASSUME RetryInv, DLQLimits, [Next]_vars
  PROVE  DLQLimits'
<1>1. /\ masked \subseteq present /\ faults \in Nat /\ faults <= MaxFaults
      /\ pushed \in Nat /\ pushed <= MaxPushed
  BY DEF RetryInv, RetryTypes, DLQLimits
<1>2. ASSUME NEW i \in Ids, Push(i) PROVE DLQLimits'
  BY <1>1, <1>2, ActorsAssumption DEF Push, Ids, DLQLimits
<1>3. ASSUME NEW a \in Actors, Retry(a) PROVE DLQLimits'
  <2>1. UNCHANGED <<masked, present, pushed>> /\ (Fault \/ UNCHANGED faults)
    BY <1>3 DEF Retry, RetryGet, RetryPipe, RetryIncr, RetrySend, RetryFails, table
  <2> QED BY <1>1, <2>1, FaultCounts DEF DLQLimits
<1>4. ASSUME NEW a \in Actors,
             ReapOnce(a) \/ NextRow(a) \/ AttemptOne(a) \/ RetryOne(a)
               \/ RetryOneEnds(a) \/ BulkRetry(a) \/ Exit(a)
      PROVE  DLQLimits'
  <2>1. UNCHANGED <<masked, present, pushed>> /\ (Fault \/ UNCHANGED faults)
    BY <1>4 DEF ReapOnce, NextRow, AttemptOne, RetryOne, RetryOneEnds, BulkRetry, Exit,
                table
  <2> QED BY <1>1, <2>1, FaultCounts DEF DLQLimits
<1>5. ASSUME NEW S, DeleteRows(S) \/ KeepRows PROVE masked' \subseteq present'
  BY <1>1, <1>5 DEF DeleteRows, KeepRows
<1>6. ASSUME NEW a \in Actors, BulkRow(a) PROVE DLQLimits'
  <2>1. masked' \subseteq present' /\ pushed' = pushed /\ (Fault \/ UNCHANGED faults)
    BY <1>5, <1>6 DEF BulkRow
  <2> QED BY <1>1, <2>1, FaultCounts DEF DLQLimits
<1>7. CASE OperatorDeletes \/ SweepAge \/ SweepRows
  <2>1. masked' \subseteq present' /\ UNCHANGED <<pushed, faults>>
    BY <1>5, <1>7 DEF OperatorDeletes, SweepAge, SweepRows
  <2> QED BY <1>1, <2>1 DEF DLQLimits
<1>8. CASE DeletePipeline \/ ChangeKey \/ UNCHANGED vars
  <2>1. UNCHANGED <<masked, present, pushed>> /\ (Fault \/ UNCHANGED faults)
    BY <1>8 DEF DeletePipeline, ChangeKey, vars, table
  <2> QED BY <1>1, <2>1, FaultCounts DEF DLQLimits
<1> QED
  BY <1>2, <1>3, <1>4, <1>6, <1>7, <1>8 DEF Next, Reaper, Admin, Actors

(* The types of the dead-letter table: what is scheduled or redacted is a  *)
(* row of the table, whatever deletes rows under whoever works on them.    *)
THEOREM DLQTypes == Spec => []TypeOK
<1>1. Init => DLQLimits
  BY ActorsAssumption, LimitsAssumption DEF Init, DLQLimits
<1>2. Init => DLQFlags
  BY Zenon DEF Init, DLQFlags
<1>3. MaskInv /\ DLQLimits /\ DLQFlags => TypeOK
  <2> SUFFICES ASSUME MaskInv, DLQLimits, DLQFlags PROVE TypeOK
    OBVIOUS
  <2>1. pushed \in 0 .. MaxPushed /\ faults \in 0 .. MaxFaults
    BY ActorsAssumption, LimitsAssumption DEF MaskInv, RetryInv, RetryTypes, DLQLimits
  <2>2. ent \in [Actors -> Entries] /\ masked \subseteq present
    BY DEF MaskInv, DLQLimits
  <2> QED BY <2>1, <2>2, Zenon DEF TypeOK, MaskInv, RetryInv, RetryTypes, DLQFlags
<1>4. RetryInv /\ DLQLimits /\ DLQFlags /\ [Next]_vars => DLQLimits' /\ DLQFlags'
  BY FlagsKept, LimitsKept
<1>5. MaskInv => RetryInv
  BY DEF MaskInv
<1> QED BY <1>1, <1>2, <1>3, <1>4, <1>5, MaskInitial, MaskStepKeeps, PTL DEF Spec
=============================================================================
