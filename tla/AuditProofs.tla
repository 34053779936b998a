---------------------------- MODULE AuditProofs ----------------------------
(***************************************************************************)
(* What holds of the audit log for any set of row ids, any legacy rows, any *)
(* clock and any behaviour of the archivers.                               *)
(*  - The chain verifies unless an insert overtook another or the column   *)
(*    rounded a time off, and Verify finds alterations.                    *)
(*  - A stored row is in the table, a local file or the object store, but  *)
(*    for the losses that RowsKept names.                                  *)
(***************************************************************************)
EXTENDS Archiver, FiniteSetTheorems, WellFoundedInduction, TLAPS

-----------------------------------------------------------------------------
(* The inductive invariant. *)

\* Rows are as Row and LegacyRow make them; only legacy rows lack a hash, and
\* they are the ones from before the clock started.
IsRow(r) ==
    /\ r = [id |-> r.id, at |-> r.at, ns |-> 0, body |-> "served",
            prev |-> r.prev, hash |-> r.hash]
    /\ r.id \in Ids /\ r.at \in Nat
    /\ r.hash = EmptyHash <=> r.at = 0

IsEntry(e) ==
    /\ e = [id |-> e.id, at |-> e.at, ns |-> IF rounds THEN 1 ELSE 0, body |-> "served"]
    /\ e.id \in Ids /\ e.at \in Nat \ {0}

LogTyped ==
    /\ now \in Nat \ {0}
    /\ \A e \in pending : IsEntry(e)
    /\ \A r \in table \cup chainMu : IsRow(r)

\* An id belongs to one entry, pending or inserted.
IdsOnce ==
    /\ \A q, r \in table : q.id = r.id => q = r
    /\ \A r \in table : r.id \in stored
    /\ \A e \in pending \cup chainMu : e.id \notin stored
    /\ \A e, f \in pending : e.id = f.id => e = f
    /\ \A e \in pending, c \in chainMu : e.id # c.id
    /\ \A c, d \in chainMu : c = d
    /\ postgres => chainMu = {}

Sealed(r) == r.hash = EmptyHash \/ r.hash = computeAuditHash(r.prev, r)

\* The row under chainMu continues the chain: its prev_hash is the head's,
\* unless the archiver has deleted every row meanwhile.
Continues(c) == table = {} \/ \E h \in table : IsHead(h, table) /\ c.prev = h.hash

Chained ==
    /\ \A r \in table \cup chainMu : Sealed(r)
    /\ \A q, r \in table : Adjacent(q, r, table) /\ r.hash # EmptyHash => r.prev = q.hash
    /\ \A c \in chainMu : Continues(c)

ChainInv ==
    /\ LogTyped
    /\ IdsOnce
    /\ ~overtaken /\ ~rounds => Chained

CutoffTyped == cutoff \in [Replicas -> Int]

-----------------------------------------------------------------------------
(* What a step of the whole system does to the table and its writers: the  *)
(* archiver only ever deletes rows older than some limit.                  *)
DeleteStep(limit) ==
    /\ DeleteOlderThan(limit)
    /\ UNCHANGED <<now, postgres, rounds, pending, chainMu, stored, overtaken>>

LogStep ==
    \/ \E id \in Ids : Stamp(id)
    \/ \E e \in pending : ReadHead(e) \/ TryInsertSerialised(e)
    \/ \E row \in chainMu : InsertRow(row)
    \/ \E e \in pending \cup chainMu : GiveUp(e)
    \/ Tick
    \/ \E limit \in Int : DeleteStep(limit)
    \/ UNCHANGED logVars

LEMMA StepsAreLogSteps == LogTyped /\ CutoffTyped /\ [Next]_vars => LogStep /\ CutoffTyped'
<1> SUFFICES ASSUME LogTyped, CutoffTyped, [Next]_vars PROVE LogStep /\ CutoffTyped'
  OBVIOUS
<1>1. ASSUME NEW id \in Ids, (Stamp(id) /\ UNCHANGED archiveVars) \/ Insert(id) \/ InsertFails(id)
      PROVE  LogStep /\ UNCHANGED cutoff
  BY <1>1 DEF Insert, InsertFails, LogStep, archiveVars
<1>2. CASE Tick /\ UNCHANGED archiveVars
  BY <1>2 DEF LogStep, archiveVars, CutoffTyped
<1>3. ASSUME NEW r \in Replicas, SweepStep(r) \/ SweepFails(r) \/ Restart(r) \/ PowerLoss(r) \/ Handover(r)
      PROVE  LogStep /\ CutoffTyped'
  <2>1. CASE Sweep(r)
    <3>1. now - MaxAge \in Int
      BY AgeAssumption DEF LogTyped
    <3> QED
      BY <2>1, <3>1 DEF Sweep, LogStep, CutoffTyped
  <2>2. CASE Rotate(r) \/ WriteRow(r) \/ Fsync(r) \/ Handover(r)
    BY <2>2 DEF Rotate, WriteRow, Fsync, Handover, LogStep, CutoffTyped
  <2>3. CASE SweepFails(r) \/ Restart(r) \/ PowerLoss(r)
    BY <2>3 DEF SweepFails, Restart, PowerLoss, SweepEnds, LogStep, CutoffTyped
  <2>4. CASE Prune(r)
    <3>1. cutoff[r] \in Int
      BY DEF CutoffTyped
    <3>2. DeleteStep(cutoff[r])
      BY <2>4 DEF Prune, DeleteStep, DeleteCutoff
    <3> QED
      BY <2>4, <3>1, <3>2 DEF Prune, SweepEnds, LogStep, CutoffTyped
  <2> QED
    BY <1>3, <2>1, <2>2, <2>3, <2>4 DEF SweepStep
<1>4. CASE UNCHANGED vars
  BY <1>4 DEF vars, archiveVars, LogStep, CutoffTyped
<1> QED
  BY <1>1, <1>2, <1>3, <1>4 DEF Next, CutoffTyped

-----------------------------------------------------------------------------
(* Facts about rows. *)

\* A row that Row makes of an entry is a row, sealed unless rounded off.
LEMMA RowOfEntry ==
  ASSUME NEW e, IsEntry(e), NEW prev
  PROVE  /\ IsRow(Row(e, prev))
         /\ ~rounds => Sealed(Row(e, prev))
         /\ Row(e, prev).prev = prev
         /\ Row(e, prev).id = e.id
<1>1. computeAuditHash(prev, e) # EmptyHash
  BY DEF computeAuditHash, EmptyHash
<1> QED
  BY <1>1 DEF IsEntry, IsRow, Row, Sealed, computeAuditHash

\* ORDER BY at, id is a strict total order on rows with distinct ids.
LEMMA Order ==
  ASSUME NEW q, IsRow(q), NEW r, IsRow(r), NEW s, IsRow(s)
  PROVE  /\ ~Less(q, q)
         /\ Less(q, r) /\ Less(r, s) => Less(q, s)
         /\ q.id # r.id => Less(q, r) \/ Less(r, q)
         /\ Less(q, r) => q.at <= r.at
  BY IdsAssumption DEF IsRow, Less, Ids

\* A row stored above all others and linked to the head keeps the chain.
LEMMA StoreKeepsChain ==
  ASSUME LogTyped, IdsOnce, NEW row, IsRow(row), row.id \notin stored, Store(row),
         ~overtaken', Sealed(row), Continues(row),
         \A r \in table : Sealed(r),
         \A q, r \in table : Adjacent(q, r, table) /\ r.hash # EmptyHash => r.prev = q.hash
  PROVE  /\ \A r \in table' : Sealed(r)
         /\ \A q, r \in table' : Adjacent(q, r, table') /\ r.hash # EmptyHash => r.prev = q.hash
<1>1. table' = table \cup {row} /\ \A q \in table : ~Less(row, q)
  BY DEF Store
<1>2. \A q \in table : IsRow(q) /\ q.id # row.id
  BY DEF LogTyped, IdsOnce
<1>3. \A q \in table : Less(q, row)
  BY <1>1, <1>2, Order
<1>4. ASSUME NEW q \in table', NEW r \in table', Adjacent(q, r, table'), r.hash # EmptyHash
      PROVE  r.prev = q.hash
  <2>1. CASE r = row
    <3>1. q \in table
      BY <1>1, <1>4, <2>1, Order DEF Adjacent
    <3>2. PICK h \in table : IsHead(h, table) /\ row.prev = h.hash
      BY <3>1 DEF Continues
    <3>3. q = h
      BY <1>1, <1>3, <1>4, <2>1, <3>1, <3>2 DEF Adjacent, IsHead
    <3> QED
      BY <2>1, <3>2, <3>3
  <2>2. CASE r # row
    <3>1. r \in table /\ q \in table
      BY <1>1, <1>4, <2>2 DEF Adjacent
    <3> QED
      BY <1>1, <1>4, <3>1 DEF Adjacent
  <2> QED
    BY <2>1, <2>2
<1> QED
  BY <1>1, <1>4

\* Deleting the rows before a limit neither parts neighbours nor the head.
LEMMA DeleteKeepsChain ==
  ASSUME LogTyped, Chained, NEW limit \in Int, DeleteStep(limit)
  PROVE  Chained'
<1>1. table' = {r \in table : r.at >= limit} /\ chainMu' = chainMu
  BY DEF DeleteStep, DeleteOlderThan
<1>2. \A r \in table : IsRow(r)
  BY DEF LogTyped
<1>3. ASSUME NEW q \in table', NEW r \in table', Adjacent(q, r, table')
      PROVE  Adjacent(q, r, table)
  <2> SUFFICES ASSUME NEW x \in table, Less(q, x), Less(x, r) PROVE FALSE
    BY <1>3 DEF Adjacent
  <2>1. q.at <= x.at
    BY <1>1, <1>2, Order
  <2>2. x \in table'
    BY <1>1, <1>2, <2>1 DEF IsRow
  <2> QED
    BY <1>3, <2>2 DEF Adjacent
<1>4. ASSUME NEW c \in chainMu PROVE Continues(c)'
  <2>1. CASE table' = {}
    BY <2>1 DEF Continues
  <2>2. CASE table' # {}
    <3>1. PICK y : y \in table'
      BY <2>2
    <3>2. PICK h \in table : IsHead(h, table) /\ c.prev = h.hash
      BY <1>1, <3>1 DEF Chained, Continues
    <3>3. y.at <= h.at
      BY <1>1, <1>2, <3>1, <3>2, Order DEF IsHead, IsRow
    <3>4. h \in table'
      BY <1>1, <1>2, <3>1, <3>3 DEF IsRow
    <3> QED
      BY <1>1, <3>2, <3>4 DEF IsHead, Continues
  <2> QED
    BY <2>1, <2>2
<1> QED
  BY <1>1, <1>3, <1>4 DEF Chained, Sealed

-----------------------------------------------------------------------------
(* The invariant is inductive. *)

LEMMA TypedStep == ChainInv /\ LogStep => LogTyped' /\ IdsOnce'
<1> SUFFICES ASSUME LogTyped, IdsOnce, LogStep PROVE LogTyped' /\ IdsOnce'
  BY DEF ChainInv
<1>1. ASSUME NEW id \in Ids, Stamp(id) PROVE LogTyped' /\ IdsOnce'
  <2>1. IsEntry(Entry(id, now)) /\ Entry(id, now).id = id
    BY IdsAssumption DEF IsEntry, Entry, LogTyped
  <2>2. pending' = pending \cup {Entry(id, now)}
        /\ UNCHANGED <<now, postgres, rounds, chainMu, table, stored>>
    BY <1>1 DEF Stamp
  <2>3. id \notin stored /\ \A e \in pending \cup chainMu : e.id # id
    BY <1>1 DEF Stamp
  <2>4. LogTyped'
    BY <2>1, <2>2 DEF LogTyped, IsEntry
  <2> QED
    BY <2>1, <2>2, <2>3, <2>4 DEF IdsOnce
<1>2. ASSUME NEW e \in pending, ReadHead(e) PROVE LogTyped' /\ IdsOnce'
  <2>1. PICK prev : chainMu' = {Row(e, prev)}
    BY <1>2 DEF ReadHead
  <2>2. ~postgres /\ chainMu = {} /\ pending' = pending \ {e} /\ UNCHANGED <<now, postgres, rounds, table, stored>>
    BY <1>2 DEF ReadHead
  <2>3. IsEntry(e) /\ IsRow(Row(e, prev)) /\ Row(e, prev).id = e.id
    BY RowOfEntry DEF LogTyped
  <2>4. LogTyped'
    BY <2>1, <2>2, <2>3 DEF LogTyped, IsEntry
  <2> QED
    BY <2>1, <2>2, <2>3, <2>4 DEF IdsOnce
<1>3. ASSUME NEW e \in pending, TryInsertSerialised(e) PROVE LogTyped' /\ IdsOnce'
  <2>1. PICK prev : Store(Row(e, prev))
    BY <1>3 DEF TryInsertSerialised
  <2>2. pending' = pending \ {e} /\ UNCHANGED <<now, postgres, rounds, chainMu>>
    BY <1>3 DEF TryInsertSerialised
  <2>3. IsEntry(e) /\ IsRow(Row(e, prev)) /\ Row(e, prev).id = e.id
    BY RowOfEntry DEF LogTyped
  <2>4. table' = table \cup {Row(e, prev)} /\ stored' = stored \cup {e.id}
    BY <2>1, <2>3 DEF Store
  <2>5. LogTyped'
    BY <2>2, <2>3, <2>4 DEF LogTyped, IsEntry
  <2> QED
    BY <2>2, <2>3, <2>4, <2>5 DEF IdsOnce
<1>4. ASSUME NEW row \in chainMu, InsertRow(row) PROVE LogTyped' /\ IdsOnce'
  <2>1. /\ table' = table \cup {row} /\ stored' = stored \cup {row.id}
        /\ chainMu' = chainMu \ {row} /\ UNCHANGED <<now, postgres, rounds, pending>>
    BY <1>4 DEF InsertRow, Store
  <2> QED
    BY <2>1 DEF LogTyped, IdsOnce, IsEntry
<1>5. ASSUME NEW e \in pending \cup chainMu, GiveUp(e) PROVE LogTyped' /\ IdsOnce'
  BY <1>5 DEF GiveUp, LogTyped, IdsOnce, IsEntry
<1>6. CASE Tick
  BY <1>6 DEF Tick, LogTyped, IdsOnce, IsEntry
<1>7. ASSUME NEW limit \in Int, DeleteStep(limit) PROVE LogTyped' /\ IdsOnce'
  BY <1>7 DEF DeleteStep, DeleteOlderThan, LogTyped, IdsOnce, IsEntry
<1>8. CASE UNCHANGED logVars
  BY <1>8 DEF logVars, LogTyped, IdsOnce, IsEntry
<1> QED
  BY <1>1, <1>2, <1>3, <1>4, <1>5, <1>6, <1>7, <1>8 DEF LogStep

\* The head that SELECT ... LIMIT 1 finds is the head, if there is one.
LEMMA HeadContinues ==
  ASSUME NEW prev \in HeadHash(table), NEW row, row.prev = prev
  PROVE  Continues(row)
  BY DEF HeadHash, Continues, IsHead

LEMMA ChainStep == ChainInv /\ LogStep => ChainInv'
<1> SUFFICES ASSUME ChainInv, LogStep PROVE ChainInv'
  OBVIOUS
<1>1. LogTyped' /\ IdsOnce'
  BY TypedStep
<1>2. LogTyped /\ IdsOnce
  BY DEF ChainInv
<1>3. SUFFICES ASSUME ~overtaken', ~rounds' PROVE Chained'
  BY <1>1 DEF ChainInv
<1>4. ~overtaken /\ ~rounds
  <2>0. ASSUME NEW row, Store(row) PROVE ~overtaken
    BY <1>3, <2>0 DEF Store
  <2>1. CASE \E e \in pending : TryInsertSerialised(e)
    <3>1. (\E row : Store(row)) /\ UNCHANGED rounds
      BY <2>1 DEF TryInsertSerialised
    <3> QED
      BY <1>3, <2>0, <3>1
  <2>2. CASE \E row \in chainMu : InsertRow(row)
    <3>1. (\E row : Store(row)) /\ UNCHANGED rounds
      BY <2>2 DEF InsertRow
    <3> QED
      BY <1>3, <2>0, <3>1
  <2>3. CASE /\ ~\E e \in pending : TryInsertSerialised(e)
             /\ ~\E row \in chainMu : InsertRow(row)
    BY <1>3, <2>3 DEF LogStep, Stamp, ReadHead, GiveUp, Tick, DeleteStep, logVars
  <2> QED
    BY <2>1, <2>2, <2>3
<1>5. Chained
  BY <1>4 DEF ChainInv
<1>6. ASSUME NEW id \in Ids, Stamp(id) PROVE Chained'
  BY <1>5, <1>6 DEF Stamp, Chained, Continues
<1>7. ASSUME NEW e \in pending, ReadHead(e) PROVE Chained'
  <2>1. PICK prev \in HeadHash(table) : chainMu' = {Row(e, prev)}
    BY <1>7 DEF ReadHead
  <2>2. Sealed(Row(e, prev)) /\ Row(e, prev).prev = prev
    BY <1>2, <1>4, RowOfEntry DEF LogTyped
  <2>3. Continues(Row(e, prev))
    BY <2>2, HeadContinues
  <2>4. UNCHANGED table
    BY <1>7 DEF ReadHead
  <2> QED
    BY <1>5, <2>1, <2>2, <2>3, <2>4 DEF Chained, Continues
<1>8. ASSUME NEW e \in pending, TryInsertSerialised(e) PROVE Chained'
  <2>1. PICK prev \in HeadHash(table) : Store(Row(e, prev))
    BY <1>8 DEF TryInsertSerialised
  <2>2. IsRow(Row(e, prev)) /\ Sealed(Row(e, prev)) /\ Row(e, prev).prev = prev
        /\ Row(e, prev).id \notin stored
    BY <1>2, <1>4, RowOfEntry DEF LogTyped, IdsOnce
  <2>3. Continues(Row(e, prev))
    BY <2>2, HeadContinues
  <2>4. chainMu' = {}
    BY <1>2, <1>8 DEF TryInsertSerialised, IdsOnce
  <2> QED
    BY <1>2, <1>3, <1>5, <2>1, <2>2, <2>3, <2>4, StoreKeepsChain DEF Chained
<1>9. ASSUME NEW row \in chainMu, InsertRow(row) PROVE Chained'
  <2>1. Store(row) /\ chainMu' = {}
    BY <1>2, <1>9 DEF InsertRow, IdsOnce
  <2>2. IsRow(row) /\ row.id \notin stored /\ Sealed(row) /\ Continues(row)
    BY <1>2, <1>5 DEF LogTyped, IdsOnce, Chained
  <2> QED
    BY <1>2, <1>3, <1>5, <2>1, <2>2, StoreKeepsChain DEF Chained
<1>10. ASSUME NEW e \in pending \cup chainMu, GiveUp(e) PROVE Chained'
  BY <1>5, <1>10 DEF GiveUp, Chained, Continues
<1>11. CASE Tick
  BY <1>5, <1>11 DEF Tick, Chained, Continues
<1>12. ASSUME NEW limit \in Int, DeleteStep(limit) PROVE Chained'
  BY <1>2, <1>5, <1>12, DeleteKeepsChain
<1>13. CASE UNCHANGED logVars
  BY <1>5, <1>13 DEF logVars, Chained, Continues
<1> QED
  BY <1>6, <1>7, <1>8, <1>9, <1>10, <1>11, <1>12, <1>13 DEF LogStep

LEMMA ChainInit == Init => ChainInv /\ CutoffTyped
<1> SUFFICES ASSUME Init PROVE ChainInv /\ CutoffTyped
  OBVIOUS
<1>1. /\ now = 1 /\ pending = {} /\ chainMu = {} /\ stored = Legacy
      /\ table = {LegacyRow(id) : id \in Legacy}
  BY DEF Init, LogInit
<1>2. \A id \in Legacy : IsRow(LegacyRow(id)) /\ LegacyRow(id).id = id /\ LegacyRow(id).hash = EmptyHash
  BY IdsAssumption DEF IsRow, LegacyRow
<1>3. LogTyped
  BY <1>1, <1>2 DEF LogTyped
<1>4. IdsOnce
  BY <1>1, <1>2 DEF IdsOnce
<1>5. Chained
  BY <1>1, <1>2 DEF Chained, Sealed
<1>6. CutoffTyped
  BY DEF Init, ArchiveInit, CutoffTyped
<1> QED
  BY <1>3, <1>4, <1>5, <1>6 DEF ChainInv

LEMMA ChainInvariant == Spec => [](ChainInv /\ CutoffTyped)
<1>1. ChainInv /\ CutoffTyped /\ [Next]_vars => (ChainInv /\ CutoffTyped)'
  BY StepsAreLogSteps, ChainStep DEF ChainInv
<1> QED
  BY <1>1, ChainInit, PTL DEF Spec

\* GET /audit/verify answers "ok" whatever the inserts, the archivers and
\* their failures do, unless an insert overtook another or the column rounded
\* a time off (audit.go Insert, Verify).
THEOREM ChainVerifies == Spec => []ChainIntact
<1>1. ChainInv => ChainIntact
  <2> SUFFICES ASSUME ChainInv, ~overtaken, ~rounds PROVE Verify(table) = "ok"
    BY DEF ChainIntact
  <2>1. Chained
    BY DEF ChainInv
  <2>2. ASSUME NEW r \in table PROVE ~Broken(r, table)
    BY <2>1 DEF Chained, Sealed, Broken
  <2> QED
    BY <2>2 DEF Verify
<1> QED
  BY <1>1, ChainInvariant, PTL

-----------------------------------------------------------------------------
(* Verify finds alterations. *)

\* A set of numbers has a least one.
LEMMA LeastNumber ==
  ASSUME NEW S \in SUBSET Nat, S # {}
  PROVE  \E x \in S : \A y \in S : x <= y
<1>1. \E x \in S : \A y \in S : ~(<<y, x>> \in OpToRel(<, Nat))
  BY NatLessThanWellFounded, WFMin
<1>2. ASSUME NEW x \in Nat, NEW y \in Nat, y < x PROVE <<y, x>> \in OpToRel(<, Nat)
  BY <1>2 DEF OpToRel
<1>3. PICK x \in S : \A y \in S : ~(<<y, x>> \in OpToRel(<, Nat))
  BY <1>1
<1>4. \A y \in S : ~(y < x)
  BY <1>2, <1>3
<1>5. \A y \in S : x <= y
  BY <1>4
<1> QED
  BY <1>5

\* So has a set of rows, in the order of the table ...
LEMMA FirstRow ==
  ASSUME NEW T, T # {}, \A r \in T : IsRow(r)
  PROVE  \E x \in T : \A y \in T : ~Less(y, x)
<1>1. PICK a \in {r.at : r \in T} : \A b \in {r.at : r \in T} : a <= b
  BY LeastNumber DEF IsRow
<1> DEFINE U == {r \in T : r.at = a}
<1>a. {r.id : r \in U} \in SUBSET Nat /\ {r.id : r \in U} # {}
  BY <1>1, IdsAssumption DEF IsRow, Ids
<1>2. PICK i \in {r.id : r \in U} : \A j \in {r.id : r \in U} : i <= j
  BY <1>a, LeastNumber
<1>3. PICK x \in U : x.id = i
  BY <1>2
<1>4. ASSUME NEW y \in T PROVE ~Less(y, x)
  BY <1>1, <1>2, <1>3, IdsAssumption DEF Less, IsRow, Ids
<1> QED
  BY <1>3, <1>4

\* ... and a last one, if their times are bounded.
LEMMA LastRow ==
  ASSUME NEW T, T # {}, \A r \in T : IsRow(r), NEW n \in Nat, \A r \in T : r.at <= n
  PROVE  \E x \in T : \A y \in T : ~Less(x, y)
<1>1. {n - r.at : r \in T} \in SUBSET Nat /\ {n - r.at : r \in T} # {}
  BY DEF IsRow
<1>2. PICK a \in {n - r.at : r \in T} : \A b \in {n - r.at : r \in T} : a <= b
  BY <1>1, LeastNumber
<1> DEFINE U == {r \in T : n - r.at = a}
<1>3. {NumIds - r.id : r \in U} \in SUBSET Nat /\ {NumIds - r.id : r \in U} # {}
  BY <1>2, IdsAssumption DEF IsRow, Ids
<1>4. PICK i \in {NumIds - r.id : r \in U} : \A j \in {NumIds - r.id : r \in U} : i <= j
  BY <1>3, LeastNumber
<1>5. PICK x \in U : NumIds - x.id = i
  BY <1>4
<1>6. ASSUME NEW y \in T, Less(x, y) PROVE FALSE
  <2>1. n - y.at >= n - x.at
    BY <1>2, <1>5
  <2>2. y.at = x.at /\ x.id < y.id
    BY <1>6, <2>1 DEF Less, IsRow
  <2>3. NumIds - y.id >= NumIds - x.id
    BY <1>4, <1>5, <2>2
  <2> QED
    BY <2>2, <2>3, IdsAssumption DEF IsRow, Ids
<1> QED
  BY <1>5, <1>6

\* The neighbours of a row.
LEMMA Neighbours ==
  ASSUME NEW T, \A r \in T : IsRow(r), \A q, r \in T : q.id = r.id => q = r, NEW r \in T
  PROVE  /\ (\E x \in T : Less(r, x)) => \E x \in T : Adjacent(r, x, T)
         /\ (\E x \in T : Less(x, r)) => \E x \in T : Adjacent(x, r, T)
<1>1. ASSUME \E x \in T : Less(r, x) PROVE \E x \in T : Adjacent(r, x, T)
  <2> DEFINE U == {x \in T : Less(r, x)}
  <2>1. PICK x \in U : \A y \in U : ~Less(y, x)
    BY <1>1, FirstRow
  <2> QED
    BY <2>1 DEF Adjacent
<1>2. ASSUME \E x \in T : Less(x, r) PROVE \E x \in T : Adjacent(x, r, T)
  <2> DEFINE U == {x \in T : Less(x, r)}
  <2>1. \A x \in U : x.at <= r.at /\ IsRow(x)
    BY Order
  <2>2. U # {} /\ r.at \in Nat
    BY <1>2 DEF IsRow
  <2>3. PICK x \in U : \A y \in U : ~Less(x, y)
    BY <2>1, <2>2, LastRow
  <2> QED
    BY <2>3 DEF Adjacent
<1> QED
  BY <1>1, <1>2

LEMMA Detected == ChainInv => DetectsAlteration
<1> SUFFICES ASSUME ChainInv, Verify(table) = "ok", NEW r \in table, r.hash # EmptyHash
             PROVE  LET rest     == table \ {r}
                        altered  == [r EXCEPT !.body = "altered"]
                        resealed == [altered EXCEPT !.hash = computeAuditHash(r.prev, altered)]
                        last     == ~\E x \in table : Less(r, x)
                        first    == ~\E x \in table : Less(x, r)
                    IN  /\ Verify(rest \cup {altered}) = "broken"
                        /\ ~last => Verify(rest \cup {resealed}) = "broken"
                        /\ ~last /\ ~first => Verify(rest) = "broken"
  BY DEF DetectsAlteration
<1> DEFINE rest == table \ {r}
           altered == [r EXCEPT !.body = "altered"]
           resealed == [altered EXCEPT !.hash = computeAuditHash(r.prev, altered)]
<1>1. \A x \in table : ~Broken(x, table)
  BY DEF Verify
<1>2. /\ \A x \in table : IsRow(x)
      /\ \A x, y \in table : x.id = y.id => x = y
  BY DEF ChainInv, LogTyped, IdsOnce
<1>3. r.hash = <<r.prev, r.id, r.at, r.ns, "served">> /\ r.body = "served"
  BY <1>1, <1>2 DEF Broken, computeAuditHash, IsRow
<1>4. /\ altered.id = r.id /\ altered.at = r.at /\ altered.ns = r.ns
      /\ altered.prev = r.prev /\ altered.hash = r.hash /\ altered.body = "altered"
  BY <1>2 DEF IsRow
<1>5. resealed.id = r.id /\ resealed.at = r.at /\ resealed.hash = computeAuditHash(r.prev, altered)
  BY <1>2 DEF IsRow
<1>6. computeAuditHash(r.prev, altered) # r.hash
  BY <1>3, <1>4 DEF computeAuditHash
<1>7. Verify(rest \cup {altered}) = "broken"
  <2>1. Broken(altered, rest \cup {altered})
    BY <1>4, <1>6 DEF Broken
  <2> QED
    BY <2>1 DEF Verify
<1>8. ASSUME NEW x \in table, Adjacent(r, x, table)
      PROVE  x \in rest /\ x.hash # EmptyHash /\ x.prev = r.hash
  <2>1. Less(r, x) /\ x # r
    BY <1>2, <1>8, Order DEF Adjacent
  <2>2. x.hash # EmptyHash
    BY <1>2, <2>1 DEF Less, IsRow
  <2> QED
    BY <1>1, <1>8, <2>1, <2>2 DEF Broken
<1>9. ASSUME \E x \in table : Less(r, x) PROVE Verify(rest \cup {resealed}) = "broken"
  <2>1. PICK x \in table : Adjacent(r, x, table)
    BY <1>2, <1>9, Neighbours
  <2>2. \A y : Less(resealed, y) <=> Less(r, y)
    BY <1>5 DEF Less
  <2>3. \A y \in rest \cup {resealed} : ~(Less(resealed, y) /\ Less(y, x))
    <3>1. ~Less(resealed, resealed)
      BY <1>2, <1>5, Order DEF Less
    <3> QED
      BY <2>1, <2>2, <3>1 DEF Adjacent
  <2>4. Adjacent(resealed, x, rest \cup {resealed})
    BY <2>1, <2>2, <2>3 DEF Adjacent
  <2>5. Broken(x, rest \cup {resealed})
    BY <1>5, <1>6, <1>8, <2>1, <2>4 DEF Broken
  <2> QED
    BY <1>8, <2>1, <2>5 DEF Verify
<1>10. ASSUME \E x \in table : Less(r, x), \E x \in table : Less(x, r)
       PROVE  Verify(rest) = "broken"
  <2>1. PICK x \in table : Adjacent(r, x, table)
    BY <1>2, <1>10, Neighbours
  <2>2. PICK p \in table : Adjacent(p, r, table)
    BY <1>2, <1>10, Neighbours
  <2>3. p # r /\ Less(p, x)
    BY <1>2, <2>1, <2>2, Order DEF Adjacent
  <2>4. ASSUME NEW y \in rest PROVE ~(Less(p, y) /\ Less(y, x))
    <3>1. Less(y, r) \/ Less(r, y)
      BY <1>2, Order
    <3> QED
      BY <2>1, <2>2, <3>1 DEF Adjacent
  <2>5. p.hash # r.hash
    <3>1. p.id # r.id
      BY <1>2, <2>3
    <3>2. p.hash = EmptyHash \/ p.hash = <<p.prev, p.id, p.at, p.ns, p.body>>
      BY <1>1 DEF Broken, computeAuditHash
    <3> QED
      BY <1>3, <3>1, <3>2
  <2>6. Broken(x, rest)
    BY <1>8, <2>1, <2>3, <2>4, <2>5 DEF Broken, Adjacent
  <2> QED
    BY <1>8, <2>1, <2>6 DEF Verify
<1> QED
  BY <1>7, <1>9, <1>10

\* While Verify accepts the table, a changed body is found, even with a fresh
\* hash unless the row is the last, and so is a row taken out of the middle
\* (audit.go, the comment on AuditEntry).
THEOREM AlterationsDetected == Spec => []DetectsAlteration
<1> QED
  BY Detected, ChainInvariant, PTL

-----------------------------------------------------------------------------
(***************************************************************************)
(* No row is lost.  Until its row is deleted an id is in the table; the    *)
(* DELETE comes when every row older than the cutoff is on disk or in the  *)
(* object store.  Where local files are removed after the upload, that     *)
(* rests on an order: the cursor returns rows by time, and no row older    *)
(* than the cutoff arrives any more, so a day whose file has been uploaded *)
(* is never written again and its object never overwritten.                *)
(***************************************************************************)
Files == [Replicas -> [Days -> SUBSET Ids]]
ArchiveTyped ==
    /\ file \in Files /\ synced \in Files
    /\ object \in [Days -> SUBSET Ids]
    /\ openDate \in [Replicas -> Days \cup {None}]
    /\ sweep \in [Replicas -> {"idle", "copy", "delete"}]
    /\ todo = [r \in Replicas |-> todo[r]]
    /\ cutoff \in [Replicas -> Int]
    /\ IsFiniteSet(sweepers)

\* Entries are younger than their context, rows not younger than the clock.
Clocked ==
    /\ now <= MaxTime
    /\ \A x \in table \cup pending \cup chainMu : x.at <= now
    /\ \A e \in pending \cup chainMu : Alive(e)

\* What a replica's sweep has in hand: rows from before the cutoff; an open
\* file, or rows to delete, only after it has written a row.
SweepSound(r) ==
    /\ sweep[r] # "idle" => cutoff[r] <= now - MaxAge
    /\ sweep[r] # "copy" => todo[r] = {}
    /\ \A x \in todo[r] : x.id \in Ids /\ x.at \in Nat /\ Day(x.at) \in Days
                          /\ x.at < cutoff[r]
    /\ r \notin sweepers => /\ openDate[r] = None /\ sweep[r] # "delete"
                            /\ sweep[r] = "copy" => todo[r] # {}
    /\ \A d \in Days : synced[r][d] \subseteq file[r][d]

SweepsSound == \A r \in Replicas : SweepSound(r)
BaseInv == ChainInv /\ ArchiveTyped /\ Clocked /\ SweepsSound

\* Days follow the clock.
LEMMA DayMonotone ==
  ASSUME NEW a \in Nat, NEW b \in Nat, a <= b
  PROVE  Day(a) \in Nat /\ Day(b) \in Nat /\ Day(a) <= Day(b)
  BY DayAssumption DEF Day

LEMMA DayInDays ==
  ASSUME NEW a \in Nat, a <= MaxTime
  PROVE  Day(a) \in Days
  BY DayMonotone, TimeAssumption DEF Days

LEMMA RowDays ==
  ASSUME BaseInv, NEW x \in table \cup pending \cup chainMu
  PROVE  x.id \in Ids /\ x.at \in Nat /\ Day(x.at) \in Days
  BY DayInDays, TimeAssumption
     DEF BaseInv, ChainInv, LogTyped, IsRow, IsEntry, Clocked

\* What a step of the writers does: nothing is taken from the table, and
\* what comes into it was stamped within the context of an insert.
WriterStep ==
    /\ now' \in {now, now + 1}
    /\ \A e \in (pending \cup chainMu)' :
         e.at = now \/ \E y \in pending \cup chainMu : y.at = e.at
    /\ table \subseteq table'
    /\ \A x \in table' \ table : \E y \in pending \cup chainMu : y.at = x.at
    /\ \A id \in stored' \ stored : \E x \in table' : x.id = id

Writes ==
    \/ \E id \in Ids : Stamp(id)
    \/ \E e \in pending : ReadHead(e) \/ TryInsertSerialised(e)
    \/ \E row \in chainMu : InsertRow(row)
    \/ \E e \in pending \cup chainMu : GiveUp(e)
    \/ Tick
    \/ UNCHANGED logVars

LEMMA WritesAreWriterSteps ==
  ASSUME LogTyped, Clocked, Writes
  PROVE  WriterStep /\ Clocked'
<1>1. now \in Nat /\ InsertTimeout \in Nat /\ MaxTime \in Nat
  BY TimeAssumption DEF LogTyped
<1>2. \A x \in table \cup pending \cup chainMu : x.at \in Nat
  BY DEF LogTyped, IsRow, IsEntry
<1>3. ASSUME NEW id \in Ids, Stamp(id) PROVE WriterStep /\ Clocked'
  <2>1. Entry(id, now).at = now
    BY DEF Entry
  <2>2. pending' = pending \cup {Entry(id, now)}
        /\ UNCHANGED <<now, chainMu, table, stored>>
    BY <1>3 DEF Stamp
  <2>3. WriterStep
    BY <1>1, <2>1, <2>2 DEF WriterStep
  <2>4. Clocked'
    BY <1>1, <1>2, <2>1, <2>2 DEF Clocked, Alive
  <2> QED BY <2>3, <2>4
<1>4. ASSUME NEW e \in pending, ReadHead(e) PROVE WriterStep /\ Clocked'
  <2>1. PICK prev : chainMu' = {Row(e, prev)}
    BY <1>4 DEF ReadHead
  <2>2. Row(e, prev).at = e.at
    BY DEF Row
  <2>3. pending' = pending \ {e} /\ UNCHANGED <<now, table, stored>>
    BY <1>4 DEF ReadHead
  <2>4. WriterStep
    BY <1>1, <2>1, <2>2, <2>3 DEF WriterStep
  <2>5. Clocked'
    BY <1>1, <1>2, <2>1, <2>2, <2>3 DEF Clocked, Alive
  <2> QED BY <2>4, <2>5
<1>5. ASSUME NEW e \in pending, TryInsertSerialised(e) PROVE WriterStep /\ Clocked'
  <2>1. PICK prev : table' = table \cup {Row(e, prev)} /\ stored' = stored \cup {Row(e, prev).id}
    BY <1>5 DEF TryInsertSerialised, Store
  <2>2. Row(e, prev).at = e.at
    BY DEF Row
  <2>3. pending' = pending \ {e} /\ UNCHANGED <<now, chainMu>>
    BY <1>5 DEF TryInsertSerialised
  <2>4. WriterStep
    BY <1>1, <2>1, <2>2, <2>3 DEF WriterStep
  <2>5. Clocked'
    BY <1>1, <1>2, <2>1, <2>2, <2>3 DEF Clocked, Alive
  <2> QED BY <2>4, <2>5
<1>6. ASSUME NEW row \in chainMu, InsertRow(row) PROVE WriterStep /\ Clocked'
  <2>1. /\ table' = table \cup {row} /\ stored' = stored \cup {row.id}
        /\ chainMu' = chainMu \ {row} /\ UNCHANGED <<now, pending>>
    BY <1>6 DEF InsertRow, Store
  <2>2. WriterStep
    BY <1>1, <2>1 DEF WriterStep
  <2>3. Clocked'
    BY <1>1, <1>2, <2>1 DEF Clocked, Alive
  <2> QED BY <2>2, <2>3
<1>7. ASSUME NEW e \in pending \cup chainMu, GiveUp(e) PROVE WriterStep /\ Clocked'
  BY <1>1, <1>7 DEF GiveUp, WriterStep, Clocked, Alive
<1>8. ASSUME Tick PROVE WriterStep /\ Clocked'
  BY <1>1, <1>2, <1>8 DEF Tick, WriterStep, Clocked, Alive
<1>9. ASSUME UNCHANGED logVars PROVE WriterStep /\ Clocked'
  BY <1>1, <1>9 DEF logVars, WriterStep, Clocked, Alive
<1> QED BY <1>3, <1>4, <1>5, <1>6, <1>7, <1>8, <1>9 DEF Writes

-----------------------------------------------------------------------------
(* The steps of an archiver *)

ArchiverStep(r) == SweepStep(r) \/ SweepFails(r) \/ Restart(r) \/ PowerLoss(r) \/ Handover(r)

LEMMA StepSplits ==
  ASSUME [Next]_vars
  PROVE  (Writes /\ UNCHANGED archiveVars) \/ \E r \in Replicas : ArchiverStep(r)
<1>1. ASSUME NEW id \in Ids, (Stamp(id) /\ UNCHANGED archiveVars) \/ Insert(id) \/ InsertFails(id)
      PROVE  Writes /\ UNCHANGED archiveVars
  BY <1>1 DEF Insert, InsertFails, Writes
<1>2. CASE Tick /\ UNCHANGED archiveVars
  BY <1>2 DEF Writes
<1>3. CASE UNCHANGED vars
  BY <1>3 DEF vars, Writes
<1> QED BY <1>1, <1>2, <1>3 DEF Next, ArchiverStep

\* Rotate, with its choices named.
RotateWith(r, sync, put, uploaded, pruned) ==
    /\ UploadAndMaybePrune(r, openDate[r], sync, put, uploaded, pruned)
    /\ unsynced' = (unsynced \/ ~sync)

LEMMA RotateChoices ==
  ASSUME NEW r \in Replicas, Rotate(r)
  PROVE  \E sync, put, uploaded, pruned \in BOOLEAN :
            RotateWith(r, sync, put, uploaded, pruned)
  BY DEF Rotate, RotateWith

\* A step of r leaves the other replicas alone, and the history grows.
LEMMA OthersUntouched ==
  ASSUME ArchiveTyped, NEW r \in Replicas, ArchiverStep(r), NEW p \in Replicas, p # r
  PROVE  /\ sweep'[p] = sweep[p] /\ todo'[p] = todo[p] /\ cutoff'[p] = cutoff[p]
         /\ openDate'[p] = openDate[p] /\ file'[p] = file[p] /\ synced'[p] = synced[p]
<1> USE DEF ArchiveTyped, Files
<1>1. CASE Sweep(r) BY <1>1 DEF Sweep
<1>2. CASE Rotate(r)
  <2>1. PICK sync, put, uploaded, pruned \in BOOLEAN : RotateWith(r, sync, put, uploaded, pruned)
    BY <1>2, RotateChoices
  <2>2. file'[p] = file[p] /\ synced'[p] = synced[p]
    BY <2>1 DEF RotateWith, UploadAndMaybePrune
  <2> QED BY <1>2, <2>2 DEF Rotate
<1>3. CASE WriteRow(r)
  <2>1. PICK x \in todo[r] : /\ openDate' = [openDate EXCEPT ![r] = Day(x.at)]
                             /\ file' = [file EXCEPT ![r][Day(x.at)] = @ \cup {x.id}]
                             /\ todo' = [todo EXCEPT ![r] = @ \ {x}]
    BY <1>3 DEF WriteRow
  <2> QED BY <1>3, <2>1 DEF WriteRow
<1>4. CASE Fsync(r) BY <1>4 DEF Fsync
<1>5. CASE Prune(r) BY <1>5 DEF Prune, SweepEnds
<1>6. CASE SweepFails(r) BY <1>6 DEF SweepFails, SweepEnds
<1>7. CASE Restart(r) BY <1>7 DEF Restart, SweepEnds
<1>8. CASE PowerLoss(r) BY <1>8 DEF PowerLoss, SweepEnds
<1>9. CASE Handover(r) BY <1>9 DEF Handover
<1> QED BY <1>1, <1>2, <1>3, <1>4, <1>5, <1>6, <1>7, <1>8, <1>9 DEF ArchiverStep, SweepStep

LEMMA HistoryGrows ==
  ASSUME NEW r \in Replicas, ArchiverStep(r)
  PROVE  /\ sweepers \subseteq sweepers' /\ sweepers' \subseteq sweepers \cup {r}
         /\ deleteAfterUpload' = deleteAfterUpload
         /\ (redo => redo') /\ (unsynced => unsynced')
<1>1. CASE Rotate(r)
  <2>1. PICK sync, put, uploaded, pruned \in BOOLEAN : RotateWith(r, sync, put, uploaded, pruned)
    BY <1>1, RotateChoices
  <2> QED BY <1>1, <2>1 DEF Rotate, RotateWith
<1>2. CASE Sweep(r) \/ Fsync(r) \/ Prune(r) \/ Handover(r)
  BY <1>2 DEF Sweep, Fsync, Prune, Handover
<1>3. CASE WriteRow(r)
  BY <1>3 DEF WriteRow
<1>4. CASE SweepFails(r)
  BY <1>4 DEF SweepFails
<1>5. CASE Restart(r) \/ PowerLoss(r)
  <2>1. UNCHANGED <<sweepers, deleteAfterUpload, unsynced>>
    BY <1>5 DEF Restart, PowerLoss
  <2>2. redo => redo'
    BY <1>5 DEF Restart, PowerLoss
  <2> QED BY <2>1, <2>2
<1> QED BY <1>1, <1>2, <1>3, <1>4, <1>5 DEF ArchiverStep, SweepStep

\* Only the DELETE touches the table.
LEMMA LogUntouched ==
  ASSUME NEW r \in Replicas, ArchiverStep(r)
  PROVE  /\ UNCHANGED <<now, pending, chainMu, stored>>
         /\ table' = table \/ (Prune(r) /\ table' = {x \in table : x.at >= cutoff[r]})
<1>1. CASE Prune(r)
  BY <1>1 DEF Prune, DeleteOlderThan, DeleteCutoff
<1>2. CASE Sweep(r) \/ Rotate(r) \/ WriteRow(r) \/ Fsync(r) \/ SweepFails(r) \/ Restart(r)
             \/ PowerLoss(r) \/ Handover(r)
  BY <1>2 DEF Sweep, Rotate, WriteRow, Fsync, SweepFails, Restart, PowerLoss, Handover, logVars
<1> QED BY <1>1, <1>2 DEF ArchiverStep, SweepStep

LEMMA ArchiveTypedKept ==
  ASSUME BaseInv, NEW r \in Replicas, ArchiverStep(r)
  PROVE  ArchiveTyped'
<1>1. now - MaxAge \in Int
  BY AgeAssumption DEF BaseInv, ChainInv, LogTyped
<1> USE DEF ArchiveTyped
<1>2. IsFiniteSet(sweepers')
  <2>1. sweepers' = sweepers \/ sweepers' = sweepers \cup {r}
    BY HistoryGrows
  <2> QED BY <2>1, FS_AddElement DEF BaseInv
<1>3. CASE Sweep(r)
  BY <1>1, <1>2, <1>3 DEF Sweep, BaseInv
<1>4. CASE Rotate(r)
  <2>1. PICK sync, put, uploaded, pruned \in BOOLEAN : RotateWith(r, sync, put, uploaded, pruned)
    BY <1>4, RotateChoices
  <2>2. openDate[r] \in Days /\ openDate' = [openDate EXCEPT ![r] = None]
    BY <1>4 DEF Rotate, BaseInv
  <2>3. file' \in Files
    BY <2>1, <2>2 DEF RotateWith, UploadAndMaybePrune, BaseInv, Files
  <2>4. synced' \in Files
    BY <2>1, <2>2 DEF RotateWith, UploadAndMaybePrune, BaseInv, Files
  <2>5. object' \in [Days -> SUBSET Ids]
    BY <2>1, <2>2 DEF RotateWith, UploadAndMaybePrune, BaseInv, Files
  <2> QED BY <1>2, <1>4, <2>2, <2>3, <2>4, <2>5 DEF Rotate, BaseInv
<1>5. CASE WriteRow(r)
  <2>1. PICK x \in todo[r] : /\ openDate' = [openDate EXCEPT ![r] = Day(x.at)]
                             /\ file' = [file EXCEPT ![r][Day(x.at)] = @ \cup {x.id}]
                             /\ todo' = [todo EXCEPT ![r] = @ \ {x}]
    BY <1>5 DEF WriteRow
  <2>2. x.id \in Ids /\ Day(x.at) \in Days
    BY DEF BaseInv, SweepsSound, SweepSound
  <2>3. file' \in Files
    BY <2>1, <2>2 DEF BaseInv, Files
  <2> QED BY <1>2, <1>5, <2>1, <2>2, <2>3 DEF WriteRow, BaseInv
<1>6. CASE Fsync(r)
  <2>1. openDate[r] \in Days \cup {None} /\ synced \in Files /\ file \in Files
    BY DEF BaseInv
  <2>2. openDate[r] \in Days => synced' \in Files
    BY <1>6, <2>1 DEF Fsync, Files
  <2>3. openDate[r] \notin Days => synced' \in Files
    BY <1>6, <2>1 DEF Fsync, Files
  <2>4. synced' \in Files
    BY <2>2, <2>3
  <2> QED BY <1>2, <1>6, <2>4 DEF Fsync, BaseInv
<1>7. CASE Prune(r) \/ SweepFails(r) \/ Restart(r)
  BY <1>2, <1>7 DEF Prune, SweepFails, Restart, SweepEnds, BaseInv
<1>8. CASE PowerLoss(r)
  <2>1. file' \in Files
    BY <1>8 DEF PowerLoss, BaseInv, Files
  <2>2. /\ todo' = [todo EXCEPT ![r] = {}] /\ cutoff' = [cutoff EXCEPT ![r] = 0]
        /\ sweep' = [sweep EXCEPT ![r] = "idle"]
        /\ openDate' = [openDate EXCEPT ![r] = None]
        /\ UNCHANGED <<synced, object>>
    BY <1>8 DEF PowerLoss, SweepEnds
  <2>3. /\ openDate' \in [Replicas -> Days \cup {None}]
        /\ sweep' \in [Replicas -> {"idle", "copy", "delete"}]
    BY <2>2 DEF BaseInv
  <2>4. todo' = [p \in Replicas |-> todo'[p]] /\ cutoff' \in [Replicas -> Int]
    <3>1. todo = [p \in Replicas |-> todo[p]]
      BY DEF BaseInv
    <3>2. todo' = [p \in Replicas |-> todo'[p]]
      BY <2>2, <3>1
    <3>3. cutoff' \in [Replicas -> Int]
      BY <2>2 DEF BaseInv
    <3> QED BY <3>2, <3>3
  <2>5. synced' \in Files /\ object' \in [Days -> SUBSET Ids]
    BY <2>2 DEF BaseInv
  <2> QED BY <1>2, <2>1, <2>3, <2>4, <2>5
<1>9. CASE Handover(r)
  BY <1>2, <1>9 DEF Handover, BaseInv
<1> QED BY <1>3, <1>4, <1>5, <1>6, <1>7, <1>8, <1>9 DEF ArchiverStep, SweepStep

\* The row WriteRow takes, and what becomes of it.
LEMMA WrittenRow ==
  ASSUME NEW r \in Replicas, WriteRow(r)
  PROVE  \E x \in todo[r] :
            /\ Returns(x, r) /\ openDate[r] \in {None, Day(x.at)}
            /\ openDate' = [openDate EXCEPT ![r] = Day(x.at)]
            /\ file' = [file EXCEPT ![r][Day(x.at)] = @ \cup {x.id}]
            /\ todo' = [todo EXCEPT ![r] = @ \ {x}]
  BY DEF WriteRow

LEMMA SweepSoundKept ==
  ASSUME BaseInv, ArchiveTyped', NEW r \in Replicas, ArchiverStep(r)
  PROVE  SweepSound(r)'
<1>1. now \in Nat /\ MaxAge \in Nat /\ now' = now
  BY AgeAssumption, LogUntouched DEF BaseInv, ChainInv, LogTyped
<1>2. SweepSound(r) /\ ArchiveTyped
  BY DEF BaseInv, SweepsSound
<1>3. sweepers \subseteq sweepers'
  BY HistoryGrows
<1>4. CASE Sweep(r)
  <2>1. /\ todo'[r] = {x \in table : x.at < now - MaxAge} /\ todo'[r] # {}
        /\ cutoff'[r] = now - MaxAge /\ sweep'[r] = "copy" /\ sweep[r] = "idle"
        /\ UNCHANGED <<openDate, file, synced, sweepers>>
    BY <1>2, <1>4 DEF Sweep, ArchiveTyped
  <2>2. \A x \in todo'[r] : x.id \in Ids /\ x.at \in Nat /\ Day(x.at) \in Days
                             /\ x.at < cutoff'[r]
    BY <2>1, RowDays
  <2> QED BY <1>1, <1>2, <2>1, <2>2 DEF SweepSound
<1>5. CASE Rotate(r)
  <2>1. PICK sync, put, uploaded, pruned \in BOOLEAN : RotateWith(r, sync, put, uploaded, pruned)
    BY <1>5, RotateChoices
  <2>2. /\ openDate[r] \in Days /\ openDate' = [openDate EXCEPT ![r] = None]
        /\ UNCHANGED <<sweep, todo, cutoff, sweepers>>
    BY <1>2, <1>5 DEF Rotate, ArchiveTyped
  <2>3. \A d \in Days : synced'[r][d] \subseteq file'[r][d]
    BY <1>2, <2>1, <2>2 DEF RotateWith, UploadAndMaybePrune, SweepSound, ArchiveTyped, Files
  <2> QED BY <1>1, <1>2, <2>2, <2>3 DEF SweepSound, ArchiveTyped
<1>6. CASE WriteRow(r)
  <2>1. PICK x \in todo[r] : /\ file' = [file EXCEPT ![r][Day(x.at)] = @ \cup {x.id}]
                             /\ todo' = [todo EXCEPT ![r] = @ \ {x}]
    BY <1>6, WrittenRow
  <2>2. Day(x.at) \in Days
    BY <1>2 DEF SweepSound
  <2>3. UNCHANGED <<sweep, cutoff, synced>> /\ r \in sweepers' /\ sweep[r] = "copy"
    BY <1>6 DEF WriteRow
  <2>4. todo'[r] = todo[r] \ {x}
    BY <1>2, <2>1 DEF ArchiveTyped
  <2>5. \A d \in Days : file[r][d] \subseteq file'[r][d]
    BY <1>2, <2>1, <2>2 DEF ArchiveTyped, Files
  <2> QED BY <1>1, <1>2, <2>3, <2>4, <2>5 DEF SweepSound
<1>7. CASE Fsync(r)
  <2>1. sweep[r] = "copy" /\ todo[r] = {} /\ sweep'[r] = "delete"
        /\ UNCHANGED <<todo, cutoff, openDate, file, sweepers>>
    BY <1>2, <1>7 DEF Fsync, ArchiveTyped
  <2>2. r \in sweepers
    BY <1>2, <2>1 DEF SweepSound
  <2>3. \A d \in Days : synced'[r][d] \subseteq file'[r][d]
    BY <1>2, <1>7 DEF Fsync, SweepSound, ArchiveTyped, Files
  <2> QED BY <1>1, <1>2, <2>1, <2>2, <2>3 DEF SweepSound
<1>8. CASE Prune(r) \/ SweepFails(r)
  <2>1. sweep'[r] = "idle" /\ todo'[r] = {}
    BY <1>2, <1>8 DEF Prune, SweepFails, SweepEnds, ArchiveTyped
  <2>2. UNCHANGED <<openDate, file, synced, sweepers>>
    BY <1>8 DEF Prune, SweepFails
  <2> QED BY <1>2, <2>1, <2>2 DEF SweepSound
<1>9. CASE Restart(r) \/ PowerLoss(r)
  <2>1. sweep'[r] = "idle" /\ todo'[r] = {} /\ openDate'[r] = None
    BY <1>2, <1>9 DEF Restart, PowerLoss, SweepEnds, ArchiveTyped
  <2>2. UNCHANGED synced /\ (file'[r] = file[r] \/ file'[r] = synced[r])
    BY <1>2, <1>9 DEF Restart, PowerLoss, ArchiveTyped, Files
  <2> QED BY <1>2, <2>1, <2>2 DEF SweepSound
<1>10. CASE Handover(r)
  <2>1. UNCHANGED <<sweep, todo, cutoff, openDate, file, synced, sweepers>>
    BY <1>10 DEF Handover
  <2> QED BY <1>1, <1>2, <2>1 DEF SweepSound
<1> QED BY <1>4, <1>5, <1>6, <1>7, <1>8, <1>9, <1>10 DEF ArchiverStep, SweepStep

LEMMA BaseStep ==
  ASSUME BaseInv, ChainInv', [Next]_vars
  PROVE  BaseInv'
<1>1. now \in Nat /\ MaxAge \in Nat /\ LogTyped
  BY AgeAssumption DEF BaseInv, ChainInv, LogTyped
<1>2. CASE Writes /\ UNCHANGED archiveVars
  <2>1. Clocked' /\ now' \in {now, now + 1}
    BY <1>1, <1>2, WritesAreWriterSteps DEF BaseInv, WriterStep
  <2>2. UNCHANGED <<sweep, todo, cutoff, openDate, file, synced, object, sweepers>>
    BY <1>2 DEF archiveVars
  <2>3. ArchiveTyped'
    BY <2>2 DEF BaseInv, ArchiveTyped
  <2>4. ASSUME NEW r \in Replicas PROVE SweepSound(r)'
    <3>1. SweepSound(r) /\ cutoff[r] \in Int
      BY DEF BaseInv, SweepsSound, ArchiveTyped
    <3> QED BY <1>1, <2>1, <2>2, <3>1 DEF SweepSound
  <2> QED BY <2>1, <2>3, <2>4 DEF BaseInv, SweepsSound
<1>3. ASSUME NEW r \in Replicas, ArchiverStep(r) PROVE BaseInv'
  <2>1. ArchiveTyped'
    BY <1>3, ArchiveTypedKept
  <2>2. SweepSound(r)'
    BY <1>3, <2>1, SweepSoundKept
  <2>3. ASSUME NEW p \in Replicas, p # r PROVE SweepSound(p)'
    <3>1. /\ sweep'[p] = sweep[p] /\ todo'[p] = todo[p] /\ cutoff'[p] = cutoff[p]
          /\ openDate'[p] = openDate[p] /\ file'[p] = file[p] /\ synced'[p] = synced[p]
      BY <1>3, <2>3, OthersUntouched DEF BaseInv
    <3>2. now' = now /\ sweepers \subseteq sweepers'
      BY <1>3, LogUntouched, HistoryGrows
    <3> QED BY <3>1, <3>2 DEF BaseInv, SweepsSound, SweepSound
  <2>4. Clocked'
    <3>1. UNCHANGED <<now, pending, chainMu>> /\ table' \subseteq table
      BY <1>3, LogUntouched
    <3> QED BY <3>1 DEF BaseInv, Clocked, Alive
  <2> QED BY <2>1, <2>2, <2>3, <2>4 DEF BaseInv, SweepsSound
<1> QED BY <1>2, <1>3, StepSplits

LEMMA BaseInitial == Init => BaseInv
<1> SUFFICES ASSUME Init PROVE BaseInv
  OBVIOUS
<1>1. ChainInv
  BY ChainInit
<1>2. ArchiveTyped
  BY FS_EmptySet DEF Init, ArchiveInit, ArchiveTyped, Files
<1>3. Clocked
  <2>1. \A id \in Legacy : LegacyRow(id).at = 0
    BY DEF LegacyRow
  <2> QED BY <2>1, TimeAssumption DEF Init, LogInit, Clocked
<1>4. SweepsSound
  BY DEF Init, ArchiveInit, SweepsSound, SweepSound
<1> QED BY <1>1, <1>2, <1>3, <1>4 DEF BaseInv

-----------------------------------------------------------------------------
(* The order of days *)

\* A row of the table that q's sweep has copied, or found copied.
Swept(q, x) == sweep[q] # "idle" /\ x.at < cutoff[q] /\ x \notin todo[q]

\* Whatever q's sweeps have still to copy is of day d or later.
Ahead(q, d) ==
    /\ Day(now) >= d
    /\ \A e \in pending \cup chainMu : Day(e.at) >= d
    /\ \A x \in table : Day(x.at) >= d \/ Swept(q, x)

\* The open file is the last day's so far; an uploaded day is over.
Frontier(q) ==
    /\ todo[q] \subseteq table
    /\ openDate[q] # None => Ahead(q, openDate[q])
    /\ \A d \in Days : object[d] # {} => /\ Ahead(q, d + 1)
                                         /\ openDate[q] = None \/ openDate[q] > d

LEMMA DaysAreNumbers == Days \subseteq Nat
  BY DEF Days

\* The cursor returns rows by time, and younger ones are not old enough.
LEMMA NextIsAhead ==
  ASSUME BaseInv, NEW r \in Replicas, sweep[r] = "copy", NEW x \in todo[r], Returns(x, r)
  PROVE  Ahead(r, Day(x.at))
<1>1. /\ x.at \in Nat /\ x.at < cutoff[r] /\ cutoff[r] \in Int
      /\ cutoff[r] <= now - MaxAge /\ now \in Nat /\ MaxAge \in Nat
      /\ InsertTimeout \in Nat /\ MaxAge > InsertTimeout
  BY AgeAssumption, TimeAssumption
     DEF BaseInv, SweepsSound, SweepSound, ArchiveTyped, ChainInv, LogTyped
<1>2. Day(now) >= Day(x.at)
  BY <1>1, DayMonotone
<1>3. ASSUME NEW e \in pending \cup chainMu PROVE Day(e.at) >= Day(x.at)
  <2>1. e.at \in Nat /\ now - e.at <= InsertTimeout
    BY RowDays DEF BaseInv, Clocked, Alive
  <2> QED BY <1>1, <2>1, DayMonotone
<1>4. ASSUME NEW y \in table, ~Swept(r, y) PROVE Day(y.at) >= Day(x.at)
  <2>1. y.at \in Nat
    BY RowDays
  <2>2. y.at >= x.at
    BY <1>1, <1>4, <2>1 DEF Swept, Returns
  <2> QED BY <1>1, <2>1, <2>2, DayMonotone
<1> QED BY <1>2, <1>3, <1>4 DEF Ahead

LEMMA AheadOfEarlier ==
  ASSUME BaseInv, NEW q \in Replicas, NEW d \in Nat, NEW c \in Nat, c <= d, Ahead(q, d)
  PROVE  Ahead(q, c)
<1>1. Day(now) \in Nat
  BY DayMonotone DEF BaseInv, ChainInv, LogTyped
<1>2. \A x \in table \cup pending \cup chainMu : Day(x.at) \in Nat
  BY RowDays, DaysAreNumbers
<1> QED BY <1>1, <1>2 DEF Ahead

\* The writers add nothing to days that are over.
LEMMA WritersStayAhead ==
  ASSUME BaseInv, Writes, NEW q \in Replicas, NEW d \in Nat, Ahead(q, d),
         UNCHANGED <<sweep, cutoff, todo>>
  PROVE  Ahead(q, d)'
<1>1. WriterStep
  BY WritesAreWriterSteps DEF BaseInv, ChainInv
<1>2. now \in Nat /\ Day(now) \in Nat /\ Day(now') \in Nat /\ Day(now') >= Day(now)
  BY <1>1, DayMonotone DEF BaseInv, ChainInv, LogTyped, WriterStep
<1>3. Day(now') >= d
  BY <1>2 DEF Ahead
<1>4. ASSUME NEW e \in (pending \cup chainMu)' PROVE Day(e.at) >= d
  BY <1>1 DEF WriterStep, Ahead
<1>5. ASSUME NEW x \in table' PROVE Day(x.at) >= d \/ Swept(q, x)'
  BY <1>1 DEF WriterStep, Ahead, Swept
<1> QED BY <1>3, <1>4, <1>5 DEF Ahead

LEMMA FrontierKeptByWriters ==
  ASSUME BaseInv, Writes, UNCHANGED archiveVars, NEW q \in Replicas, Frontier(q)
  PROVE  Frontier(q)'
<1>1. UNCHANGED <<sweep, cutoff, todo, openDate, object>>
  BY DEF archiveVars
<1>2. table \subseteq table'
  BY WritesAreWriterSteps DEF BaseInv, ChainInv, WriterStep
<1>3. openDate'[q] # None => Ahead(q, openDate[q])'
  <2>1. openDate[q] # None => openDate[q] \in Nat
    BY DaysAreNumbers DEF BaseInv, ArchiveTyped
  <2> QED BY <1>1, <2>1, WritersStayAhead DEF Frontier
<1>4. ASSUME NEW d \in Days, object'[d] # {}
      PROVE  Ahead(q, d + 1)' /\ (openDate'[q] = None \/ openDate'[q] > d)
  <2>1. d + 1 \in Nat
    BY DaysAreNumbers
  <2> QED BY <1>1, <1>4, <2>1, WritersStayAhead DEF Frontier
<1> QED BY <1>1, <1>2, <1>3, <1>4 DEF Frontier

\* The sweeps of q, as long as none is cut short.
LEMMA FrontierKeptByOwner ==
  ASSUME BaseInv, NEW q \in Replicas, ArchiverStep(q), Frontier(q), ~redo'
  PROVE  Frontier(q)'
<1>1. ArchiveTyped /\ Days \subseteq Nat
  BY DaysAreNumbers DEF BaseInv
<1>2. UNCHANGED <<now, pending, chainMu>>
  BY LogUntouched
<1>3. ASSUME UNCHANGED <<object, table>>, todo'[q] \subseteq table,
             openDate'[q] \in {None, openDate[q]},
             \A x \in table : Swept(q, x) => Swept(q, x)'
      PROVE  Frontier(q)'
  <2>1. \A d : Ahead(q, d) => Ahead(q, d)'
    BY <1>2, <1>3 DEF Ahead
  <2>2. openDate'[q] # None => Ahead(q, openDate[q])'
    BY <1>3, <2>1 DEF Frontier
  <2>3. ASSUME NEW d \in Days, object'[d] # {}
        PROVE  Ahead(q, d + 1)' /\ (openDate'[q] = None \/ openDate'[q] > d)
    BY <1>3, <2>1, <2>3 DEF Frontier
  <2> QED BY <1>3, <2>2, <2>3 DEF Frontier
<1>4. CASE Sweep(q)
  <2>1. todo'[q] \subseteq table /\ UNCHANGED <<object, table, openDate>> /\ sweep[q] = "idle"
    BY <1>1, <1>4 DEF Sweep, ArchiveTyped, logVars
  <2>2. \A x \in table : ~Swept(q, x)
    BY <2>1 DEF Swept
  <2> QED BY <1>3, <2>1, <2>2
<1>5. CASE Rotate(q)
  <2>1. PICK sync, put, uploaded, pruned \in BOOLEAN : RotateWith(q, sync, put, uploaded, pruned)
    BY <1>5, RotateChoices
  <2>2. /\ sweep[q] = "copy" /\ openDate[q] \in Days /\ openDate'[q] = None
        /\ UNCHANGED <<table, sweep, todo, cutoff>>
    BY <1>1, <1>5 DEF Rotate, ArchiveTyped, logVars
  <2>3. PICK x \in todo[q] : Returns(x, q) /\ openDate[q] # Day(x.at)
    BY <1>5 DEF Rotate
  <2>4. Day(x.at) \in Nat /\ x \in table /\ ~Swept(q, x)
    BY <1>1 DEF BaseInv, SweepsSound, SweepSound, Frontier, Swept
  <2>5. Day(x.at) >= openDate[q] + 1
    <3>1. Ahead(q, openDate[q]) /\ openDate[q] \in Nat
      BY <1>1, <2>2, NoneAssumption DEF Frontier
    <3> QED BY <2>3, <2>4, <3>1 DEF Ahead
  <2>6. Ahead(q, openDate[q] + 1)
    <3>1. Ahead(q, Day(x.at))
      BY <2>2, <2>3, NextIsAhead
    <3>2. openDate[q] \in Nat
      BY <1>1, <2>2
    <3>3. openDate[q] + 1 \in Nat
      BY <3>2
    <3> QED BY <2>4, <2>5, <3>1, <3>3, AheadOfEarlier
  <2>7. \A d \in Days \ {openDate[q]} : object'[d] = object[d]
    BY <1>1, <2>1 DEF RotateWith, UploadAndMaybePrune, ArchiveTyped
  <2>8. \A d : Ahead(q, d) => Ahead(q, d)'
    BY <1>2, <2>2 DEF Ahead, Swept
  <2>9. ASSUME NEW d \in Days, object'[d] # {} PROVE Ahead(q, d + 1)'
    BY <2>6, <2>7, <2>8, <2>9 DEF Frontier
  <2> QED BY <2>2, <2>9 DEF Frontier
<1>6. CASE WriteRow(q)
  <2>1. PICK x \in todo[q] : /\ Returns(x, q)
                             /\ openDate' = [openDate EXCEPT ![q] = Day(x.at)]
                             /\ todo' = [todo EXCEPT ![q] = @ \ {x}]
    BY <1>6, WrittenRow
  <2>2. /\ sweep[q] = "copy" /\ UNCHANGED <<table, sweep, cutoff, object>>
        /\ todo'[q] = todo[q] \ {x} /\ openDate'[q] = Day(x.at)
    BY <1>1, <1>6, <2>1 DEF WriteRow, ArchiveTyped, logVars
  <2>3. \A d : Ahead(q, d) => Ahead(q, d)'
    BY <1>2, <2>2 DEF Ahead, Swept
  <2>4. Ahead(q, Day(x.at))
    BY <2>1, <2>2, NextIsAhead
  <2>5. ASSUME NEW d \in Days, object[d] # {} PROVE Day(x.at) > d
    <3>1. Day(x.at) \in Nat /\ d \in Nat /\ x \in table /\ ~Swept(q, x)
      BY <1>1 DEF BaseInv, SweepsSound, SweepSound, Frontier, Swept
    <3>2. Day(x.at) >= d + 1
      BY <2>5, <3>1 DEF Frontier, Ahead
    <3> QED BY <3>1, <3>2
  <2>6. ASSUME NEW d \in Days, object'[d] # {} PROVE Ahead(q, d + 1)'
    BY <2>2, <2>3, <2>6 DEF Frontier
  <2>7. todo'[q] \subseteq table'
    BY <2>2 DEF Frontier
  <2> QED BY <2>2, <2>3, <2>4, <2>5, <2>6, <2>7 DEF Frontier
<1>7. CASE Fsync(q)
  <2>1. /\ sweep[q] = "copy" /\ sweep'[q] = "delete"
        /\ UNCHANGED <<table, todo, cutoff, object, openDate>>
    BY <1>1, <1>7 DEF Fsync, ArchiveTyped, logVars
  <2>2. todo'[q] \subseteq table /\ \A x \in table : Swept(q, x) => Swept(q, x)'
    BY <2>1 DEF Swept, Frontier
  <2> QED BY <1>3, <2>1, <2>2
<1>8. CASE Prune(q)
  <2>1. /\ sweep[q] = "delete" /\ table' = {x \in table : x.at >= cutoff[q]}
        /\ todo'[q] = {} /\ UNCHANGED <<object, openDate>>
    BY <1>1, <1>8 DEF Prune, DeleteOlderThan, DeleteCutoff, SweepEnds, ArchiveTyped
  <2>2. \A x \in table' : ~Swept(q, x)
    <3>1. \A x \in table : x.at \in Nat /\ cutoff[q] \in Int
      BY <1>1, RowDays DEF ArchiveTyped
    <3> QED BY <2>1, <3>1 DEF Swept
  <2>3. \A d : Ahead(q, d) => Ahead(q, d)'
    BY <1>2, <2>1, <2>2 DEF Ahead
  <2>4. ASSUME NEW d \in Days, object'[d] # {}
        PROVE  Ahead(q, d + 1)' /\ (openDate'[q] = None \/ openDate'[q] > d)
    BY <2>1, <2>3, <2>4 DEF Frontier
  <2>5. openDate'[q] # None => Ahead(q, openDate[q])'
    BY <2>1, <2>3 DEF Frontier
  <2> QED BY <2>1, <2>4, <2>5 DEF Frontier
<1>9. CASE SweepFails(q)
  BY <1>9 DEF SweepFails
<1>10. CASE Restart(q) \/ PowerLoss(q)
  <2>1. sweep[q] = "idle"
    BY <1>10 DEF Restart, PowerLoss
  <2>2. todo'[q] = {} /\ openDate'[q] = None /\ UNCHANGED <<object, table>>
    BY <1>1, <1>10 DEF Restart, PowerLoss, SweepEnds, ArchiveTyped, logVars
  <2>3. \A x \in table : ~Swept(q, x)
    BY <2>1 DEF Swept
  <2> QED BY <1>3, <2>2, <2>3
<1>11. CASE Handover(q)
  <2>1. UNCHANGED <<sweep, todo, cutoff, openDate, object, table>>
    BY <1>11 DEF Handover, logVars
  <2>2. todo'[q] \subseteq table /\ \A x \in table : Swept(q, x) => Swept(q, x)'
    BY <2>1 DEF Swept, Frontier
  <2> QED BY <1>3, <2>1, <2>2
<1> QED BY <1>4, <1>5, <1>6, <1>7, <1>8, <1>9, <1>10, <1>11 DEF ArchiverStep, SweepStep

\* A replica whose sweeps have written nothing has nothing to upload or delete.
LEMMA IdleReplica ==
  ASSUME BaseInv, NEW p \in Replicas, ArchiverStep(p), p \notin sweepers'
  PROVE  ~Rotate(p) /\ UNCHANGED <<object, table>>
<1>1. SweepSound(p) /\ p \notin sweepers
  BY HistoryGrows DEF BaseInv, SweepsSound
<1>2. ~Rotate(p) /\ ~WriteRow(p) /\ ~Fsync(p) /\ ~Prune(p)
  BY <1>1 DEF SweepSound, Rotate, WriteRow, Fsync, Prune
<1>3. CASE Sweep(p) BY <1>2, <1>3 DEF Sweep, logVars
<1>4. CASE SweepFails(p) BY <1>2, <1>4 DEF SweepFails, logVars
<1>5. CASE Restart(p) BY <1>2, <1>5 DEF Restart, logVars
<1>6. CASE PowerLoss(p) BY <1>2, <1>6 DEF PowerLoss, logVars
<1>7. CASE Handover(p) BY <1>2, <1>7 DEF Handover, logVars
<1> QED BY <1>2, <1>3, <1>4, <1>5, <1>6, <1>7 DEF ArchiverStep, SweepStep

LEMMA FrontierKeptByOthers ==
  ASSUME BaseInv, NEW q \in Replicas, NEW p \in Replicas, p # q, ArchiverStep(p),
         Frontier(q), p \notin sweepers'
  PROVE  Frontier(q)'
<1>1. UNCHANGED <<object, table, now, pending, chainMu>>
  BY IdleReplica, LogUntouched
<1>2. /\ sweep'[q] = sweep[q] /\ todo'[q] = todo[q] /\ cutoff'[q] = cutoff[q]
      /\ openDate'[q] = openDate[q]
  BY OthersUntouched DEF BaseInv
<1>3. \A d : Ahead(q, d) => Ahead(q, d)'
  BY <1>1, <1>2 DEF Ahead, Swept
<1>4. openDate'[q] # None => Ahead(q, openDate[q])'
  BY <1>2, <1>3 DEF Frontier
<1>5. ASSUME NEW d \in Days, object'[d] # {}
      PROVE  Ahead(q, d + 1)' /\ (openDate'[q] = None \/ openDate'[q] > d)
  BY <1>1, <1>2, <1>3, <1>5 DEF Frontier
<1> QED BY <1>1, <1>2, <1>4, <1>5 DEF Frontier

-----------------------------------------------------------------------------
(* What is safe *)

Only(q) == \A p \in sweepers : p = q
One == \A p, q \in sweepers : p = q

\* id is where no failure of q's machine can take it away.
OnDisk(q, id, d) == id \in synced[q][d] \/ (deleteAfterUpload /\ id \in object[d])

\* What q's sweep is about to delete is on disk, or in the file it will fsync.
Copied(q) ==
    \A x \in table : Swept(q, x) =>
        \/ OnDisk(q, x.id, Day(x.at))
        \/ /\ sweep[q] = "copy" /\ openDate[q] = Day(x.at)
           /\ x.id \in file[q][Day(x.at)]

Kept == \A id \in stored : \/ \E x \in table : x.id = id
                           \/ \E q \in Replicas, d \in Days : OnDisk(q, id, d)

RowInv ==
    /\ BaseInv
    /\ \A q \in Replicas : deleteAfterUpload /\ ~redo /\ Only(q) => Frontier(q)
    /\ ~unsynced => \A q \in Replicas : (deleteAfterUpload => ~redo /\ Only(q)) => Copied(q)
    /\ ~unsynced => ((deleteAfterUpload => ~redo /\ One) => Kept)

LEMMA RotatorSweeps ==
  ASSUME BaseInv, NEW r \in Replicas, Rotate(r)
  PROVE  r \in sweepers
  BY DEF BaseInv, SweepsSound, SweepSound, Rotate

\* A rotation whose fsync succeeds: the file of the day is on disk, or it was
\* uploaded before it was removed, over nothing.
LEMMA RotationKeeps ==
  ASSUME BaseInv, NEW r \in Replicas, Rotate(r), ~unsynced',
         deleteAfterUpload => Frontier(r)
  PROVE  /\ openDate[r] \in Days
         /\ deleteAfterUpload' = deleteAfterUpload
         /\ \A d \in Days : openDate[r] = d => \A id \in file[r][d] : OnDisk(r, id, d)'
         /\ \A q \in Replicas, d \in Days : \A id : OnDisk(q, id, d) => OnDisk(q, id, d)'
<1>1. ArchiveTyped /\ Days \subseteq Nat /\ SweepSound(r)
  BY DaysAreNumbers DEF BaseInv, SweepsSound
<1>2. openDate[r] \in Days /\ deleteAfterUpload' = deleteAfterUpload
  BY <1>1 DEF Rotate, ArchiveTyped
<1> DEFINE o == openDate[r]
<1>3. PICK sync, put, uploaded, pruned \in BOOLEAN : RotateWith(r, sync, put, uploaded, pruned)
  BY RotateChoices
<1>4. sync
  BY <1>3 DEF RotateWith
<1>5. CASE pruned
  <2>1. /\ deleteAfterUpload /\ object' = [object EXCEPT ![o] = file[r][o]]
        /\ synced' = [synced EXCEPT ![r][o] = {}]
    BY <1>3, <1>5 DEF RotateWith, UploadAndMaybePrune
  <2>2. object'[o] = file[r][o] /\ \A d \in Days \ {o} : object'[d] = object[d]
    BY <1>1, <1>2, <2>1 DEF ArchiveTyped
  <2>3. \A q \in Replicas, d \in Days : q # r \/ d # o => synced'[q][d] = synced[q][d]
    BY <1>1, <1>2, <2>1 DEF ArchiveTyped, Files
  <2>4. synced[r][o] \subseteq file[r][o]
    BY <1>1, <1>2 DEF SweepSound
  <2>5. object[o] = {}
    BY <1>1, <1>2, <2>1, NoneAssumption DEF Frontier
  <2>6. ASSUME NEW q \in Replicas, NEW d \in Days, NEW id, OnDisk(q, id, d)
        PROVE  OnDisk(q, id, d)'
    BY <1>2, <2>1, <2>2, <2>3, <2>4, <2>5, <2>6 DEF OnDisk
  <2>7. ASSUME NEW d \in Days, o = d, NEW id \in file[r][d] PROVE OnDisk(r, id, d)'
    BY <2>7, <1>2, <2>1, <2>2 DEF OnDisk
  <2> QED BY <1>2, <2>6, <2>7
<1>6. CASE ~pruned
  <2>1. synced' = [synced EXCEPT ![r][o] = file[r][o]]
    BY <1>3, <1>4, <1>6 DEF RotateWith, UploadAndMaybePrune
  <2>2. \A d \in Days \ {o} : object'[d] = object[d]
    BY <1>1, <1>2, <1>3 DEF RotateWith, UploadAndMaybePrune, ArchiveTyped
  <2>3. \A q \in Replicas, d \in Days : q # r \/ d # o => synced'[q][d] = synced[q][d]
    BY <1>1, <1>2, <2>1 DEF ArchiveTyped, Files
  <2>4. synced[r][o] \subseteq file[r][o] /\ synced'[r][o] = file[r][o]
    BY <1>1, <1>2, <2>1 DEF SweepSound, ArchiveTyped, Files
  <2>5. deleteAfterUpload => object[o] = {}
    <3>1. o \in Nat
      BY <1>1, <1>2
    <3>2. o # None
      BY <1>2, NoneAssumption
    <3> QED BY <1>2, <3>1, <3>2 DEF Frontier
  <2>6. ASSUME NEW q \in Replicas, NEW d \in Days, NEW id, OnDisk(q, id, d)
        PROVE  OnDisk(q, id, d)'
    BY <1>2, <2>2, <2>3, <2>4, <2>5, <2>6 DEF OnDisk
  <2>7. ASSUME NEW d \in Days, o = d, NEW id \in file[r][d] PROVE OnDisk(r, id, d)'
    BY <2>7, <1>2, <2>4 DEF OnDisk
  <2> QED BY <1>2, <2>6, <2>7
<1> QED BY <1>5, <1>6

LEMMA DiskKept ==
  ASSUME BaseInv, NEW r \in Replicas, ArchiverStep(r), ~unsynced',
         Rotate(r) /\ deleteAfterUpload => Frontier(r)
  PROVE  \A q \in Replicas, d \in Days : \A id : OnDisk(q, id, d) => OnDisk(q, id, d)'
<1>1. CASE Rotate(r)
  BY <1>1, RotationKeeps
<1>2. CASE Fsync(r)
  <2>1. UNCHANGED <<object, deleteAfterUpload>>
    BY <1>2 DEF Fsync
  <2>2. \A q \in Replicas, d \in Days : synced[q][d] \subseteq synced'[q][d]
    <3>1. ArchiveTyped /\ SweepSound(r)
      BY DEF BaseInv, SweepsSound
    <3> QED BY <1>2, <3>1 DEF Fsync, SweepSound, ArchiveTyped, Files
  <2> QED BY <2>1, <2>2 DEF OnDisk
<1>3. CASE ~Rotate(r) /\ ~Fsync(r)
  <2>1. UNCHANGED <<synced, object, deleteAfterUpload>>
    BY <1>3 DEF ArchiverStep, SweepStep, Sweep, WriteRow, Prune, SweepFails, Restart, PowerLoss, Handover
  <2> QED BY <2>1 DEF OnDisk
<1> QED BY <1>1, <1>2, <1>3

\* Rows the writers bring are too young for any sweep in progress.
LEMMA NewRowsAreYoung ==
  ASSUME BaseInv, Writes, NEW q \in Replicas, sweep[q] # "idle", NEW x \in table' \ table
  PROVE  ~(x.at < cutoff[q])
<1>1. PICK y \in pending \cup chainMu : y.at = x.at
  BY WritesAreWriterSteps DEF BaseInv, ChainInv, WriterStep
<1>2. y.at \in Nat /\ now - y.at <= InsertTimeout
  BY RowDays DEF BaseInv, Clocked, Alive
<1>3. /\ cutoff[q] \in Int /\ cutoff[q] <= now - MaxAge /\ now \in Nat /\ MaxAge \in Nat
      /\ InsertTimeout \in Nat /\ MaxAge > InsertTimeout
  BY AgeAssumption, TimeAssumption
     DEF BaseInv, SweepsSound, SweepSound, ArchiveTyped, ChainInv, LogTyped
<1> QED BY <1>1, <1>2, <1>3

LEMMA CopiedKeptByWriters ==
  ASSUME BaseInv, Writes, UNCHANGED archiveVars, NEW q \in Replicas, Copied(q)
  PROVE  Copied(q)'
<1>1. UNCHANGED <<sweep, cutoff, todo, openDate, file, synced, object, deleteAfterUpload>>
  BY DEF archiveVars
<1> SUFFICES ASSUME NEW x \in table', Swept(q, x)'
             PROVE  \/ OnDisk(q, x.id, Day(x.at))
                    \/ /\ sweep[q] = "copy" /\ openDate[q] = Day(x.at)
                       /\ x.id \in file[q][Day(x.at)]
  BY <1>1 DEF Copied, OnDisk
<1>2. Swept(q, x)
  BY <1>1 DEF Swept
<1>3. x \in table
  BY <1>2, NewRowsAreYoung DEF Swept
<1> QED BY <1>2, <1>3 DEF Copied

LEMMA CopiedKeptByOthers ==
  ASSUME BaseInv, NEW q \in Replicas, NEW p \in Replicas, p # q, ArchiverStep(p), ~unsynced',
         deleteAfterUpload => p \notin sweepers', Copied(q)
  PROVE  Copied(q)'
<1>1. /\ sweep'[q] = sweep[q] /\ todo'[q] = todo[q] /\ cutoff'[q] = cutoff[q]
      /\ openDate'[q] = openDate[q] /\ file'[q] = file[q]
  BY OthersUntouched DEF BaseInv
<1>2. \A d \in Days : \A id : OnDisk(q, id, d) => OnDisk(q, id, d)'
  <2>1. Rotate(p) /\ deleteAfterUpload => Frontier(p)
    BY IdleReplica
  <2> QED BY <2>1, DiskKept
<1>3. table' \subseteq table
  BY LogUntouched
<1> SUFFICES ASSUME NEW x \in table', Swept(q, x)'
             PROVE  \/ OnDisk(q, x.id, Day(x.at))'
                    \/ /\ sweep'[q] = "copy" /\ openDate'[q] = Day(x.at)
                       /\ x.id \in file'[q][Day(x.at)]
  BY DEF Copied
<1>4. x \in table /\ Swept(q, x) /\ Day(x.at) \in Days
  BY <1>1, <1>3, RowDays DEF Swept
<1> QED BY <1>1, <1>2, <1>4 DEF Copied

LEMMA CopiedKeptByOwner ==
  ASSUME BaseInv, NEW q \in Replicas, ArchiverStep(q), ~unsynced',
         deleteAfterUpload => Frontier(q), Copied(q)
  PROVE  Copied(q)'
<1>1. ArchiveTyped /\ table' \subseteq table
  BY LogUntouched DEF BaseInv
<1>2. \A d \in Days : \A id : OnDisk(q, id, d) => OnDisk(q, id, d)'
  BY DiskKept
<1> SUFFICES ASSUME NEW x \in table', Swept(q, x)'
             PROVE  \/ OnDisk(q, x.id, Day(x.at))'
                    \/ /\ sweep'[q] = "copy" /\ openDate'[q] = Day(x.at)
                       /\ x.id \in file'[q][Day(x.at)]
  BY DEF Copied
<1>3. x \in table /\ Day(x.at) \in Days
  BY <1>1, RowDays
<1>4. CASE Sweep(q)
  <2>1. todo'[q] = {y \in table : y.at < now - MaxAge} /\ cutoff'[q] = now - MaxAge
    BY <1>1, <1>4 DEF Sweep, ArchiveTyped
  <2> QED BY <1>3, <2>1 DEF Swept
<1>5. CASE Rotate(q)
  <2>1. UNCHANGED <<sweep, todo, cutoff>>
    BY <1>5 DEF Rotate
  <2>2. Swept(q, x)
    BY <2>1 DEF Swept
  <2>3. \A d \in Days : openDate[q] = d => \A id \in file[q][d] : OnDisk(q, id, d)'
    BY <1>5, RotationKeeps
  <2> QED BY <1>2, <1>3, <2>2, <2>3 DEF Copied
<1>6. CASE WriteRow(q)
  <2>1. PICK y \in todo[q] : /\ openDate[q] \in {None, Day(y.at)}
                             /\ openDate' = [openDate EXCEPT ![q] = Day(y.at)]
                             /\ file' = [file EXCEPT ![q][Day(y.at)] = @ \cup {y.id}]
                             /\ todo' = [todo EXCEPT ![q] = @ \ {y}]
    BY <1>6, WrittenRow
  <2>2. Day(y.at) \in Days
    BY DEF BaseInv, SweepsSound, SweepSound
  <2>3. /\ sweep'[q] = "copy" /\ sweep[q] = "copy" /\ UNCHANGED cutoff
        /\ openDate'[q] = Day(y.at) /\ todo'[q] = todo[q] \ {y}
    BY <1>1, <1>6, <2>1 DEF WriteRow, ArchiveTyped
  <2>4. y.id \in file'[q][Day(y.at)] /\ file[q][Day(x.at)] \subseteq file'[q][Day(x.at)]
    BY <1>1, <1>3, <2>1, <2>2 DEF ArchiveTyped, Files
  <2>5. CASE x = y
    BY <2>3, <2>4, <2>5
  <2>6. CASE x # y
    <3>1. Swept(q, x)
      BY <2>3, <2>6 DEF Swept
    <3>2. openDate[q] = Day(x.at) => openDate'[q] = Day(x.at)
      BY <1>3, <2>1, <2>3, NoneAssumption
    <3> QED BY <1>2, <1>3, <2>3, <2>4, <3>1, <3>2 DEF Copied
  <2> QED BY <2>5, <2>6
<1>7. CASE Fsync(q)
  <2>1. sweep[q] = "copy" /\ UNCHANGED <<todo, cutoff>>
    BY <1>7 DEF Fsync
  <2>2. Swept(q, x)
    BY <2>1 DEF Swept
  <2>3. ASSUME openDate[q] = Day(x.at), x.id \in file[q][Day(x.at)]
        PROVE  OnDisk(q, x.id, Day(x.at))'
    <3>1. synced' = [synced EXCEPT ![q][Day(x.at)] = file[q][Day(x.at)]]
      BY <1>7, <2>3 DEF Fsync
    <3>2. synced'[q][Day(x.at)] = file[q][Day(x.at)]
      BY <1>1, <1>3, <3>1 DEF ArchiveTyped, Files
    <3> QED BY <2>3, <3>2 DEF OnDisk
  <2> QED BY <1>2, <1>3, <2>2, <2>3 DEF Copied
<1>8. CASE Prune(q) \/ SweepFails(q) \/ Restart(q) \/ PowerLoss(q)
  <2>1. sweep'[q] = "idle"
    BY <1>1, <1>8 DEF Prune, SweepFails, Restart, PowerLoss, SweepEnds, ArchiveTyped
  <2> QED BY <2>1 DEF Swept
<1>9. CASE Handover(q)
  <2>1. UNCHANGED <<sweep, todo, cutoff, openDate, file>>
    BY <1>9 DEF Handover
  <2>2. Swept(q, x)
    BY <2>1 DEF Swept
  <2> QED BY <1>2, <1>3, <2>1, <2>2 DEF Copied
<1> QED BY <1>4, <1>5, <1>6, <1>7, <1>8, <1>9 DEF ArchiverStep, SweepStep

LEMMA KeptByWriters ==
  ASSUME BaseInv, Writes, UNCHANGED archiveVars, Kept
  PROVE  Kept'
<1>1. UNCHANGED <<synced, object, deleteAfterUpload>>
  BY DEF archiveVars
<1>2. WriterStep
  BY WritesAreWriterSteps DEF BaseInv, ChainInv
<1> QED BY <1>1, <1>2 DEF Kept, OnDisk, WriterStep

\* The DELETE takes only what is on disk.
LEMMA KeptByArchivers ==
  ASSUME BaseInv, NEW r \in Replicas, ArchiverStep(r), ~unsynced',
         Rotate(r) /\ deleteAfterUpload => Frontier(r), Prune(r) => Copied(r), Kept
  PROVE  Kept'
<1>1. \A q \in Replicas, d \in Days : \A id : OnDisk(q, id, d) => OnDisk(q, id, d)'
  BY DiskKept
<1>2. stored' = stored
  BY LogUntouched
<1>3. CASE table' = table
  BY <1>1, <1>2, <1>3 DEF Kept
<1>4. CASE Prune(r) /\ table' = {x \in table : x.at >= cutoff[r]}
  <2>1. sweep[r] = "delete" /\ todo[r] = {} /\ cutoff[r] \in Int
    BY <1>4 DEF Prune, BaseInv, SweepsSound, SweepSound, ArchiveTyped
  <2>2. ASSUME NEW x \in table, x \notin table'
        PROVE  \E d \in Days : OnDisk(r, x.id, d)
    <3>1. x.at \in Nat /\ Day(x.at) \in Days
      BY RowDays
    <3>2. Swept(r, x)
      BY <1>4, <2>1, <2>2, <3>1 DEF Swept
    <3> QED BY <1>4, <2>1, <3>1, <3>2 DEF Copied
  <2> QED BY <1>1, <1>2, <2>2 DEF Kept
<1> QED BY <1>3, <1>4, LogUntouched

LEMMA RowInitial == Init => RowInv
<1> SUFFICES ASSUME Init PROVE RowInv
  OBVIOUS
<1>1. BaseInv
  BY BaseInitial
<1>2. ASSUME NEW q \in Replicas PROVE Frontier(q) /\ Copied(q)
  <2>1. /\ sweep[q] = "idle" /\ todo[q] = {} /\ openDate[q] = None
        /\ \A d \in Days : object[d] = {}
    BY DEF Init, ArchiveInit
  <2> QED BY <2>1 DEF Frontier, Copied, Swept
<1>3. Kept
  <2>1. \A id \in Legacy : LegacyRow(id).id = id /\ LegacyRow(id) \in table
    BY DEF LegacyRow, Init, LogInit
  <2> QED BY <2>1 DEF Kept, Init, LogInit
<1> QED BY <1>1, <1>2, <1>3 DEF RowInv

LEMMA RowStep ==
  ASSUME RowInv, ChainInv', [Next]_vars
  PROVE  RowInv'
<1>1. BaseInv /\ BaseInv'
  BY BaseStep DEF RowInv
<1>2. CASE Writes /\ UNCHANGED archiveVars
  <2>1. UNCHANGED <<deleteAfterUpload, redo, unsynced, sweepers>>
    BY <1>2 DEF archiveVars
  <2>2. \A q \in Replicas : Frontier(q) => Frontier(q)'
    BY <1>1, <1>2, FrontierKeptByWriters
  <2>3. \A q \in Replicas : Copied(q) => Copied(q)'
    BY <1>1, <1>2, CopiedKeptByWriters
  <2>4. Kept => Kept'
    BY <1>1, <1>2, KeptByWriters
  <2>5. (One' <=> One) /\ \A q \in Replicas : Only(q)' <=> Only(q)
    BY <2>1 DEF One, Only
  <2> QED BY <1>1, <2>1, <2>2, <2>3, <2>4, <2>5 DEF RowInv
<1>3. ASSUME NEW r \in Replicas, ArchiverStep(r) PROVE RowInv'
  <2>1. /\ sweepers \subseteq sweepers' /\ deleteAfterUpload' = deleteAfterUpload
        /\ (redo => redo') /\ (unsynced => unsynced')
    BY <1>3, HistoryGrows
  <2>2. (One' => One) /\ \A q \in Replicas : Only(q)' => Only(q)
    BY <2>1 DEF One, Only
  <2>3. ASSUME NEW q \in Replicas, deleteAfterUpload', ~redo', Only(q)' PROVE Frontier(q)'
    <3>1. Frontier(q)
      BY <2>1, <2>2, <2>3 DEF RowInv
    <3>2. CASE q = r
      BY <1>1, <1>3, <2>3, <3>1, <3>2, FrontierKeptByOwner
    <3>3. CASE q # r
      <4>1. r \notin sweepers'
        BY <2>3, <3>3 DEF Only
      <4> QED BY <1>1, <1>3, <3>1, <3>3, <4>1, FrontierKeptByOthers
    <3> QED BY <3>2, <3>3
  <2>4. ASSUME NEW q \in Replicas, ~unsynced', deleteAfterUpload' => ~redo' /\ Only(q)'
        PROVE  Copied(q)'
    <3>1. Copied(q) /\ (deleteAfterUpload => Frontier(q))
      BY <2>1, <2>2, <2>4 DEF RowInv
    <3>2. CASE q = r
      BY <1>1, <1>3, <2>4, <3>1, <3>2, CopiedKeptByOwner
    <3>3. CASE q # r
      <4>1. deleteAfterUpload => r \notin sweepers'
        BY <2>1, <2>4, <3>3 DEF Only
      <4> QED BY <1>1, <1>3, <2>4, <3>1, <3>3, <4>1, CopiedKeptByOthers
    <3> QED BY <3>2, <3>3
  <2>5. ASSUME ~unsynced', deleteAfterUpload' => ~redo' /\ One' PROVE Kept'
    <3>1. Kept /\ ~unsynced /\ (deleteAfterUpload => ~redo /\ One)
      BY <2>1, <2>2, <2>5 DEF RowInv
    <3>2. r \in sweepers => (deleteAfterUpload => Only(r))
      BY <3>1 DEF One, Only
    <3>3. Rotate(r) /\ deleteAfterUpload => Frontier(r)
      BY <1>1, <3>1, <3>2, RotatorSweeps DEF RowInv
    <3>4. Prune(r) => Copied(r)
      <4>1. Prune(r) => r \in sweepers
        BY <1>1 DEF Prune, BaseInv, SweepsSound, SweepSound
      <4> QED BY <3>1, <3>2, <4>1 DEF RowInv
    <3> QED BY <1>1, <1>3, <2>5, <3>1, <3>3, <3>4, KeptByArchivers
  <2> QED BY <1>1, <2>3, <2>4, <2>5 DEF RowInv
<1> QED BY <1>2, <1>3, StepSplits

LEMMA RowInvImplies == RowInv => RowsKept
<1> SUFFICES ASSUME RowInv, ~unsynced, deleteAfterUpload => ~redo /\ ~(Cardinality(sweepers) > 1)
             PROVE  stored \subseteq {x.id : x \in table} \cup Archived
  BY DEF RowsKept
<1>1. ArchiveTyped /\ SweepsSound
  BY DEF RowInv, BaseInv
<1>2. ~(Cardinality(sweepers) > 1) => One
  <2> SUFFICES ASSUME NEW p \in sweepers, NEW q \in sweepers, p # q
               PROVE  Cardinality(sweepers) > 1
    BY DEF One
  <2>1. IsFiniteSet({p}) /\ Cardinality({p}) = 1
    BY FS_Singleton
  <2>2. IsFiniteSet({p} \cup {q}) /\ Cardinality({p} \cup {q}) = 2
    BY <2>1, FS_AddElement
  <2>3. Cardinality({p} \cup {q}) <= Cardinality(sweepers)
    BY <1>1, FS_Subset DEF ArchiveTyped
  <2>4. Cardinality(sweepers) \in Nat
    BY <1>1, FS_CardinalityType DEF ArchiveTyped
  <2> QED BY <2>2, <2>3, <2>4
<1>3. Kept
  BY <1>2 DEF RowInv
<1>4. ASSUME NEW id, NEW q \in Replicas, NEW d \in Days, OnDisk(q, id, d) PROVE id \in Archived
  <2>1. synced[q][d] \subseteq file[q][d]
    BY <1>1 DEF SweepsSound, SweepSound
  <2>2. file[q][d] \subseteq Ids /\ object[d] \subseteq Ids
    BY <1>1 DEF ArchiveTyped, Files
  <2> QED BY <1>4, <2>1, <2>2 DEF OnDisk, Archived
<1> QED BY <1>3, <1>4 DEF Kept

\* No row is lost (Archive, appendRow, uploadAndMaybePrune): whatever fails or
\* dies, and however sweeps overlap with inserts and with each other, an id
\* once inserted is in the table or in the archive, but for the exceptions that
\* RowsKept names.
THEOREM RowsAreKept == Spec => []RowsKept
<1>1. ChainInv /\ ChainInv' /\ RowInv /\ [Next]_vars => RowInv'
  BY RowStep
<1>2. Spec => []RowInv
  BY <1>1, RowInitial, ChainInvariant, PTL DEF Spec
<1> QED BY <1>2, RowInvImplies, PTL
=============================================================================
