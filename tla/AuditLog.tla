------------------------------ MODULE AuditLog ------------------------------
(***************************************************************************)
(* The hash-chained audit table of internal/storage/audit.go, as its       *)
(* writers use it.  middleware_audit.go stamps an entry when the request   *)
(* has been served and inserts it from a goroutine of its own, so entries  *)
(* reach the table in any order, within the two seconds of the goroutine's *)
(* context.  On SQLite the chain's head is looked up and the row inserted  *)
(* under the process-local chainMu; on Postgres both happen in one         *)
(* serialisable transaction, whose failed attempts leave nothing behind.   *)
(*                                                                         *)
(* SHA-256 is taken to be injective: a hash is the tuple it was computed   *)
(* from, and EmptyHash is the empty string.  The hash covers At to the     *)
(* nanosecond; SQLite keeps that, the TIMESTAMP column of Postgres keeps   *)
(* microseconds: a tick of the clock is what the column tells apart, and   *)
(* ns is what time.Now finds below it.  One tenant is modelled: the chains *)
(* of two tenants share no row.  Rows that migration 0005 found in the     *)
(* table carry EmptyHash, are older than the process and are not part of   *)
(* the chain.                                                              *)
(***************************************************************************)
EXTENDS Integers, FiniteSets

CONSTANTS NumIds,         \* number of row ids
          Legacy,         \* the ids of the rows older than the chain
          MaxTime,        \* bound on the clock
          LastStamp,      \* bound: no request is served later
          InsertTimeout   \* the context of an insert, in ticks of the clock

\* Random UUIDs, numbered the way ORDER BY compares them.
Ids == 1 .. NumIds

ASSUME IdsAssumption == NumIds \in Nat /\ Legacy \subseteq Ids
ASSUME TimeAssumption ==
    MaxTime \in Nat \ {0} /\ LastStamp \in Nat /\ InsertTimeout \in Nat

VARIABLES now,        \* the clock
          postgres,   \* the dialect of the store
          rounds,     \* its column is coarser than the clock of time.Now
          pending,    \* entries stamped and not yet inserted
          chainMu,    \* the entry that holds chainMu, with its prev_hash
          table,      \* the rows of audit_log
          stored,     \* history: the ids of the rows ever inserted
          overtaken   \* history: a row was inserted below the chain's head

logVars == <<now, postgres, rounds, pending, chainMu, table, stored, overtaken>>

EmptyHash == <<>>

\* computeAuditHash: prev_hash and every field but the hashes.
computeAuditHash(prev, e) == <<prev, e.id, e.at, e.ns, e.body>>

\* An entry as the middleware builds it, and a row as the table keeps it: the
\* hash is computed before the column rounds At off.
Entry(id, at) == [id |-> id, at |-> at, ns |-> IF rounds THEN 1 ELSE 0, body |-> "served"]

Row(e, prev) ==
    [id |-> e.id, at |-> e.at, ns |-> 0, body |-> e.body,
     prev |-> prev, hash |-> computeAuditHash(prev, e)]

LegacyRow(id) ==
    [id |-> id, at |-> 0, ns |-> 0, body |-> "served", prev |-> EmptyHash, hash |-> EmptyHash]

\* ORDER BY at, id.
Less(q, r) == q.at < r.at \/ (q.at = r.at /\ q.id < r.id)

IsHead(h, t) == h \in t /\ \A q \in t : q = h \/ Less(q, h)

\* The hashes SELECT hash ... ORDER BY at DESC, id DESC LIMIT 1 can return.
HeadHash(t) == IF t = {} THEN {EmptyHash} ELSE {h.hash : h \in {x \in t : IsHead(x, t)}}

\* q is the row the walk of Verify meets just before r.
Adjacent(q, r, t) == /\ Less(q, r)
                     /\ \A x \in t : ~(Less(q, x) /\ Less(x, r))

\* A verifier that recomputes the rows' own hashes only.
BrokenUnlinked(r, t) ==
    /\ r.hash # EmptyHash
    /\ r.hash # computeAuditHash(r.prev, r)

\* What Verify finds wrong with row r: its own hash, or the link to the row
\* before it.  The first row met has no expected prev_hash, and a row
\* without a hash is skipped and expects the empty hash of its successor.
Broken(r, t) ==
    /\ r.hash # EmptyHash
    /\ \/ r.hash # computeAuditHash(r.prev, r)
       \/ \E q \in t : Adjacent(q, r, t) /\ r.prev # q.hash

Verify(t) == IF \E r \in t : Broken(r, t) THEN "broken" ELSE "ok"

LogInit ==
    /\ now = 1
    /\ postgres \in BOOLEAN
    /\ rounds \in IF postgres THEN BOOLEAN ELSE {FALSE}
    /\ pending = {}
    /\ chainMu = {}
    /\ table = {LegacyRow(id) : id \in Legacy}
    /\ stored = Legacy
    /\ overtaken = FALSE

\* AuditAdminActions, auditRawView: At is taken before the goroutine starts.
Stamp(id) ==
    /\ id \notin stored \cup {e.id : e \in pending \cup chainMu}
    /\ now <= LastStamp
    /\ pending' = pending \cup {Entry(id, now)}
    /\ UNCHANGED <<now, postgres, rounds, chainMu, table, stored, overtaken>>

\* The insert's context has not expired.
Alive(e) == now - e.at <= InsertTimeout

\* The row becomes visible.
Store(row) ==
    /\ table' = table \cup {row}
    /\ stored' = stored \cup {row.id}
    /\ overtaken' = (overtaken \/ \E q \in table : Less(row, q))

\* The head is read without waiting for chainMu.
ReadHeadUnlocked(e) ==
    /\ ~postgres
    /\ Alive(e)
    /\ \E prev \in HeadHash(table) : chainMu' = chainMu \cup {Row(e, prev)}
    /\ pending' = pending \ {e}
    /\ UNCHANGED <<now, postgres, rounds, table, stored, overtaken>>

\* Insert on SQLite, up to the lookup: chainMu is free, the head is read.
ReadHead(e) ==
    /\ ~postgres
    /\ chainMu = {}
    /\ Alive(e)
    /\ \E prev \in HeadHash(table) : chainMu' = {Row(e, prev)}
    /\ pending' = pending \ {e}
    /\ UNCHANGED <<now, postgres, rounds, table, stored, overtaken>>

\* Insert on SQLite: the INSERT; chainMu is released.
InsertRow(row) ==
    /\ row \in chainMu
    /\ Alive(row)
    /\ Store(row)
    /\ chainMu' = chainMu \ {row}
    /\ UNCHANGED <<now, postgres, rounds, pending>>

\* tryInsertSerialised: the attempt that commits.
TryInsertSerialised(e) ==
    /\ postgres
    /\ Alive(e)
    /\ \E prev \in HeadHash(table) : Store(Row(e, prev))
    /\ pending' = pending \ {e}
    /\ UNCHANGED <<now, postgres, rounds, chainMu>>

\* The insert ends with an error (a database error, every attempt of
\* insertSerialised spent, the context expired); the middleware logs it.
GiveUp(e) ==
    /\ pending' = pending \ {e}
    /\ chainMu' = chainMu \ {e}
    /\ UNCHANGED <<now, postgres, rounds, table, stored, overtaken>>

\* DELETE FROM audit_log WHERE at < limit.
DeleteOlderThan(limit) == table' = {r \in table : r.at >= limit}

\* Time passes; an insert whose context has expired ends first.
Tick ==
    /\ now < MaxTime
    /\ \A e \in pending \cup chainMu : now + 1 - e.at <= InsertTimeout
    /\ now' = now + 1
    /\ UNCHANGED <<postgres, rounds, pending, chainMu, table, stored, overtaken>>

-----------------------------------------------------------------------------
(* The chain *)

\* While no insert overtakes another and no column rounds a time off, GET
\* /audit/verify reports the chain intact, whatever prefix of it the archiver
\* has deleted meanwhile, and also while it deletes the head between an
\* insert's lookup and its INSERT: chainMu (SQLite) and the serialisable
\* transaction (Postgres) leave no other way to fork the chain (audit.go
\* Insert, Verify).
ChainIntact == ~overtaken /\ ~rounds => Verify(table) = "ok"

\* What the chain is for (audit.go, the comment on AuditEntry): in an intact
\* table, a hashed row whose body is changed, with its stored hash or with a
\* recomputed one, and a row taken out from between two others, are found by
\* Verify; only the last row can be replaced and only the ends cut off.
DetectsAlteration ==
    Verify(table) = "ok" =>
        \A r \in {x \in table : x.hash # EmptyHash} :
            LET rest    == table \ {r}
                altered == [r EXCEPT !.body = "altered"]
                resealed == [altered EXCEPT !.hash = computeAuditHash(r.prev, altered)]
                last    == ~\E x \in table : Less(r, x)
                first   == ~\E x \in table : Less(x, r)
            IN  /\ Verify(rest \cup {altered}) = "broken"
                /\ ~last => Verify(rest \cup {resealed}) = "broken"
                /\ ~last /\ ~first => Verify(rest) = "broken"
=============================================================================
