----------------------------- MODULE Revisions -----------------------------
(***************************************************************************)
(* The revision history of one pipeline: internal/server/                  *)
(* pipeline_revisions.go, pipeline_apply.go, the PUT handlers of           *)
(* handlers_pipelines.go, the rollback and deploy handlers of              *)
(* handlers_pipeline_revisions.go, storage/pipeline_revisions.go, and the  *)
(* transactions of storage/stages.go, transforms.go and routing.go.        *)
(*                                                                         *)
(* A PUT replaces one part of the configuration (the pipeline row, its     *)
(* stages, transforms or routing rules) in a transaction, answers, and     *)
(* leaves the snapshot to a goroutine that reads the parts back one        *)
(* statement at a time and then stores a revision.  Rollback and deploy    *)
(* write a revision's parts back in one transaction.  Transactions run at  *)
(* the database's default isolation: with Postgres the DELETE of a         *)
(* replacement takes the rows it sees, not those committed after it began, *)
(* so overlapping replacements leave the rows of both.  Requests overlap   *)
(* in any way, on one replica or on several that share the database; the   *)
(* mutex around the choice of a revision number is each replica's own.     *)
(*                                                                         *)
(* A part is a set of items: stages, transforms, rules, or what the        *)
(* pipeline row refers to.  A configuration says how many items of each    *)
(* kind a part has; equal configurations have equal hashes, whatever the   *)
(* ids of the child rows (snapshotForHash).                                *)
(***************************************************************************)
EXTENDS Integers, Sequences, FiniteSets

CONSTANTS NumOps,      \* bound on the changes of the pipeline
          NumReplicas, \* processes on one database: one with SQLite
          PoolSize,    \* transactions a process has open at once: one with SQLite
          NumParts,    \* parts of a configuration: four in the code
          Kinds,       \* kinds of items
          MaxItems,    \* bound on the items of a kind that a PUT writes
          MaxFaults,   \* bound on requests cut short
          None         \* nobody

ASSUME PartsAssumption == NumParts \in Nat \ {0} /\ IsFiniteSet(Kinds) /\ MaxItems \in Nat
ASSUME OpsAssumption == NumOps \in Nat /\ None \notin 1 .. NumOps
ASSUME PoolAssumption == PoolSize \in Nat /\ NumReplicas \in Nat

VARIABLES rows,       \* per part: its committed items, each with the request that wrote it
          tx,         \* per database connection: the open transaction
          revs,       \* pipeline_revisions, in the order of revision_number
          pc,         \* per request: where it is
          home,       \* per request: its replica
          snap,       \* per request: the parts read so far, or to be stored
          num,        \* per request: the revision number it works on
          mu,         \* per replica: who holds the pipeline's mutex
          faults,     \* requests cut short
          unlinked,   \* references taken away
          last,       \* the request that committed last
          wasLive,    \* history: the configurations that were live
          torn,       \* history: requests with a foreign change amid their reads
          drift,      \* history: live was changed by what no revision describes
          inverted,   \* history: a request stored after a later one had
          promoted,   \* history: a revision older than the newest was deployed
          conflicts   \* history: who lost a revision number to whom

configVars == <<rows, tx, home, last, unlinked, wasLive, torn, drift>>
vars == <<configVars, revs, pc, snap, num, mu, faults, inverted, promoted, conflicts>>

\* Requests are numbered in the order in which their commits take effect,
\* replicas in the order of their first request.
Ops == 1 .. NumOps
Replicas == 1 .. NumReplicas
Conns == Replicas \X (1 .. PoolSize)
Parts == 1 .. NumParts
Contents == [Kinds -> Nat]
Configs == [Parts -> Contents]

\* What a new pipeline has in each part.
Blank == [k \in Kinds |-> 0]
InFlight == {"read", "probe", "max", "force", "insert", "mark"}

\* The content of a set of items, and the items by which request o writes one.
Content(S) == [k \in Kinds |-> Cardinality({x \in S : x[2] = k})]
Written(o, content) == UNION {{<<o, k, i>> : i \in 1 .. content[k]} : k \in Kinds}

\* The pipeline's configuration, as a statement sees it.
live == [p \in Parts |-> Content(rows[p])]

Init ==
    /\ rows = [p \in Parts |-> {}]
    /\ tx = [c \in Conns |-> None]
    /\ revs = <<>>
    /\ pc = [o \in Ops |-> "idle"]
    /\ home = [o \in Ops |-> None]
    /\ snap = [o \in Ops |-> <<>>]
    /\ num = [o \in Ops |-> 0]
    /\ mu = [r \in Replicas |-> None]
    /\ faults = 0
    /\ last = 0
    /\ unlinked = 0
    /\ wasLive = {live}
    /\ torn = {}
    /\ drift = FALSE
    /\ inverted = FALSE
    /\ promoted = FALSE
    /\ conflicts = {}

-----------------------------------------------------------------------------
(* Transactions *)

Open == {c \in Conns : tx[c] # None}

\* The bound on changes is not reached.
More == last + Cardinality(Open) + unlinked < NumOps

\* An UPDATE of the pipeline row waits until no other transaction has the row.
RowFree == \A d \in Open : 1 \notin tx[d].done

\* Transaction t after its statement on part p: which items it takes away, and
\* whose row locks its DELETE waits for.
Replaces(t, p) ==
    [t EXCEPT !.done = @ \cup {p},
              !.seen[p] = rows[p],
              !.waits = {d \in Open : p # 1 /\ p \in tx[d].done
                                            /\ tx[d].seen[p] \cap rows[p] # {}}]

\* Transaction t begins with its first statement, on part p.
Begin(c, t, p) ==
    /\ tx[c] = None
    /\ More
    /\ \A r \in 1 .. c[1] - 1 : (\E o \in Ops : home[o] = r) \/ (\E d \in Open : d[1] = r)
    /\ p = 1 => RowFree
    /\ tx' = [tx EXCEPT ![c] = Replaces(t, p)]
    /\ UNCHANGED <<rows, home, last, unlinked, wasLive, torn, drift>>
    /\ UNCHANGED <<revs, pc, snap, num, mu, faults, inverted, promoted, conflicts>>

\* handleUpdatePipeline, handleReplaceStages, handleReplaceTransforms,
\* handleReplaceRoutingRules: one part is replaced.
Edit(c, p, content) ==
    Begin(c, [kind |-> "edit", n |-> 0, parts |-> {p},
              want |-> [q \in Parts |-> IF q = p THEN content ELSE Blank],
              done |-> {}, seen |-> [q \in Parts |-> {}], waits |-> {}], p)

\* handleRollbackRevision, handleDeployRevision: applyRevisionLive writes the
\* snapshot of revision n back, the pipeline row first.
Restore(c, n, kind) ==
    Begin(c, [kind |-> kind, n |-> n, parts |-> Parts, want |-> revs[n].snap,
              done |-> {}, seen |-> [q \in Parts |-> {}], waits |-> {}], 1)

\* applyRevisionLive: UpdateTx and the ReplaceForPipelineTx of each child, in order.
Statement(c, p) ==
    /\ tx[c] # None
    /\ tx[c].waits = {}
    /\ p \in tx[c].parts \ tx[c].done
    /\ \A q \in tx[c].parts \ tx[c].done : p <= q
    /\ tx' = [tx EXCEPT ![c] = Replaces(@, p)]
    /\ UNCHANGED <<rows, home, last, unlinked, wasLive, torn, drift>>
    /\ UNCHANGED <<revs, pc, snap, num, mu, faults, inverted, promoted, conflicts>>

\* The transaction of connection c is over: its locks are free.
Close(c) ==
    tx' = [d \in Conns |-> IF d = c \/ tx[d] = None THEN None
                           ELSE [tx[d] EXCEPT !.waits = @ \ {c}]]

\* The items change: live has had one more configuration, and who is amid its
\* reads has parts of two.
Changed(heirs) ==
    /\ wasLive' = wasLive \cup {live'}
    /\ torn' = torn \cup heirs \cup {q \in Ops : pc[q] = "read" /\ snap[q] # <<>>}

\* The commit of connection c, as request o.  Items committed by others since a
\* DELETE began are still there; the snapshot of a PUT will find them, the one
\* that a rollback or deploy wrote back has them not.  A copy of a torn snapshot
\* is torn.
Commit(o, c) ==
    LET t == tx[c] IN
    /\ t # None
    /\ t.waits = {} /\ t.done = t.parts
    /\ o = last + 1
    /\ rows' = [p \in Parts |-> IF p \in t.parts
                                THEN (rows[p] \ t.seen[p]) \cup Written(o, t.want[p])
                                ELSE rows[p]]
    /\ home' = [home EXCEPT ![o] = c[1]]
    /\ last' = o
    /\ drift' = (t.kind # "edit" /\ \E p \in Parts : rows[p] \ t.seen[p] # {})
    /\ Changed({q \in {o} : t.kind = "rollback" /\ revs[t.n].by \in torn})
    /\ Close(c)

\* A PUT has committed: its snapshot is dispatched.
Saved(o, c) ==
    /\ Commit(o, c)
    /\ tx[c].kind = "edit"
    /\ pc' = [pc EXCEPT ![o] = "read"]
    /\ UNCHANGED <<revs, snap, num, mu, faults, unlinked, inverted, promoted, conflicts>>

\* handleRollbackRevision: the snapshot is live and becomes a revision of its own.
RolledBack(o, c) ==
    /\ Commit(o, c)
    /\ tx[c].kind = "rollback"
    /\ snap' = [snap EXCEPT ![o] = tx[c].want]
    /\ pc' = [pc EXCEPT ![o] = "force"]
    /\ UNCHANGED <<revs, num, mu, faults, unlinked, inverted, promoted, conflicts>>

\* handleDeployRevision: the snapshot is live, its revision is to be stamped.
Deployed(o, c) ==
    /\ Commit(o, c)
    /\ tx[c].kind = "deploy"
    /\ num' = [num EXCEPT ![o] = tx[c].n]
    /\ pc' = [pc EXCEPT ![o] = "mark"]
    /\ promoted' = (promoted \/ tx[c].n # Len(revs))
    /\ UNCHANGED <<revs, snap, mu, faults, unlinked, inverted, conflicts>>

\* handleDeleteSchema, or the deletion of a shadow connection: the pipeline row
\* that refers to it is set NULL there, and no revision is stored.
Unlink(x) ==
    /\ x \in rows[1]
    /\ RowFree
    /\ More
    /\ unlinked' = unlinked + 1
    /\ rows' = [rows EXCEPT ![1] = @ \ {x}]
    /\ drift' = TRUE
    /\ Changed({})
    /\ UNCHANGED <<tx, home, last>>
    /\ UNCHANGED <<revs, pc, snap, num, mu, faults, inverted, promoted, conflicts>>

-----------------------------------------------------------------------------
(* Snapshots *)

\* The routing rules are left out of the snapshot.
ReadPartShort(o) ==
    /\ pc[o] = "read"
    /\ snap' = [snap EXCEPT ![o] = Append(@, IF Len(@) + 1 = NumParts THEN Blank ELSE live[Len(@) + 1])]
    /\ pc' = [pc EXCEPT ![o] = IF Len(snap[o]) + 1 = NumParts THEN "probe" ELSE "read"]
    /\ UNCHANGED <<configVars, revs, num, mu, faults, inverted, promoted, conflicts>>

\* snapshotPipelineRevisionSync, one of its reads.
ReadPart(o) ==
    /\ pc[o] = "read"
    /\ snap' = [snap EXCEPT ![o] = Append(@, live[Len(@) + 1])]
    /\ pc' = [pc EXCEPT ![o] = IF Len(snap[o]) + 1 = NumParts THEN "probe" ELSE "read"]
    /\ UNCHANGED <<configVars, revs, num, mu, faults, inverted, promoted, conflicts>>

\* The request goes past the point that orders the history.
Order(o) == inverted' = (inverted \/ \E q \in Ops : q > o /\ pc[q] \in {"mark", "done"})

\* Any revision by that hash makes the save a duplicate.
DuplicatesAnywhere(s) == {n \in DOMAIN revs : revs[n].snap = s}

\* The rows by that hash: Create looks at the latest only.
Duplicates(s) == {n \in DOMAIN revs : n = Len(revs) /\ revs[n].snap = s}

\* The mutex is not waited for.
AcquireNot(o) == mu' = [mu EXCEPT ![home[o]] = o]

\* pipelineLock: the mutex of the request's own process.
Acquire(o) == mu[home[o]] = None /\ mu' = [mu EXCEPT ![home[o]] = o]

\* Nobody unlocks.
ReleaseNot(o) == UNCHANGED mu

\* The deferred unlock of every return path.
Release(o) == mu' = [r \in Replicas |-> IF mu[r] = o THEN None ELSE mu[r]]

\* Create: under the mutex, the latest revision has this hash.
ProbeHit(o) ==
    /\ pc[o] = "probe"
    /\ mu[home[o]] = None
    /\ Duplicates(snap[o]) # {}
    /\ num' = [num EXCEPT ![o] = Len(revs)]
    /\ pc' = [pc EXCEPT ![o] = "mark"]
    /\ Order(o)
    /\ UNCHANGED <<configVars, revs, snap, mu, faults, promoted, conflicts>>

\* Create: under the mutex, it has not.
ProbeMiss(o) ==
    /\ pc[o] = "probe"
    /\ Acquire(o)
    /\ Duplicates(snap[o]) = {}
    /\ pc' = [pc EXCEPT ![o] = "max"]
    /\ UNCHANGED <<configVars, revs, snap, num, faults, inverted, promoted, conflicts>>

\* Create: the next number.
SelectMax(o) ==
    /\ pc[o] = "max"
    /\ num' = [num EXCEPT ![o] = Len(revs) + 1]
    /\ pc' = [pc EXCEPT ![o] = "insert"]
    /\ UNCHANGED <<configVars, revs, snap, mu, faults, inverted, promoted, conflicts>>

\* CreateForce: under the mutex, the next number, without a probe.
ForceMax(o) ==
    /\ pc[o] = "force"
    /\ Acquire(o)
    /\ num' = [num EXCEPT ![o] = Len(revs) + 1]
    /\ pc' = [pc EXCEPT ![o] = "insert"]
    /\ UNCHANGED <<configVars, revs, snap, faults, inverted, promoted, conflicts>>

\* Create, CreateForce: the INSERT, and the mutex is released.
Insert(o) ==
    /\ pc[o] = "insert"
    /\ num[o] = Len(revs) + 1
    /\ revs' = Append(revs, [snap |-> snap[o], deployed |-> FALSE, by |-> o])
    /\ pc' = [pc EXCEPT ![o] = "mark"]
    /\ Order(o)
    /\ Release(o)
    /\ UNCHANGED <<configVars, snap, num, faults, promoted, conflicts>>

\* The request is over, its locals are gone.
End(o, how) ==
    /\ pc' = [pc EXCEPT ![o] = how]
    /\ snap' = [snap EXCEPT ![o] = <<>>]
    /\ num' = [num EXCEPT ![o] = 0]

\* UNIQUE (pipeline_id, revision_number) refuses the INSERT; nobody retries.
InsertConflict(o) ==
    /\ pc[o] = "insert"
    /\ num[o] <= Len(revs)
    /\ End(o, "cut")
    /\ Release(o)
    /\ conflicts' = conflicts \cup {<<o, revs[num[o]].by>>}
    /\ UNCHANGED <<configVars, revs, faults, inverted, promoted>>

\* The newest revision is stamped, whoever stored it.
MarkNewest(o) ==
    /\ pc[o] = "mark"
    /\ revs' = [revs EXCEPT ![Len(revs)].deployed = TRUE]
    /\ End(o, "done")
    /\ UNCHANGED <<configVars, mu, faults, inverted, promoted, conflicts>>

\* MarkDeployed.
MarkDeployed(o) ==
    /\ pc[o] = "mark"
    /\ revs' = [revs EXCEPT ![num[o]].deployed = TRUE]
    /\ End(o, "done")
    /\ UNCHANGED <<configVars, mu, faults, inverted, promoted, conflicts>>

\* A statement fails, the five seconds of the context are over, the client of
\* a rollback or deploy hangs up, or the process exits.  A transaction that
\* fails before its commit leaves nothing and is not a step.
CutShort(o) ==
    /\ pc[o] \in InFlight
    /\ faults < MaxFaults
    /\ faults' = faults + 1
    /\ End(o, "cut")
    /\ Release(o)
    /\ UNCHANGED <<configVars, revs, inverted, promoted, conflicts>>

Advance(o) ==
    \/ ReadPart(o) \/ ProbeHit(o) \/ ProbeMiss(o) \/ SelectMax(o) \/ ForceMax(o)
    \/ Insert(o) \/ InsertConflict(o) \/ MarkDeployed(o)

\* A request reaches the database on connection c.
Request(c) ==
    \/ \E p \in Parts, content \in [Kinds -> 0 .. MaxItems] : Edit(c, p, content)
    \/ \E n \in DOMAIN revs, kind \in {"rollback", "deploy"} : Restore(c, n, kind)

\* The transaction of connection c takes effect.
Effect(o, c) == Saved(o, c) \/ RolledBack(o, c) \/ Deployed(o, c)

Proceed(c) == (\E p \in Parts : Statement(c, p)) \/ (\E o \in Ops : Effect(o, c))

Next ==
    \/ \E o \in Ops : Advance(o) \/ CutShort(o)
    \/ \E c \in Conns : Request(c) \/ Proceed(c)
    \/ \E x \in rows[1] : Unlink(x)

\* As long as a goroutine can run or the database can answer, one of them does.
Fairness == WF_vars((\E o \in Ops : Advance(o)) \/ (\E c \in Conns : Proceed(c)))

Spec == Init /\ [][Next]_vars /\ Fairness

-----------------------------------------------------------------------------
Item == Nat \X Kinds \X Nat
Tx == [kind : {"edit", "rollback", "deploy"}, n : Nat,
       parts : SUBSET Parts, want : Configs, done : SUBSET Parts,
       seen : [Parts -> SUBSET Item], waits : SUBSET Conns]

TypeOK ==
    /\ rows \in [Parts -> SUBSET Item]
    /\ tx \in [Conns -> Tx \cup {None}]
    /\ revs \in Seq([snap : Configs, deployed : BOOLEAN, by : Ops])
    /\ pc \in [Ops -> InFlight \cup {"idle", "done", "cut"}]
    /\ home \in [Ops -> Replicas \cup {None}]
    /\ snap \in [Ops -> Seq(Contents)]
    /\ num \in [Ops -> Nat]
    /\ mu \in [Replicas -> Ops \cup {None}]
    /\ last \in 0 .. NumOps
    /\ unlinked \in Nat
    /\ wasLive \subseteq Configs
    /\ drift \in BOOLEAN

\* As soon as the request that committed last has ended without a failure, what
\* is live is stored as a revision and stamped deployed, however its reads, its
\* probe and its inserts interleaved with other saves, rollbacks and deploys
\* (snapshotPipelineRevisionSync, Create, CreateForce, MarkDeployed).  Not so
\* after a rollback or deploy that overlapped a PUT of a child part, whose rows
\* are live beside its own, and after the deletion of what the pipeline row
\* refers to.
LiveIsRecorded ==
    last # 0 /\ pc[last] = "done" /\ ~drift =>
        \E n \in DOMAIN revs : revs[n].deployed /\ revs[n].snap = live

\* LatestDeployed, which the history pane, the explain engine and the DLQ
\* views take for what is running, is what is live, unless a request stored
\* its snapshot after one that had committed later, a deploy promoted a
\* revision that is not the newest, or live was changed by what no revision
\* describes.
LatestDeployedIsLive ==
    last # 0 /\ pc[last] = "done" /\ ~drift /\ ~inverted /\ ~promoted =>
        \E n \in DOMAIN revs :
            /\ revs[n].deployed /\ revs[n].snap = live
            /\ \A m \in n + 1 .. Len(revs) : ~revs[m].deployed

\* A revision is a configuration that was live at one moment, unless live
\* changed between the four reads of its snapshot, or of the snapshot it is a
\* copy of.
RevisionsWereLive ==
    \A n \in DOMAIN revs : revs[n].snap \in wasLive \/ revs[n].by \in torn

\* The in-process mutex is enough for one process: a save fails on a taken
\* revision number only when another replica took it.
ConflictsAreForeign == \A c \in conflicts : home[c[1]] # home[c[2]]

\* Every save, rollback and deploy ends: transactions do not wait for each other
\* in a circle, and no path of Create keeps the mutex.
RequestsEnd == <>[](Open = {} /\ \A o \in Ops : pc[o] \notin InFlight)
=============================================================================
