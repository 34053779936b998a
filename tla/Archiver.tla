------------------------------ MODULE Archiver ------------------------------
(***************************************************************************)
(* The audit archiver (internal/audit/archive.go) over the audit table of  *)
(* AuditLog.  The leader's sweep copies the rows older than MaxAge into    *)
(* one file per day in its own archive directory, uploads a day's file to  *)
(* the object store when a row of another day closes it, removes the local *)
(* file after the upload if so configured, fsyncs the file left open and   *)
(* then deletes the rows.  The role moves between replicas (Leadership);   *)
(* it is read when the ticker fires and not again during the sweep.        *)
(*                                                                         *)
(* A file and an object are the sets of the ids written to them: archives  *)
(* are idempotent on the id.  What was written and not yet fsynced is lost *)
(* when the machine fails, not when the process dies.                      *)
(***************************************************************************)
EXTENDS AuditLog

CONSTANTS Replicas,    \* archiver processes; the first sweep is any one's
          MaxAge,      \* cfg.Audit.MaxAge in ticks
          DayLen,      \* ticks per UTC day
          MaxFaults,   \* bound on failures, crashes and moves of the role
          None         \* no file is open

ASSUME AgeAssumption == MaxAge \in Nat /\ MaxAge > InsertTimeout
ASSUME DayAssumption == DayLen \in Nat \ {0}

VARIABLES s3,          \* an uploader is installed
          deleteAfterUpload,
          leader,      \* the replica for which leaderOK holds
          sweep,       \* per replica: where its sweep is
          todo,        \* per replica: the rows its cursor has still to return
          cutoff,      \* per replica: of the sweep in progress
          openDate,    \* per replica: the day of the open file, or None
          file,        \* per replica and day: ids in the local file
          synced,      \* per replica and day: ids of it known to be on disk
          object,      \* per day: ids in the object
          faults,
          sweepers,    \* history: the replicas that have copied a row
          redo,        \* history: a sweep wrote a row and did not delete it
          unsynced     \* history: a rotation's fsync failed

archiveVars == <<s3, deleteAfterUpload, leader, sweep, todo, cutoff, openDate,
                 file, synced, object, faults, sweepers, redo, unsynced>>
vars == <<logVars, archiveVars>>

Day(t) == t \div DayLen
Days == 0 .. Day(MaxTime)

ASSUME NoneAssumption == None \notin Days

\* Which replica leads first does not matter.
First == CHOOSE r \in Replicas : TRUE

ArchiveInit ==
    /\ s3 \in BOOLEAN
    /\ deleteAfterUpload \in IF s3 THEN BOOLEAN ELSE {FALSE}
    /\ leader = First
    /\ sweep = [r \in Replicas |-> "idle"]
    /\ todo = [r \in Replicas |-> {}]
    /\ cutoff = [r \in Replicas |-> 0]
    /\ openDate = [r \in Replicas |-> None]
    /\ file = [r \in Replicas |-> [d \in Days |-> {}]]
    /\ synced = [r \in Replicas |-> [d \in Days |-> {}]]
    /\ object = [d \in Days |-> {}]
    /\ faults = 0
    /\ sweepers = {}
    /\ redo = FALSE
    /\ unsynced = FALSE

Init == LogInit /\ ArchiveInit

Fault == faults < MaxFaults /\ faults' = faults + 1

\* sweep, and IterOlderThan's query: one cutoff for the rows copied and for
\* the rows deleted.  A sweep that finds no row does nothing.
Sweep(r) ==
    /\ sweep[r] = "idle"
    /\ leader = r
    /\ LET old == {x \in table : x.at < now - MaxAge}
       IN  /\ old # {}
           /\ todo' = [todo EXCEPT ![r] = old]
    /\ cutoff' = [cutoff EXCEPT ![r] = now - MaxAge]
    /\ sweep' = [sweep EXCEPT ![r] = "copy"]
    /\ UNCHANGED <<logVars, s3, deleteAfterUpload, leader, openDate, file, synced,
                   object, faults, sweepers, redo, unsynced>>

\* Of two rows with one time the cursor returns none.
ReturnsStrictly(x, r) == x \in todo[r] /\ \A y \in todo[r] \ {x} : x.at < y.at

\* The row the cursor returns next: ORDER BY at.
Returns(x, r) == x \in todo[r] /\ \A y \in todo[r] : x.at <= y.at

\* The sweep is over, by its DELETE or by an error.
SweepEnds(r) ==
    /\ sweep' = [sweep EXCEPT ![r] = "idle"]
    /\ todo' = [todo EXCEPT ![r] = {}]
    /\ cutoff' = [cutoff EXCEPT ![r] = 0]

\* uploadAndMaybePrune: the whole file goes under the day's key, over what is
\* there (put); the answer may be an error all the same (uploaded); only after
\* a good one may the local file be removed, which can fail (pruned).
UploadAndMaybePrune(r, d, sync, put, uploaded, pruned) ==
    /\ put => s3
    /\ uploaded => put
    /\ pruned => deleteAfterUpload /\ uploaded
    /\ object' = IF put THEN [object EXCEPT ![d] = file[r][d]] ELSE object
    /\ file' = IF pruned THEN [file EXCEPT ![r][d] = {}] ELSE file
    /\ synced' = IF pruned THEN [synced EXCEPT ![r][d] = {}]
                 ELSE IF sync THEN [synced EXCEPT ![r][d] = file[r][d]] ELSE synced
    /\ IF sync /\ (s3 => uploaded) /\ (deleteAfterUpload /\ uploaded => pruned)
       THEN UNCHANGED faults ELSE Fault

\* appendRow, a row of another day: the open file is fsynced, closed and
\* uploaded; errors of the fsync and of the upload do not stop the sweep.
Rotate(r) ==
    /\ sweep[r] = "copy"
    /\ openDate[r] # None
    /\ \E x \in todo[r] : Returns(x, r) /\ openDate[r] # Day(x.at)
    /\ \E sync, put, uploaded, pruned \in BOOLEAN :
        /\ UploadAndMaybePrune(r, openDate[r], sync, put, uploaded, pruned)
        /\ unsynced' = (unsynced \/ ~sync)
    /\ openDate' = [openDate EXCEPT ![r] = None]
    /\ UNCHANGED <<logVars, s3, deleteAfterUpload, leader, sweep, todo, cutoff, sweepers, redo>>

\* appendRow: the day's file is opened for append, or is open, and takes the row.
WriteRow(r) ==
    /\ sweep[r] = "copy"
    /\ \E x \in todo[r] :
        LET d == Day(x.at)
        IN  /\ Returns(x, r)
            /\ openDate[r] \in {None, d}
            /\ openDate' = [openDate EXCEPT ![r] = d]
            /\ file' = [file EXCEPT ![r][d] = @ \cup {x.id}]
            /\ todo' = [todo EXCEPT ![r] = @ \ {x}]
    /\ sweepers' = sweepers \cup {r}
    /\ UNCHANGED <<logVars, s3, deleteAfterUpload, leader, sweep, cutoff, synced,
                   object, faults, redo, unsynced>>

\* An error of the cursor, of opening a file, of a write, of the fsync or of
\* the DELETE ends the sweep; its rows stay in the table.
SweepFails(r) ==
    /\ sweep[r] # "idle"
    /\ Fault
    /\ SweepEnds(r)
    /\ redo' = TRUE
    /\ UNCHANGED <<logVars, s3, deleteAfterUpload, leader, openDate, file, synced,
                   object, sweepers, unsynced>>

\* Archive: the cursor is done, the open file is fsynced.
Fsync(r) ==
    /\ sweep[r] = "copy"
    /\ todo[r] = {}
    /\ sweep' = [sweep EXCEPT ![r] = "delete"]
    /\ synced' = [synced EXCEPT ![r][openDate[r]] = file[r][openDate[r]]]
    /\ UNCHANGED <<logVars, s3, deleteAfterUpload, leader, todo, cutoff, openDate, file,
                   object, faults, sweepers, redo, unsynced>>

\* The cutoff is computed again.
DeleteCutoffNow(r) == now - MaxAge

\* The cutoff of the DELETE is the one the rows were read with.
DeleteCutoff(r) == cutoff[r]

\* Archive: DeleteOlderThan.
Prune(r) ==
    /\ sweep[r] = "delete"
    /\ DeleteOlderThan(DeleteCutoff(r))
    /\ SweepEnds(r)
    /\ UNCHANGED <<now, postgres, rounds, pending, chainMu, stored, overtaken,
                   s3, deleteAfterUpload, leader, openDate, file, synced,
                   object, faults, sweepers, redo, unsynced>>

\* The process ends, by SIGTERM (Run fsyncs the open file) or by dying, and
\* starts again without an open file; an interrupted sweep is forgotten.
Restart(r) ==
    /\ Fault
    /\ openDate[r] # None \/ sweep[r] # "idle"
    /\ SweepEnds(r)
    /\ openDate' = [openDate EXCEPT ![r] = None]
    /\ redo' = (redo \/ sweep[r] # "idle")
    /\ UNCHANGED <<logVars, s3, deleteAfterUpload, leader, file, synced,
                   object, sweepers, unsynced>>

\* The machine fails: the page cache is lost with the process.
PowerLoss(r) ==
    /\ Fault
    /\ file[r] # synced[r]
    /\ SweepEnds(r)
    /\ openDate' = [openDate EXCEPT ![r] = None]
    /\ file' = [file EXCEPT ![r] = synced[r]]
    /\ redo' = (redo \/ sweep[r] # "idle")
    /\ UNCHANGED <<logVars, s3, deleteAfterUpload, leader, synced,
                   object, sweepers, unsynced>>

\* The lease moves to another replica; only Postgres is shared by several.
Handover(r) ==
    /\ postgres
    /\ leader # r
    /\ Fault
    /\ leader' = r
    /\ UNCHANGED <<logVars, s3, deleteAfterUpload, sweep, todo, cutoff, openDate, file, synced,
                   object, sweepers, redo, unsynced>>

\* The goroutine of one entry goes on, or ends with an error.
Insert(id) ==
    /\ \/ \E e \in pending : e.id = id /\ (ReadHead(e) \/ TryInsertSerialised(e))
       \/ \E row \in chainMu : row.id = id /\ InsertRow(row)
    /\ UNCHANGED archiveVars

InsertFails(id) ==
    /\ \E e \in pending \cup chainMu : e.id = id /\ GiveUp(e)
    /\ UNCHANGED archiveVars

SweepStep(r) == Sweep(r) \/ Rotate(r) \/ WriteRow(r) \/ Fsync(r) \/ Prune(r)

Next ==
    \/ \E id \in Ids : (Stamp(id) /\ UNCHANGED archiveVars) \/ Insert(id) \/ InsertFails(id)
    \/ Tick /\ UNCHANGED archiveVars
    \/ \E r \in Replicas :
        SweepStep(r) \/ SweepFails(r) \/ Restart(r) \/ PowerLoss(r) \/ Handover(r)

\* Inserts end by their context, the clock runs, and the ticker of Run
\* fires again and again.
Fairness ==
    /\ \A id \in Ids : WF_vars(Insert(id) \/ InsertFails(id))
    /\ WF_vars(Tick /\ UNCHANGED archiveVars)
    /\ \A r \in Replicas : WF_vars(SweepStep(r))

Spec == Init /\ [][Next]_vars /\ Fairness

-----------------------------------------------------------------------------
(* The archive *)

Archived == {id \in Ids : \/ \E d \in Days : id \in object[d]
                          \/ \E r \in Replicas, d \in Days : id \in file[r][d]}

\* A row once inserted is in the table, in a local file or in the object
\* store, over failed uploads, fsyncs and DELETEs, dying processes and
\* machines, overlapping sweeps and inserts that arrive while a sweep runs
\* (Archive, appendRow, uploadAndMaybePrune).  Three exceptions: an fsync
\* error that appendRow ignored and, where local files are removed after the
\* upload, a sweep that was cut short or a second replica's sweep, each of
\* which starts the day's file anew and uploads it over the whole one.
RowsKept ==
    \/ stored \subseteq {x.id : x \in table} \cup Archived
    \/ unsynced
    \/ deleteAfterUpload /\ (redo \/ Cardinality(sweepers) > 1)

\* The table stays bounded: whatever failed before, every row old enough is
\* in the end archived and deleted (Run, Archive).
TableDrains == <>[](\A x \in table : x.at >= MaxTime - MaxAge)
=============================================================================
