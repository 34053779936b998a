----------------------------- MODULE Leadership ------------------------------
(***************************************************************************)
(* The leadership lease (src/internal/leadership/leadership.go): replicas  *)
(* compete for one row of the shared database, renew it every half TTL,    *)
(* and tell the goroutine in main that starts and stops the pipelines.     *)
(*                                                                         *)
(* Time is discrete and relative: `rem' is expires_at minus the clock,     *)
(* `age[r]' the time since r's last attempt read its clock.  An attempt    *)
(* reads the clock first and only then runs the statement, so the expiry   *)
(* it writes, and the expiry test it makes, are `age' units old.           *)
(*                                                                         *)
(* The rest of a replica is reduced to what the lease decides: `workers',  *)
(* whether its manager has executors in its map, and the calls of          *)
(* Manager.Reload under way, the consumer's and those of HTTP handlers.    *)
(* Manager.tla has the map itself, and what overlapping calls leave        *)
(* running outside of it.                                                  *)
(***************************************************************************)
EXTENDS Integers, Sequences, FiniteSets

CONSTANTS Replicas,     \* replicas, with distinct ids
          Nobody,       \* no row yet, or holder = ''
          TTL,          \* l.ttl
          Period,       \* the ticker's period, TTL / 2
          MaxWait,      \* an attempt begins at most this long after the last
          Latency,      \* an attempt ends at most this long after it began
          Postgres,     \* the claim takes the advisory lock first
          ChanCap,      \* capacity of l.onChange (8 in the code)
          Watched,      \* replicas whose consumer is modelled; the consumers
                        \* do not touch each other
          Handlers,     \* HTTP handlers of a replica that may reload at once
          MaxFaults     \* bound on errors, exits and crashes

ASSUME ReplicasAssumption == Nobody \notin Replicas
ASSUME TimesAssumption ==
  /\ TTL \in Nat \ {0} /\ Period \in Nat \ {0}
  /\ MaxWait \in Nat /\ Latency \in Nat
  /\ Period <= MaxWait
ASSUME ConsumerAssumption == Watched \subseteq Replicas /\ "consumer" \notin Handlers
ASSUME LeaseBounds == Postgres \in BOOLEAN /\ ChanCap \in Nat \ {0} /\ MaxFaults \in Nat

VARIABLES
  holder, rem,  \* the leadership row: holder, and expires_at - now
  step,         \* where a replica is in Run
  age,          \* time since its last attempt began
  lead,         \* l.isLeader
  chan,         \* l.onChange
  told,         \* the last event that found room in it (history)
  astray,       \* since the last event a Reload failed, or a handler's Reload
                \* started executors on a replica that does not lead (history)
  reload,       \* per caller: where its Manager.Reload is
  workers,      \* the manager's map has executors
  vacant,       \* time without a leader, while some replica competes
  faults

rowVars == <<holder, rem>>
consumerVars == <<chan, told, astray, reload, workers>>
vars == <<rowVars, step, age, lead, consumerVars, vacant, faults>>

(* "out": the process runs, but Run has returned *)
Steps == {"wait", "sql", "locked", "won", "lost", "out", "stopped", "crashed"}
Up(r) == step[r] \notin {"stopped", "crashed"}
Competes(r) == Up(r) /\ step[r] # "out"
Attempting(r) == step[r] \in {"sql", "locked", "won", "lost"}

Callers == Handlers \cup {"consumer"}

(* Older than any expiry test can tell *)
Floor == -(Latency + 1)

TypeOK ==
  /\ holder \in Replicas \cup {Nobody}
  /\ rem \in Int /\ rem <= TTL
  /\ step \in [Replicas -> Steps]
  /\ age \in [Replicas -> Nat]
  /\ lead \in [Replicas -> BOOLEAN]
  /\ chan \in [Replicas -> Seq(BOOLEAN)]
  /\ told \in [Replicas -> BOOLEAN]
  /\ astray \in [Replicas -> BOOLEAN]
  /\ reload \in [Replicas -> [Callers -> {"none", "drain", "list"}]]
  /\ workers \in [Replicas -> BOOLEAN]
  /\ vacant \in Nat
  /\ faults \in Nat

Init ==
  /\ holder = Nobody
  /\ rem = Floor
  /\ step = [r \in Replicas |-> "crashed"]
  /\ age = [r \in Replicas |-> 0]
  /\ lead = [r \in Replicas |-> FALSE]
  /\ chan = [r \in Replicas |-> <<>>]
  /\ told = [r \in Replicas |-> FALSE]
  /\ astray = [r \in Replicas |-> FALSE]
  /\ reload = [r \in Replicas |-> [c \in Callers |-> "none"]]
  /\ workers = [r \in Replicas |-> FALSE]
  /\ vacant = 0
  /\ faults = 0
-----------------------------------------------------------------------------
Fault == faults < MaxFaults /\ faults' = faults + 1

(* mutant: gaining the lease is announced, losing it is not *)
EmitGains(r, s) ==
  IF Len(chan[r]) < ChanCap
    THEN /\ chan' = [chan EXCEPT ![r] = IF s THEN Append(@, s) ELSE @]
         /\ told' = [told EXCEPT ![r] = s]
    ELSE UNCHANGED <<chan, told>>

(* emit: non-blocking send; with the buffer full the newest is dropped *)
Emit(r, s) ==
  IF Len(chan[r]) < ChanCap
    THEN chan' = [chan EXCEPT ![r] = Append(@, s)] /\ told' = [told EXCEPT ![r] = s]
    ELSE UNCHANGED <<chan, told>>

(* Swap(s): the role, and an event if it flipped *)
SetLead(r, s) ==
  /\ lead' = [lead EXCEPT ![r] = s]
  /\ IF lead[r] # s /\ r \in Watched THEN Emit(r, s) ELSE UNCHANGED <<chan, told>>

(* The process starts: Run's first attempt comes at once *)
Boot(r) ==
  /\ ~Up(r)
  /\ step' = [step EXCEPT ![r] = "sql"]
  /\ age' = [age EXCEPT ![r] = 0]
  /\ UNCHANGED <<rowVars, lead, consumerVars, vacant, faults>>

(* CREATE TABLE fails: Run returns, main logs it, and the process goes on  *)
(* without ever competing for the lease.                                   *)
BootFails(r) ==
  /\ ~Up(r)
  /\ Fault
  /\ step' = [step EXCEPT ![r] = "out"]
  /\ age' = [age EXCEPT ![r] = 0]
  /\ UNCHANGED <<rowVars, lead, consumerVars, vacant>>

(* The ticker fires: attempt reads the clock *)
Attempt(r) ==
  /\ step[r] = "wait" /\ age[r] >= Period
  /\ step' = [step EXCEPT ![r] = "sql"]
  /\ age' = [age EXCEPT ![r] = 0]
  /\ UNCHANGED <<rowVars, lead, consumerVars, vacant, faults>>

(* mutant: ON CONFLICT DO NOTHING *)
ClaimableFree(r) == holder = Nobody

(* The WHERE clause: the row is ours, or had expired when we read the clock *)
Claimable(r) == holder = r \/ rem < -age[r]

Claim(r) == holder' = r /\ rem' = TTL - age[r]

(* On Postgres the claim runs under the advisory lock *)
ReadyToClaim(r) == step[r] = (IF Postgres THEN "locked" ELSE "sql")

(* mutant: the new expiry is bound where the clock reading belongs *)
UpsertSwapped(r) ==
  /\ ReadyToClaim(r)
  /\ \/ /\ holder = r \/ rem < TTL - age[r]
        /\ Claim(r)
        /\ step' = [step EXCEPT ![r] = "won"]
     \/ /\ ~(holder = r \/ rem < TTL - age[r])
        /\ step' = [step EXCEPT ![r] = "lost"]
        /\ UNCHANGED rowVars
  /\ UNCHANGED <<age, lead, consumerVars, vacant, faults>>

(* mutant: an expired lease of another replica is not claimed *)
UpsertOwnOnly(r) ==
  /\ ReadyToClaim(r)
  /\ \/ /\ holder \in {r, Nobody}
        /\ Claim(r)
        /\ step' = [step EXCEPT ![r] = "won"]
     \/ /\ holder \notin {r, Nobody}
        /\ step' = [step EXCEPT ![r] = "lost"]
        /\ UNCHANGED rowVars
  /\ UNCHANGED <<age, lead, consumerVars, vacant, faults>>

(* Postgres: pg_try_advisory_xact_lock first; losing the race counts as zero rows *)
AdvisoryLock(r) ==
  /\ Postgres /\ step[r] = "sql"
  /\ step' = [step EXCEPT ![r] =
                IF \E q \in Replicas : step[q] = "locked" THEN "lost" ELSE "locked"]
  /\ UNCHANGED <<rowVars, age, lead, consumerVars, vacant, faults>>

(* The conditional upsert, one serialised statement *)
Upsert(r) ==
  /\ ReadyToClaim(r)
  /\ \/ /\ Claimable(r)
        /\ Claim(r)
        /\ step' = [step EXCEPT ![r] = "won"]
     \/ /\ ~Claimable(r)
        /\ step' = [step EXCEPT ![r] = "lost"]
        /\ UNCHANGED rowVars
  /\ UNCHANGED <<age, lead, consumerVars, vacant, faults>>

(* A statement fails; a failed commit may have been applied *)
UpsertFails(r) ==
  /\ Attempting(r) /\ step[r] \notin {"won", "lost"}
  /\ Fault
  /\ UNCHANGED rowVars \/ (ReadyToClaim(r) /\ Claimable(r) /\ Claim(r))
  /\ step' = [step EXCEPT ![r] = "lost"]
  /\ UNCHANGED <<age, lead, consumerVars, vacant>>

(* refreshState, then isLeader.Swap(true) *)
Promote(r) ==
  /\ step[r] = "won"
  /\ SetLead(r, TRUE)
  /\ vacant' = 0
  /\ step' = [step EXCEPT ![r] = "wait"]
  /\ UNCHANGED <<rowVars, age, astray, reload, workers, faults>>

(* mutant: zero rows, or an error, do not end our own leadership *)
DemoteNot(r) ==
  /\ step[r] = "lost"
  /\ step' = [step EXCEPT ![r] = "wait"]
  /\ UNCHANGED <<rowVars, age, lead, consumerVars, vacant, faults>>

(* demote, after zero rows or an error *)
Demote(r) ==
  /\ step[r] = "lost"
  /\ SetLead(r, FALSE)
  /\ step' = [step EXCEPT ![r] = "wait"]
  /\ UNCHANGED <<rowVars, age, astray, reload, workers, vacant, faults>>

-----------------------------------------------------------------------------
(* A Reload takes the handles of the executors that run *)
Begin(r, c) == reload' = [reload EXCEPT ![r][c] = "drain"]

(* The consumer in main: an event is taken only when the last is handled;  *)
(* StopAll or Reload follows.                                              *)
TakeEvent(r) ==
  /\ Up(r) /\ chan[r] # <<>> /\ reload[r]["consumer"] = "none"
  /\ chan' = [chan EXCEPT ![r] = Tail(@)]
  /\ IF Head(chan[r])
       THEN Begin(r, "consumer") /\ UNCHANGED workers
       ELSE workers' = [workers EXCEPT ![r] = FALSE] /\ UNCHANGED reload
  /\ astray' = [astray EXCEPT ![r] = FALSE]
  /\ UNCHANGED <<rowVars, step, age, lead, told, vacant, faults>>

(* A handler that edits a pipeline, or the reload endpoint, calls Reload   *)
(* without asking who leads.                                               *)
ApiReload(r, h) ==
  /\ r \in Watched /\ Up(r) /\ reload[r][h] = "none"
  /\ Begin(r, h)
  /\ UNCHANGED <<rowVars, step, age, lead, chan, told, astray, workers, vacant, faults>>

(* The executors whose handles it took are gone *)
Drained(r, c) ==
  /\ Up(r) /\ reload[r][c] = "drain"
  /\ reload' = [reload EXCEPT ![r][c] = "list"]
  /\ workers' = [workers EXCEPT ![r] = FALSE]
  /\ UNCHANGED <<rowVars, step, age, lead, chan, told, astray, vacant, faults>>

(* ListAll, and the starts.  A Reload still draining took the same handles: *)
(* it has nothing left to wait for, and the new ones are not among them.    *)
Started(r, c) ==
  /\ Up(r) /\ reload[r][c] = "list"
  /\ reload' = [reload EXCEPT ![r] =
       [d \in Callers |-> IF d = c THEN "none"
                          ELSE IF @[d] = "drain" THEN "list" ELSE @[d]]]
  /\ workers' = [workers EXCEPT ![r] = TRUE]
  /\ astray' = [astray EXCEPT ![r] = @ \/ (c \in Handlers /\ ~lead[r])]
  /\ UNCHANGED <<rowVars, step, age, lead, chan, told, vacant, faults>>

(* ListAll fails after the drain; the error is logged and not retried *)
ReloadFails(r, c) ==
  /\ Up(r) /\ reload[r][c] = "list"
  /\ Fault
  /\ reload' = [reload EXCEPT ![r][c] = "none"]
  /\ astray' = [astray EXCEPT ![r] = TRUE]
  /\ UNCHANGED <<rowVars, step, age, lead, chan, told, workers, vacant>>

(* The process ends: nothing of it is left but the row *)
Exit(r, how) ==
  /\ step' = [step EXCEPT ![r] = how]
  /\ age' = [age EXCEPT ![r] = 0]
  /\ lead' = [lead EXCEPT ![r] = FALSE]
  /\ chan' = [chan EXCEPT ![r] = <<>>]
  /\ told' = [told EXCEPT ![r] = FALSE]
  /\ astray' = [astray EXCEPT ![r] = FALSE]
  /\ reload' = [reload EXCEPT ![r] = [c \in Callers |-> "none"]]
  /\ workers' = [workers EXCEPT ![r] = FALSE]

(* SIGTERM: Run calls release with the context that was just cancelled, so *)
(* its UPDATE fails before it is sent.                                     *)
Shutdown(r) ==
  /\ step[r] \in {"wait", "out"}
  /\ Fault
  /\ Exit(r, "stopped")
  /\ UNCHANGED <<rowVars, vacant>>

Crash(r) ==
  /\ Up(r)
  /\ Fault
  /\ Exit(r, "crashed")
  /\ UNCHANGED <<rowVars, vacant>>

(* No replica that competes is overdue *)
OnTime(r) ==
  /\ step[r] = "wait" => age[r] < MaxWait
  /\ Attempting(r) => age[r] < Latency

(* The lease runs out, the next attempt comes and its statement runs; an   *)
(* attempt that began meanwhile may claim first and take as long again, and *)
(* on Postgres one that began too early may hold the advisory lock.        *)
OneTakeover ==
  TTL + 1 + MaxWait + 2 * Latency + (IF Postgres THEN Latency ELSE 0)

(* Any error or exit may cost all of it again: a replica that claims and   *)
(* exits leaves a row with a whole ttl ahead.                              *)
TakeoverTime(n) == OneTakeover * (1 + n)

Tick ==
  /\ \A r \in Replicas : OnTime(r)
  /\ rem' = IF rem > Floor THEN rem - 1 ELSE rem
  /\ age' = [r \in Replicas |-> IF Competes(r) THEN age[r] + 1 ELSE age[r]]
  /\ vacant' = IF /\ \A r \in Replicas : ~lead[r]
                  /\ \E r \in Replicas : Competes(r)
                  /\ vacant <= TakeoverTime(MaxFaults)
                 THEN vacant + 1 ELSE vacant
  /\ UNCHANGED <<holder, step, lead, consumerVars, faults>>

LeaseStep(r) ==
  Attempt(r) \/ AdvisoryLock(r) \/ Upsert(r) \/ UpsertFails(r) \/ Promote(r) \/ Demote(r)
ReloadStep(r, c) == Drained(r, c) \/ Started(r, c) \/ ReloadFails(r, c)

Next ==
  \/ \E r \in Replicas : LeaseStep(r) \/ TakeEvent(r)
  \/ \E r \in Replicas, c \in Callers : ReloadStep(r, c)
  \/ \E r \in Replicas, h \in Handlers : ApiReload(r, h)
  \/ \E r \in Replicas : Boot(r) \/ BootFails(r) \/ Shutdown(r) \/ Crash(r)
  \/ Tick

Spec == Init /\ [][Next]_vars

(* Statements return, the ticker fires, the consumer runs, time passes and *)
(* an exited process is started again.                                     *)
FairSpec ==
  /\ Spec
  /\ \A r \in Replicas :
       /\ WF_vars(LeaseStep(r)) /\ WF_vars(TakeEvent(r)) /\ WF_vars(Boot(r))
       /\ \A c \in Callers : WF_vars(ReloadStep(r, c))
  /\ WF_vars(Tick)

-----------------------------------------------------------------------------
(* A renewal is finished before the lease it renews runs out: what the     *)
(* comment of New asks of the choice of ttl.                               *)
Timely == Latency <= MaxWait /\ MaxWait + Latency <= TTL

(* leadership.go:1-3: the lease exists so that two replicas "don't both    *)
(* run the pipeline workers".  IsLeader is true on one of them at most.    *)
AtMostOneLeader ==
  \A r, q \in Replicas : lead[r] /\ lead[q] => r = q

(* A replica that believes it leads holds the row, and the row is still    *)
(* valid: isLeader has no expiry of its own, only the renewal resets it.   *)
LeaderHoldsLease ==
  \A r \in Replicas : lead[r] => holder = r /\ rem >= 0

(* A lease nobody renews is taken over within a ttl, a tick and what the   *)
(* statements take, and as long again for each error or exit, as long as   *)
(* some replica competes: one whose migration failed at boot does not.     *)
(* OPERATIONS.md:262-264 promises a shorter time, "Worst-case takeover is  *)
(* `ttl + tick`".                                                          *)
TakeoverBound ==
  vacant <= TakeoverTime(faults)

(* main.go:468-471: once a replica's consumer has caught up and no Reload  *)
(* is under way, its manager has executors exactly if it leads, whatever   *)
(* the interleaving of role changes, drains, failures and handlers'        *)
(* Reloads, unless the event of its last role change was dropped, or since *)
(* that event a Reload failed after its drain or a handler started         *)
(* executors behind the lease's back.                                      *)
CaughtUp(r) == Up(r) /\ chan[r] = <<>> /\ \A c \in Callers : reload[r][c] = "none"
ConsumerFollows ==
  \A r \in Watched :
    CaughtUp(r) /\ told[r] = lead[r] /\ ~astray[r] => workers[r] = lead[r]

(* main.go:468-471, "this replica only starts pipeline workers while it    *)
(* holds the lease - other replicas pointed at the same database stay idle *)
(* so the same source queue isn't double-consumed".                        *)
OnlyLeaderWorks ==
  \A r \in Replicas : CaughtUp(r) /\ workers[r] => lead[r]

(* OPERATIONS.md:260, "A clean shutdown clears the lease so a standby      *)
(* promotes within one tick".                                              *)
CleanShutdownClears ==
  \A r \in Replicas : step[r] = "stopped" => holder # r

(* Somebody leads again and again, unless the migration failed at every    *)
(* boot.  Not for good: on Postgres a standby that holds the advisory      *)
(* lock, only to find that it may not claim, makes a leader that renews at *)
(* that moment step down.                                                  *)
SomebodyLeads ==
  []<>((\E r \in Replicas : lead[r]) \/ (\A r \in Replicas : step[r] = "out"))

(* A replica that does not lead any more stops its workers,                *)
(* however many role changes its consumer was too slow for.                *)
LosersStop == \A r \in Replicas : []<>(workers[r] => lead[r])
=============================================================================
