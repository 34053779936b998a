------------------------------- MODULE Manager -------------------------------
(***************************************************************************)
(* The pipeline manager (src/internal/pipeline/manager.go): Reload, Stop,  *)
(* StopAll and StopAndWait, the goroutine of each executor, the `active'   *)
(* map they share under m.mu, and the two stores an executor leaves marks  *)
(* in under its pipeline's ID: the metrics store and the circuit cache.    *)
(*                                                                         *)
(* Reload holds the mutex only while it snapshots the handles, so any      *)
(* number of Reloads, a StopAll and the executors' unwinding interleave.   *)
(* Every HTTP handler that edits a pipeline starts a Reload in a goroutine *)
(* of its own; the leadership consumer calls Reload and StopAll in turn.   *)
(***************************************************************************)
EXTENDS Naturals, FiniteSets

CONSTANTS Pipelines,    \* pipeline IDs
          Handles,      \* executorHandle values; one is used per start
          PipeOf,       \* the pipeline each handle is made for
          NoHandle,     \* nil
          Callers,      \* goroutines that call Reload
          Consumer,     \* of those, the leadership consumer, if any
          MaxCalls      \* bound on the number of calls of Reload

ASSUME HandlesAssumption ==
  NoHandle \notin Handles /\ PipeOf \in [Handles -> Pipelines]
ASSUME CallsAssumption == MaxCalls \in Nat

VARIABLES
  stopped,      \* Manager.stopped
  active,       \* Manager.active
  phase,        \* how far the goroutine of a handle has come
  cancelled,    \* handles whose cancel was called
  rootDone,     \* the parent context is cancelled (SIGTERM)
  registered,   \* pipelines with an entry in the metrics store
  circuit,      \* Manager.breakerState: which executor's token is cached
  enabled,      \* storage: pipelines with Enabled = true
  pc,           \* where each caller is in Reload
  old,          \* Reload's oldHandles that are still to be drained
  hand,         \* the handle a caller waits on, or is about to run
  todo,         \* pipelines Reload has yet to start
  drain,        \* StopAndWait: "no", "waiting", "clean" or "timeout"
  calls,
  disturbed     \* a Reload began during another, or StopAll was called (history)

reloadVars == <<pc, old, hand, todo, calls, disturbed>>
executorVars == <<phase, registered, circuit>>
stopVars == <<stopped, drain, rootDone>>
vars == <<reloadVars, executorVars, stopVars, active, cancelled, enabled>>

Phases == {"unborn", "armed", "spawned", "running", "unregistered", "removed",
           "cleared", "gone"}
Labels == {"idle", "call", "drain", "wait", "list", "start", "spawn"}

TypeOK ==
  /\ stopped \in BOOLEAN /\ rootDone \in BOOLEAN
  /\ active \in [Pipelines -> Handles \cup {NoHandle}]
  /\ phase \in [Handles -> Phases]
  /\ cancelled \in SUBSET Handles
  /\ registered \in SUBSET Pipelines
  /\ circuit \in [Pipelines -> Handles \cup {NoHandle}]
  /\ enabled \in SUBSET Pipelines
  /\ pc \in [Callers -> Labels]
  /\ old \in [Callers -> SUBSET Handles]
  /\ hand \in [Callers -> Handles \cup {NoHandle}]
  /\ todo \in [Callers -> SUBSET Pipelines]
  /\ drain \in {"no", "waiting", "clean", "timeout"}
  /\ calls \in Nat /\ disturbed \in BOOLEAN

Init ==
  /\ stopped = FALSE /\ rootDone = FALSE
  /\ active = [p \in Pipelines |-> NoHandle]
  /\ phase = [h \in Handles |-> "unborn"]
  /\ cancelled = {}
  /\ registered = {}
  /\ circuit = [p \in Pipelines |-> NoHandle]
  /\ enabled = Pipelines
  /\ pc = [c \in Callers |-> "idle"]
  /\ old = [c \in Callers |-> {}]
  /\ hand = [c \in Callers |-> NoHandle]
  /\ todo = [c \in Callers |-> {}]
  /\ drain = "no"
  /\ calls = 0 /\ disturbed = FALSE
-----------------------------------------------------------------------------
Goto(c, label) == pc' = [pc EXCEPT ![c] = label]
Return(c) ==
  /\ Goto(c, "idle")
  /\ todo' = [todo EXCEPT ![c] = {}]

(* Handles in the active map *)
ActiveHandles == {active[p] : p \in Pipelines} \ {NoHandle}

(* A goroutine is about to call Reload: the leadership consumer, the       *)
(* reload endpoint, or a handler after its edit of a pipeline.             *)
Call(c) ==
  /\ pc[c] = "idle" /\ calls < MaxCalls
  /\ calls' = calls + 1
  /\ disturbed' = (disturbed \/ \E d \in Callers \ {c} : pc[d] # "idle")
  /\ Goto(c, "call")
  /\ \/ UNCHANGED enabled
     \/ /\ c # Consumer
        /\ \E p \in Pipelines : enabled' \in {enabled \cup {p}, enabled \ {p}}
  /\ UNCHANGED <<executorVars, stopVars, active, cancelled, old, hand, todo>>

(* Reload, first critical section: refuse if stopped, else snapshot *)
Snapshot(c) ==
  /\ pc[c] = "call"
  /\ IF stopped
       THEN Return(c) /\ UNCHANGED old
       ELSE /\ old' = [old EXCEPT ![c] = ActiveHandles]
            /\ Goto(c, IF ActiveHandles = {} THEN "list" ELSE "drain")
            /\ UNCHANGED todo
  /\ UNCHANGED <<executorVars, stopVars, active, cancelled, enabled, hand, calls,
                 disturbed>>

(* h.cancel(): the next handle is cancelled only after the one before is done *)
DrainCancel(c) ==
  /\ pc[c] = "drain"
  /\ \E h \in old[c] :
       /\ cancelled' = cancelled \cup {h}
       /\ hand' = [hand EXCEPT ![c] = h]
  /\ Goto(c, "wait")
  /\ UNCHANGED <<executorVars, stopVars, active, enabled, old, todo, calls, disturbed>>

(* mutant: Reload does not wait for the old executor *)
DrainWaitNot(c) ==
  /\ pc[c] = "wait"
  /\ old' = [old EXCEPT ![c] = @ \ {hand[c]}]
  /\ hand' = [hand EXCEPT ![c] = NoHandle]
  /\ Goto(c, IF old[c] = {hand[c]} THEN "list" ELSE "drain")
  /\ UNCHANGED <<executorVars, stopVars, active, cancelled, enabled, todo, calls,
                 disturbed>>

(* mutant: Reload watches the map entry instead of the done channel *)
DrainWaitsForMap(c) ==
  /\ pc[c] = "wait"
  /\ active[PipeOf[hand[c]]] = NoHandle
  /\ old' = [old EXCEPT ![c] = @ \ {hand[c]}]
  /\ hand' = [hand EXCEPT ![c] = NoHandle]
  /\ Goto(c, IF old[c] = {hand[c]} THEN "list" ELSE "drain")
  /\ UNCHANGED <<executorVars, stopVars, active, cancelled, enabled, todo, calls,
                 disturbed>>

(* <-h.done *)
DrainWait(c) ==
  /\ pc[c] = "wait"
  /\ phase[hand[c]] = "gone"
  /\ old' = [old EXCEPT ![c] = @ \ {hand[c]}]
  /\ hand' = [hand EXCEPT ![c] = NoHandle]
  /\ Goto(c, IF old[c] = {hand[c]} THEN "list" ELSE "drain")
  /\ UNCHANGED <<executorVars, stopVars, active, cancelled, enabled, todo, calls,
                 disturbed>>

(* Pipelines.ListAll, and the rows that are enabled; an error ends Reload *)
ListAll(c) ==
  /\ pc[c] = "list"
  /\ \/ todo' = [todo EXCEPT ![c] = enabled] /\ Goto(c, "start")
     \/ Return(c)
  /\ UNCHANGED <<executorVars, stopVars, active, cancelled, enabled, old, hand,
                 calls, disturbed>>

(* startPipeline up to the second critical section: a row, connection,     *)
(* schema, plugin or route that does not load skips the pipeline; else a   *)
(* fresh handle replaces whatever the active map holds.                    *)
Arm(c) ==
  /\ pc[c] = "start"
  /\ \E p \in todo[c] :
       /\ todo' = [todo EXCEPT ![c] = @ \ {p}]
       /\ \/ UNCHANGED <<phase, active, hand, pc>>
          \/ \E h \in Handles :
               /\ phase[h] = "unborn" /\ PipeOf[h] = p
               /\ phase' = [phase EXCEPT ![h] = "armed"]
               /\ active' = [active EXCEPT ![p] = h]
               /\ hand' = [hand EXCEPT ![c] = h]
               /\ Goto(c, "spawn")
  /\ UNCHANGED <<stopVars, registered, circuit, cancelled, enabled, old,
                 calls, disturbed>>

(* wg.Add(1) and the go statement *)
Spawn(c) ==
  /\ pc[c] = "spawn"
  /\ phase' = [phase EXCEPT ![hand[c]] = "spawned"]
  /\ hand' = [hand EXCEPT ![c] = NoHandle]
  /\ Goto(c, "start")
  /\ UNCHANGED <<stopVars, registered, circuit, active, cancelled, enabled,
                 old, todo, calls, disturbed>>

ReloadReturn(c) ==
  /\ pc[c] = "start" /\ todo[c] = {}
  /\ Return(c)
  /\ UNCHANGED <<executorVars, stopVars, active, cancelled, enabled, old, hand,
                 calls, disturbed>>

-----------------------------------------------------------------------------
(* executor.Run begins: Metrics.Register *)
Register(h) ==
  /\ phase[h] = "spawned"
  /\ phase' = [phase EXCEPT ![h] = "running"]
  /\ registered' = registered \cup {PipeOf[h]}
  /\ UNCHANGED <<reloadVars, stopVars, circuit, active, cancelled, enabled>>

(* publishCircuitState, after any send *)
PublishCircuitState(h) ==
  /\ phase[h] = "running"
  /\ circuit' = [circuit EXCEPT ![PipeOf[h]] = h]
  /\ UNCHANGED <<reloadVars, stopVars, phase, registered, active, cancelled,
                 enabled>>

(* mutant: the executor's context does not derive from the parent's *)
UnregisterIgnoresRoot(h) ==
  /\ phase[h] = "running"
  /\ h \in cancelled
  /\ phase' = [phase EXCEPT ![h] = "unregistered"]
  /\ registered' = registered \ {PipeOf[h]}
  /\ UNCHANGED <<reloadVars, stopVars, circuit, active, cancelled, enabled>>

(* The context is cancelled, the workers have returned: Run's deferred     *)
(* Metrics.Unregister, which names the pipeline and not the executor.      *)
Unregister(h) ==
  /\ phase[h] = "running"
  /\ h \in cancelled \/ rootDone
  /\ phase' = [phase EXCEPT ![h] = "unregistered"]
  /\ registered' = registered \ {PipeOf[h]}
  /\ UNCHANGED <<reloadVars, stopVars, circuit, active, cancelled, enabled>>

(* mutant: the entry is left in the map *)
RemoveNone(h) ==
  /\ phase[h] = "unregistered"
  /\ phase' = [phase EXCEPT ![h] = "removed"]
  /\ UNCHANGED <<reloadVars, stopVars, registered, circuit, cancelled,
                 enabled, active>>

(* The goroutine's deferred delete, only of its own entry *)
Remove(h) ==
  /\ phase[h] = "unregistered"
  /\ phase' = [phase EXCEPT ![h] = "removed"]
  /\ active' = IF active[PipeOf[h]] = h
                 THEN [active EXCEPT ![PipeOf[h]] = NoHandle] ELSE active
  /\ UNCHANGED <<reloadVars, stopVars, registered, circuit, cancelled,
                 enabled>>

(* clearCircuitState, by pipeline ID *)
ClearCircuitState(h) ==
  /\ phase[h] = "removed"
  /\ phase' = [phase EXCEPT ![h] = "cleared"]
  /\ circuit' = [circuit EXCEPT ![PipeOf[h]] = NoHandle]
  /\ UNCHANGED <<reloadVars, stopVars, registered, active, cancelled,
                 enabled>>

(* close(handle.done), wg.Done() *)
CloseDone(h) ==
  /\ phase[h] = "cleared"
  /\ phase' = [phase EXCEPT ![h] = "gone"]
  /\ UNCHANGED <<reloadVars, stopVars, registered, circuit, active,
                 cancelled, enabled>>

-----------------------------------------------------------------------------
(* StopAll, called by the leadership consumer when the lease is lost *)
StopAll ==
  /\ Consumer \in Callers /\ pc[Consumer] = "idle" /\ ActiveHandles # {}
  /\ cancelled' = cancelled \cup ActiveHandles
  /\ active' = [p \in Pipelines |-> NoHandle]
  /\ disturbed' = TRUE
  /\ UNCHANGED <<pc, old, hand, todo, calls, executorVars, stopVars, enabled>>

(* Stop: StopAll that also refuses the Reloads to come *)
Stop ==
  /\ ~stopped
  /\ stopped' = TRUE
  /\ cancelled' = cancelled \cup ActiveHandles
  /\ active' = [p \in Pipelines |-> NoHandle]
  /\ UNCHANGED <<reloadVars, executorVars, rootDone, drain, enabled>>

(* SIGTERM cancels the context that every executor's context derives from *)
RootCancel ==
  /\ ~rootDone
  /\ rootDone' = TRUE
  /\ UNCHANGED <<reloadVars, executorVars, stopped, drain, active, cancelled,
                 enabled>>

(* StopAndWait, in main's deferred shutdown: cancel, leave the map alone *)
StopAndWait ==
  /\ rootDone /\ drain = "no"
  /\ stopped' = TRUE
  /\ cancelled' = cancelled \cup ActiveHandles
  /\ drain' = "waiting"
  /\ UNCHANGED <<reloadVars, executorVars, rootDone, active, enabled>>

(* executor goroutines that wg counts *)
Counted == {h \in Handles : phase[h] \in {"spawned", "running", "unregistered",
                                          "removed", "cleared"}}

WaitReturns ==
  /\ drain = "waiting"
  /\ drain' \in (IF Counted = {} THEN {"clean", "timeout"} ELSE {"timeout"})
  /\ UNCHANGED <<reloadVars, executorVars, stopped, rootDone, active, cancelled,
                 enabled>>

-----------------------------------------------------------------------------
ReloadStep(c) ==
  \/ Snapshot(c) \/ DrainCancel(c) \/ DrainWait(c) \/ ListAll(c) \/ Arm(c)
  \/ Spawn(c) \/ ReloadReturn(c)

(* What an executor's goroutine does without waiting for traffic *)
Unwind(h) ==
  \/ Register(h) \/ Unregister(h) \/ Remove(h) \/ ClearCircuitState(h)
  \/ CloseDone(h)

(* Nothing runs and nobody calls *)
Quiet ==
  /\ \A c \in Callers : pc[c] = "idle"
  /\ UNCHANGED vars

Next ==
  \/ \E c \in Callers : Call(c) \/ ReloadStep(c)
  \/ \E h \in Handles : Unwind(h) \/ PublishCircuitState(h)
  \/ StopAll
  \/ Stop
  \/ RootCancel
  \/ StopAndWait
  \/ WaitReturns
  \/ Quiet

Spec == Init /\ [][Next]_vars

(* Goroutines are scheduled, storage calls return, and a worker that is    *)
(* cancelled returns from its broker call.                                 *)
FairSpec ==
  /\ Spec
  /\ \A c \in Callers : WF_vars(ReloadStep(c))
  /\ \A h \in Handles : WF_vars(Unwind(h))

-----------------------------------------------------------------------------
(* Executors that consume messages, or are going to *)
Live(h) == phase[h] \in {"armed", "spawned", "running"}

(* manager.go:26, "Manager owns one Executor per enabled pipeline": no     *)
(* pipeline is consumed by two executors at once.  It holds until Reloads  *)
(* overlap or the lease is lost.                                           *)
OneExecutor ==
  \A h, k \in Handles :
     Live(h) /\ Live(k) /\ PipeOf[h] = PipeOf[k] => h = k

OneExecutorUndisturbed == ~disturbed => OneExecutor

(* manager.go:29-35: Reload's wait "closes a race where the old executor's *)
(* Unregister fired AFTER the new executor's Register and silently wiped   *)
(* the live registration off the metrics store".  It does under the same   *)
(* condition.                                                              *)
RegisteredWhileRunning ==
  \A h \in Handles : phase[h] = "running" => PipeOf[h] \in registered

RegisteredUndisturbed == ~disturbed => RegisteredWhileRunning

(* The active map holds no handle whose goroutine has cleaned up after     *)
(* itself, so a Reload never waits for nothing and ActiveCount is not      *)
(* inflated by the dead.                                                   *)
ActiveIsLive ==
  \A p \in Pipelines :
     active[p] # NoHandle =>
       /\ PipeOf[active[p]] = p
       /\ Live(active[p]) \/ phase[active[p]] = "unregistered"

(* manager.go:88-91: "entries are cleared when the executor unwinds so a   *)
(* stopped pipeline reports unknown rather than a stale token".            *)
NoStaleToken ==
  \A p \in Pipelines :
     circuit[p] # NoHandle =>
        phase[circuit[p]] \in {"running", "unregistered", "removed"}

(* StopAndWait "blocks until every executor goroutine has actually exited";*)
(* a clean drain means that none is left.                                  *)
CleanDrain ==
  drain = "clean" => \A h \in Handles : phase[h] \in {"unborn", "gone"}

(* Reload never hangs: every call returns, whatever else is called.        *)
ReloadReturns == \A c \in Callers : pc[c] = "call" ~> pc[c] = "idle"

(* After SIGTERM every executor exits, one that a Reload still under way   *)
(* starts late included.                                                   *)
ShutdownEnds ==
  \A h \in Handles : rootDone /\ Live(h) ~> phase[h] = "gone"
=============================================================================
