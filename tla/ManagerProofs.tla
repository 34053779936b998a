--------------------------- MODULE ManagerProofs ----------------------------
(***************************************************************************)
(* Two results about the manager, for any number of pipelines and handles. *)
(*                                                                         *)
(* MapExact: whatever calls interleave, the active map and the circuit     *)
(* cache never name an executor that has cleaned up after itself.          *)
(*                                                                         *)
(* SerialRegistration, SerialOneExecutor: as long as Reloads come one at a *)
(* time and nobody calls StopAll,                                          *)
(* the wait in Reload does what its comment says: no pipeline has two      *)
(* executors, and none loses its metrics registration.  The induction      *)
(* follows the busy handles (started and not yet removed): they are in the *)
(* map, then in oldHandles, then none is left, and then at most one for    *)
(* each pipeline that has been started.                                    *)
(***************************************************************************)
EXTENDS Manager, TLAPS

(* TypeOK restated without the counters that nothing depends on *)
MapTypes ==
  /\ active \in [Pipelines -> Handles \cup {NoHandle}]
  /\ phase \in [Handles -> Phases]
  /\ registered \in SUBSET Pipelines
  /\ circuit \in [Pipelines -> Handles \cup {NoHandle}]
  /\ pc \in [Callers -> Labels]
  /\ old \in [Callers -> SUBSET Handles]
  /\ hand \in [Callers -> Handles \cup {NoHandle}]
  /\ todo \in [Callers -> SUBSET Pipelines]
  /\ enabled \in SUBSET Pipelines
  /\ stopped \in BOOLEAN

(* A caller at the go statement holds a handle that is only armed, and no  *)
(* other caller holds the same one.                                        *)
HandsArmed ==
  \A c \in Callers : pc[c] = "spawn" =>
     /\ hand[c] \in Handles
     /\ phase[hand[c]] = "armed"
     /\ \A d \in Callers \ {c} : pc[d] = "spawn" => hand[d] # hand[c]

TokensOwned ==
  \A p \in Pipelines :
     circuit[p] # NoHandle =>
        /\ PipeOf[circuit[p]] = p
        /\ phase[circuit[p]] \in {"running", "unregistered", "removed"}

MapInv == MapTypes /\ HandsArmed /\ ActiveIsLive /\ TokensOwned

(* The map is empty before the first Reload *)
LEMMA MapInitial == Init => MapInv
  BY HandlesAssumption
     DEF Init, MapInv, MapTypes, HandsArmed, ActiveIsLive, TokensOwned, Phases,
         Labels

(* The handles of the snapshot are handles *)
LEMMA ActiveHandlesType ==
  ASSUME MapTypes
  PROVE  ActiveHandles \subseteq Handles
  BY DEF MapTypes, ActiveHandles

(* Steps of Reload before it starts anything, and of the stops *)
LEMMA MapKeptByCalls ==
  ASSUME MapInv,
         \/ \E c \in Callers : \/ Call(c) \/ Snapshot(c) \/ DrainCancel(c)
                               \/ DrainWait(c) \/ ListAll(c) \/ ReloadReturn(c)
         \/ StopAll \/ Stop \/ RootCancel \/ StopAndWait \/ WaitReturns \/ Quiet
         \/ UNCHANGED vars
  PROVE  MapInv'
<1> USE HandlesAssumption
<1>1. phase' = phase /\ circuit' = circuit
  BY DEF Call, Snapshot, DrainCancel, DrainWait, ListAll, ReloadReturn, StopAll,
         Stop, RootCancel, StopAndWait, WaitReturns, Quiet, vars, executorVars
<1>2. MapTypes'
  <2>1. CASE \E c \in Callers : Call(c)
    BY <2>1 DEF MapInv, MapTypes, Call, Goto, Labels, executorVars, stopVars
  <2>2. CASE \E c \in Callers : Snapshot(c)
    BY <2>2, ActiveHandlesType
       DEF MapInv, MapTypes, Snapshot, Return, Goto, Labels, executorVars, stopVars
  <2>3. CASE \E c \in Callers : DrainCancel(c) \/ DrainWait(c)
    BY <2>3 DEF MapInv, MapTypes, DrainCancel, DrainWait, Goto, Labels,
                executorVars, stopVars
  <2>4. CASE \E c \in Callers : ListAll(c) \/ ReloadReturn(c)
    BY <2>4 DEF MapInv, MapTypes, ListAll, ReloadReturn, Return, Goto, Labels,
                executorVars, stopVars
  <2>5. CASE StopAll \/ Stop \/ RootCancel \/ StopAndWait \/ WaitReturns
    BY <2>5 DEF MapInv, MapTypes, StopAll, Stop, RootCancel, StopAndWait,
                WaitReturns, executorVars, reloadVars, stopVars
  <2>6. CASE Quiet \/ UNCHANGED vars
    BY <2>6 DEF MapInv, MapTypes, Quiet, vars, executorVars, reloadVars, stopVars
  <2> QED BY <2>1, <2>2, <2>3, <2>4, <2>5, <2>6
<1>3. \A c \in Callers : pc'[c] = "spawn" => pc[c] = "spawn" /\ hand'[c] = hand[c]
  BY DEF MapInv, MapTypes, Call, Snapshot, DrainCancel, DrainWait, ListAll,
         ReloadReturn, Return, Goto, StopAll, Stop, RootCancel, StopAndWait,
         WaitReturns, Quiet, vars, reloadVars
<1>4. \A p \in Pipelines : active'[p] \in {active[p], NoHandle}
  BY DEF MapInv, MapTypes, Call, Snapshot, DrainCancel, DrainWait, ListAll,
         ReloadReturn, StopAll, Stop, RootCancel, StopAndWait, WaitReturns,
         Quiet, vars
<1> QED
  BY <1>1, <1>2, <1>3, <1>4
     DEF MapInv, MapTypes, HandsArmed, ActiveIsLive, TokensOwned, Live

(* Steps that move a handle from one phase to another *)
LEMMA MapKeptByHandles ==
  ASSUME MapInv,
         \/ \E c \in Callers : Arm(c) \/ Spawn(c)
         \/ \E h \in Handles : Unwind(h) \/ PublishCircuitState(h)
  PROVE  MapInv'
<1> USE HandlesAssumption DEF MapInv, MapTypes, Phases, Labels
<1>1. ASSUME NEW c \in Callers, Arm(c) PROVE MapInv'
  BY <1>1 DEF Arm, Goto, stopVars, HandsArmed, ActiveIsLive, TokensOwned, Live
<1>2. ASSUME NEW c \in Callers, Spawn(c) PROVE MapInv'
  BY <1>2 DEF Spawn, Goto, stopVars, HandsArmed, ActiveIsLive, TokensOwned, Live
<1>3. ASSUME NEW h \in Handles, Register(h) \/ Unregister(h) PROVE MapInv'
  BY <1>3 DEF Register, Unregister, reloadVars, stopVars, HandsArmed,
              ActiveIsLive, TokensOwned, Live
<1>4. ASSUME NEW h \in Handles, Remove(h) PROVE MapInv'
  BY <1>4 DEF Remove, reloadVars, stopVars, HandsArmed, ActiveIsLive,
              TokensOwned, Live
<1>5. ASSUME NEW h \in Handles, ClearCircuitState(h) PROVE MapInv'
  BY <1>5 DEF ClearCircuitState, reloadVars, stopVars, HandsArmed,
              ActiveIsLive, TokensOwned, Live
<1>6. ASSUME NEW h \in Handles, CloseDone(h) PROVE MapInv'
  BY <1>6 DEF CloseDone, reloadVars, stopVars, HandsArmed,
              ActiveIsLive, TokensOwned, Live
<1>7. ASSUME NEW h \in Handles, PublishCircuitState(h) PROVE MapInv'
  BY <1>7 DEF PublishCircuitState, reloadVars, stopVars, HandsArmed,
              ActiveIsLive, TokensOwned, Live
<1> QED BY <1>1, <1>2, <1>3, <1>4, <1>5, <1>6, <1>7 DEF Unwind

(* Every step keeps the map invariant *)
LEMMA MapStepKeeps == MapInv /\ [Next]_vars => MapInv'
  BY MapKeptByCalls, MapKeptByHandles DEF Next, ReloadStep, Unwind

(* The invariant holds in every reachable state *)
LEMMA MapInvariant == Spec => []MapInv
  BY MapInitial, MapStepKeeps, PTL DEF Spec

(* What the stops and the calls change besides *)
CallTypes ==
  /\ rootDone \in BOOLEAN /\ disturbed \in BOOLEAN
  /\ drain \in {"no", "waiting", "clean", "timeout"}
  /\ cancelled \in SUBSET Handles /\ calls \in Nat

LEMMA CallTypesKept ==
  ASSUME MapInv, CallTypes, [Next]_vars
  PROVE  CallTypes'
<1>1. ASSUME NEW c \in Callers, Call(c) PROVE CallTypes'
  <2>1. disturbed' \in BOOLEAN
    BY <1>1 DEF CallTypes, Call
  <2> QED BY <1>1, <2>1 DEF CallTypes, Call, stopVars
<1>2. ASSUME NEW c \in Callers, DrainCancel(c) PROVE CallTypes'
  BY <1>2 DEF MapInv, MapTypes, CallTypes, DrainCancel, stopVars
<1>3. ASSUME NEW c \in Callers,
             Snapshot(c) \/ DrainWait(c) \/ ListAll(c) \/ Arm(c) \/ Spawn(c) \/ ReloadReturn(c)
      PROVE  CallTypes'
  BY <1>3 DEF CallTypes, Snapshot, DrainWait, ListAll, Arm, Spawn, ReloadReturn, stopVars
<1>4. ASSUME NEW h \in Handles, Unwind(h) \/ PublishCircuitState(h) PROVE CallTypes'
  BY <1>4 DEF CallTypes, Unwind, Register, Unregister, Remove, ClearCircuitState,
              CloseDone, PublishCircuitState, reloadVars, stopVars
<1>5. CASE StopAll \/ Stop \/ StopAndWait
  BY <1>5, ActiveHandlesType
     DEF MapInv, CallTypes, StopAll, Stop, StopAndWait, reloadVars, stopVars
<1>6. CASE RootCancel \/ WaitReturns
  BY <1>6 DEF CallTypes, RootCancel, WaitReturns, reloadVars
<1>7. CASE Quiet \/ UNCHANGED vars
  BY <1>7 DEF CallTypes, Quiet, vars, reloadVars, stopVars
<1> QED BY <1>1, <1>2, <1>3, <1>4, <1>5, <1>6, <1>7 DEF Next, ReloadStep

(* The types of the manager: whatever callers interleave, a handle is      *)
(* where Reload, the executors and the stops expect one.                   *)
THEOREM ManagerTypes == Spec => []TypeOK
<1>1. Init => CallTypes
  <2>1. Init => cancelled \in SUBSET Handles /\ calls \in Nat
    BY DEF Init
  <2>2. Init => /\ rootDone \in BOOLEAN /\ disturbed \in BOOLEAN
                /\ drain \in {"no", "waiting", "clean", "timeout"}
    BY Zenon DEF Init
  <2> QED BY <2>1, <2>2 DEF CallTypes
<1>2. MapInv /\ CallTypes => TypeOK
  BY DEF MapInv, MapTypes, CallTypes, TypeOK
<1>3. MapInv /\ CallTypes /\ [Next]_vars => CallTypes'
  BY CallTypesKept
<1> QED BY <1>1, <1>2, <1>3, MapInvariant, PTL DEF Spec

(* Under any interleaving of Reloads, stops and unwinding executors, the   *)
(* active map holds no handle whose goroutine has already cleaned up.      *)
THEOREM MapExact == Spec => []ActiveIsLive
  BY MapInvariant, PTL DEF MapInv

(* No stopped executor's circuit token stays in the cache.                 *)
THEOREM TokensFresh == Spec => []NoStaleToken
<1>1. MapInv => NoStaleToken
  BY DEF MapInv, TokensOwned, NoStaleToken
<1> QED BY <1>1, MapInvariant, PTL

-----------------------------------------------------------------------------
(* At most one Reload is under way *)
OneReload == \A c, d \in Callers : pc[c] # "idle" /\ pc[d] # "idle" => c = d

(* Started and not yet out of the map *)
Busy(h) == phase[h] \in {"armed", "spawned", "running", "unregistered"}

OneBusy ==
  \A h, k \in Handles : Busy(h) /\ Busy(k) /\ PipeOf[h] = PipeOf[k] => h = k

BusyMapped == ~stopped => \A h \in Handles : Busy(h) => active[PipeOf[h]] = h

(* Where the busy handles are while Reload runs *)
Drained ==
  \A c \in Callers, h \in Handles :
     Busy(h) =>
       /\ pc[c] \in {"drain", "wait"} => h \in old[c]
       /\ pc[c] # "list"
       /\ pc[c] \in {"start", "spawn"} => PipeOf[h] \notin todo[c]

Serial == OneReload /\ OneBusy /\ BusyMapped /\ Drained /\ RegisteredWhileRunning

SerialInv == MapInv /\ disturbed \in BOOLEAN /\ (~disturbed => Serial)

(* No handle is busy before the first Reload *)
LEMMA SerialInitial == Init => SerialInv
  BY MapInitial
     DEF Init, SerialInv, Serial, OneReload, OneBusy, BusyMapped, Drained,
         RegisteredWhileRunning, Busy

(* Nothing makes up for a disturbance, and only Call and StopAll cause one *)
LEMMA DisturbedStays ==
  ASSUME SerialInv, [Next]_vars
  PROVE  disturbed' \in BOOLEAN /\ (~disturbed' => ~disturbed)
<1>1. ASSUME NEW c \in Callers, Call(c) \/ ReloadStep(c)
      PROVE  disturbed' \in BOOLEAN /\ (~disturbed' => ~disturbed)
  BY <1>1 DEF SerialInv, Call, ReloadStep, Snapshot, DrainCancel, DrainWait, ListAll, Arm,
              Spawn, ReloadReturn
<1>2. ASSUME NEW h \in Handles, Unwind(h) \/ PublishCircuitState(h)
      PROVE  UNCHANGED disturbed
  BY <1>2 DEF Unwind, Register, Unregister, Remove, ClearCircuitState, CloseDone,
              PublishCircuitState, reloadVars
<1>3. CASE StopAll
  BY <1>3 DEF StopAll
<1>4. CASE Stop \/ RootCancel \/ StopAndWait \/ WaitReturns \/ Quiet \/ UNCHANGED vars
  BY <1>4 DEF SerialInv, Stop, RootCancel, StopAndWait, WaitReturns, Quiet, vars, reloadVars
<1> QED
  BY <1>1, <1>2, <1>3, <1>4 DEF Next, SerialInv

(* Every step keeps the serial invariant *)
LEMMA SerialStepKeeps ==
  ASSUME SerialInv, [Next]_vars
  PROVE  SerialInv'
<1> USE HandlesAssumption
<1>0. MapInv /\ MapInv' /\ disturbed' \in BOOLEAN
  BY MapStepKeeps, DisturbedStays DEF SerialInv
<1> SUFFICES ASSUME ~disturbed' PROVE Serial'
  BY <1>0 DEF SerialInv
<1>9. Serial
  BY DisturbedStays DEF SerialInv
<1>1. ASSUME NEW c \in Callers, Call(c)
      PROVE  Serial'
  BY <1>0, <1>1, <1>9
     DEF Serial, MapInv, MapTypes, OneReload, OneBusy, BusyMapped, Drained,
         RegisteredWhileRunning, Busy, Call, Goto, executorVars, stopVars
<1>a. ASSUME NEW c \in Callers,
             DrainCancel(c) \/ ListAll(c) \/ ReloadReturn(c)
      PROVE  Serial'
  BY <1>0, <1>a, <1>9
     DEF Serial, MapInv, MapTypes, OneReload, OneBusy, BusyMapped, Drained,
         RegisteredWhileRunning, Busy, DrainCancel, ListAll, ReloadReturn,
         Return, Goto, executorVars, stopVars
<1>2. ASSUME NEW c \in Callers, Snapshot(c) PROVE Serial'
  <2>1. ~stopped => \A h \in Handles : Busy(h) => h \in ActiveHandles
    BY <1>9, <1>0 DEF Serial, BusyMapped, ActiveHandles, MapInv, MapTypes
  <2> QED
    BY <1>0, <1>2, <1>9, <2>1
       DEF Serial, MapInv, MapTypes, OneReload, OneBusy, BusyMapped, Drained,
           RegisteredWhileRunning, Busy, Snapshot, Return, Goto, executorVars, stopVars
<1>3. ASSUME NEW c \in Callers, DrainWait(c) PROVE Serial'
  BY <1>0, <1>3, <1>9
     DEF Serial, MapInv, MapTypes, OneReload, OneBusy, BusyMapped, Drained,
         RegisteredWhileRunning, Busy, DrainWait, Goto, executorVars, stopVars
<1>4. ASSUME NEW c \in Callers, Arm(c) PROVE Serial'
  BY <1>0, <1>4, <1>9
     DEF Serial, MapInv, MapTypes, OneReload, OneBusy, BusyMapped, Drained,
         RegisteredWhileRunning, Busy, Arm, Goto, stopVars, Phases
<1>5. ASSUME NEW c \in Callers, Spawn(c) PROVE Serial'
  BY <1>0, <1>5, <1>9
     DEF Serial, MapInv, MapTypes, OneReload, OneBusy, BusyMapped, Drained, HandsArmed,
         RegisteredWhileRunning, Busy, Spawn, Goto, stopVars, Phases
<1>6. ASSUME NEW h \in Handles, Unwind(h) \/ PublishCircuitState(h)
      PROVE  Serial'
  <2>1. CASE Register(h) \/ Unregister(h)
    BY <1>0, <2>1, <1>9
       DEF Serial, MapInv, MapTypes, OneReload, OneBusy, BusyMapped, Drained,
           RegisteredWhileRunning, Busy, Register, Unregister, reloadVars, stopVars
  <2>2. CASE Remove(h)
    BY <1>0, <2>2, <1>9
       DEF Serial, MapInv, MapTypes, OneReload, OneBusy, BusyMapped, Drained,
           RegisteredWhileRunning, Busy, Remove, reloadVars, stopVars
  <2>3. CASE ClearCircuitState(h) \/ CloseDone(h) \/ PublishCircuitState(h)
    BY <1>0, <2>3, <1>9
       DEF Serial, MapInv, MapTypes, OneReload, OneBusy, BusyMapped, Drained,
           RegisteredWhileRunning, Busy, ClearCircuitState, CloseDone,
           PublishCircuitState, reloadVars, stopVars
  <2> QED BY <1>6, <2>1, <2>2, <2>3 DEF Unwind
<1>7. CASE Stop \/ RootCancel \/ StopAndWait \/ WaitReturns
  BY <1>0, <1>7, <1>9
     DEF Serial, OneReload, OneBusy, BusyMapped, Drained, RegisteredWhileRunning, Busy,
         Stop, RootCancel, StopAndWait, WaitReturns, reloadVars, executorVars
<1>8. CASE Quiet \/ UNCHANGED vars
  BY <1>0, <1>8, <1>9
     DEF Serial, OneReload, OneBusy, BusyMapped, Drained, RegisteredWhileRunning, Busy,
         Quiet, vars, reloadVars, executorVars, stopVars
<1>b. CASE StopAll
  BY <1>b DEF StopAll
<1> QED
  BY <1>1, <1>2, <1>3, <1>4, <1>5, <1>6, <1>7, <1>8, <1>a, <1>b
     DEF Next, ReloadStep

(* Until Reloads overlap or StopAll is called, a running executor keeps    *)
(* its metrics registration: the wait on done closes the race that the     *)
(* comment of executorHandle describes.                                    *)
THEOREM SerialRegistration == Spec => []RegisteredUndisturbed
<1>1. SerialInv => RegisteredUndisturbed
  BY DEF SerialInv, Serial, RegisteredUndisturbed
<1> QED BY <1>1, SerialInitial, SerialStepKeeps, PTL DEF Spec

(* Under the same condition a pipeline never has two executors.            *)
THEOREM SerialOneExecutor == Spec => []OneExecutorUndisturbed
<1>1. SerialInv => OneExecutorUndisturbed
  BY DEF SerialInv, Serial, OneBusy, OneExecutor, OneExecutorUndisturbed, Busy, Live
<1> QED BY <1>1, SerialInitial, SerialStepKeeps, PTL DEF Spec
=============================================================================
