-------------------------------- MODULE Pool --------------------------------
(***************************************************************************)
(* The connection pool (src/internal/mq/pool.go): a map from an opaque key *)
(* to an entry, each entry a connector and a mutex.  Get looks the entry   *)
(* up under the pool's mutex, lets go of it, and only then waits for the   *)
(* entry's; the sweeper and Close do the same in the other direction.  All *)
(* the races of the pool live in the gap between the two mutexes, so every *)
(* critical section is one step here.                                      *)
(*                                                                         *)
(* A connector is "closed", "live", or "dead": its broker is gone but the  *)
(* handle does not know yet.  Connectors are numbered in the order New     *)
(* makes them, at most MaxConns.  Pool.Release has no caller outside the   *)
(* tests and is left out.                                                  *)
(***************************************************************************)
EXTENDS Integers, FiniteSets

CONSTANTS Keys,          \* pool keys: source-<id>, dest-<id>, route-<id>, ...
          Callers,       \* goroutines that call Get
          MaxConns,      \* bound on connectors made
          ConnectFails,  \* whether a dial can fail
          Brokers        \* whether a broker can drop a connection

ASSUME PoolAssumption ==
  /\ IsFiniteSet(Keys) /\ IsFiniteSet(Callers)
  /\ MaxConns \in Nat
  /\ ConnectFails \in BOOLEAN /\ Brokers \in BOOLEAN

Conns == 1 .. MaxConns
None == 0

(* An unlocked entry.  The sweeper and Close lock, disconnect and unlock   *)
(* in one step, so only callers are seen to hold an entry.                 *)
Free == "free"
NoKey == "none"
ASSUME FreeAssumption == Free \notin Callers /\ NoKey \notin Keys

VARIABLES entries,       \* Pool.entries
          stopped,       \* Pool.stopped
          made,          \* connectors made so far
          conn,          \* state of its broker connection
          lock,          \* holder of its poolEntry.mu
          idle,          \* lastUsed is longer ago than idleTimeout; it is the
                         \* zero time until the first Get has the lock
          pc, key, mine, \* callers: step, key asked for, entry found
          toCheck,       \* runSweep: entries still to look at
          doomed,        \* runSweep: key to delete after the unlock
          closing,       \* Close: connectors still to disconnect
          edited         \* the connectors made before the last edit of the
                         \* stored configuration are those up to this one

poolVars == <<entries, stopped, made, conn, lock, idle, pc, key, mine, toCheck,
          doomed, closing, edited>>

Links == {"closed", "live", "dead"}
Steps == {"out", "lock", "connect", "using", "evict", "drop"}

PoolTypeOK ==
  /\ entries \in [Keys -> Conns \cup {None}] /\ stopped \in BOOLEAN
  /\ made \in 0 .. MaxConns
  /\ conn \in [Conns -> Links] /\ lock \in [Conns -> Callers \cup {Free}]
  /\ idle \in [Conns -> BOOLEAN]
  /\ pc \in [Callers -> Steps] /\ key \in [Callers -> Keys \cup {NoKey}]
  /\ mine \in [Callers -> Conns \cup {None}]
  /\ toCheck \in SUBSET (Keys \X Conns) /\ doomed \in SUBSET Keys
  /\ closing \in SUBSET Conns /\ edited \in 0 .. made
  \* nothing points to a connector that was never made
  /\ \A k \in Keys : entries[k] <= made

PoolInit ==
  /\ entries = [k \in Keys |-> None] /\ stopped = FALSE
  /\ made = 0 /\ edited = 0
  /\ conn = [c \in Conns |-> "closed"] /\ lock = [c \in Conns |-> Free]
  /\ idle = [c \in Conns |-> TRUE]
  /\ pc = [a \in Callers |-> "out"] /\ mine = [a \in Callers |-> None]
  /\ key = [a \in Callers |-> NoKey]
  /\ toCheck = {} /\ doomed = {} /\ closing = {}

pool == <<entries, stopped, made>>
sweep == <<toCheck, doomed>>

-----------------------------------------------------------------------------
(* Pool.Get *)

(* Under the pool's mutex.  A hit ignores the configuration it is given. *)
Get(a) ==
  /\ pc[a] = "out" /\ ~stopped
  /\ \E k \in Keys :
       /\ key' = [key EXCEPT ![a] = k]
       /\ \/ entries[k] # None /\ mine' = [mine EXCEPT ![a] = entries[k]]
             /\ UNCHANGED <<entries, made>>
          \/ /\ entries[k] = None /\ made < MaxConns
             /\ made' = made + 1
             /\ entries' = [entries EXCEPT ![k] = made + 1]
             /\ mine' = [mine EXCEPT ![a] = made + 1]
  /\ pc' = [pc EXCEPT ![a] = "lock"]
  /\ UNCHANGED <<stopped, conn, lock, idle, sweep, closing, edited>>
(* mutant: the entry's mutex is shared by readers *)
LockShared(a) ==
  /\ pc[a] = "lock"
  /\ lock' = [lock EXCEPT ![mine[a]] = a]
  /\ idle' = [idle EXCEPT ![mine[a]] = FALSE]
  /\ pc' = [pc EXCEPT ![a] = "connect"]
  /\ UNCHANGED <<pool, conn, key, mine, sweep, closing, edited>>
(* entry.mu.Lock() *)
Lock(a) ==
  /\ pc[a] = "lock" /\ lock[mine[a]] = Free
  /\ lock' = [lock EXCEPT ![mine[a]] = a]
  /\ idle' = [idle EXCEPT ![mine[a]] = FALSE]
  /\ pc' = [pc EXCEPT ![a] = "connect"]
  /\ UNCHANGED <<pool, conn, key, mine, sweep, closing, edited>>

(* Connect: nothing to do when connected; a handle that does not know its  *)
(* broker is gone takes that for connected, or redials                     *)
GetConnects(a) ==
  /\ pc[a] = "connect"
  /\ conn' \in {[conn EXCEPT ![mine[a]] = l] :
                  l \in IF conn[mine[a]] = "dead" THEN {"live", "dead"} ELSE {"live"}}
  /\ pc' = [pc EXCEPT ![a] = "using"]
  /\ UNCHANGED <<pool, lock, idle, key, mine, sweep, closing, edited>>

(* mutant: the error path returns with the entry locked *)
GetFailsKeepsLock(a) ==
  /\ ConnectFails /\ pc[a] = "connect" /\ conn[mine[a]] # "live"
  /\ pc' = [pc EXCEPT ![a] = "evict"]
  /\ UNCHANGED <<pool, conn, lock, idle, key, mine, sweep, closing, edited>>
GetFails(a) ==
  /\ ConnectFails /\ pc[a] = "connect" /\ conn[mine[a]] # "live"
  /\ lock' = [lock EXCEPT ![mine[a]] = Free]
  /\ pc' = [pc EXCEPT ![a] = "evict"]
  /\ UNCHANGED <<pool, conn, idle, key, mine, sweep, closing, edited>>

(* The failed entry is removed if the key still holds it, then ... *)
GetEvicts(a) ==
  /\ pc[a] = "evict"
  /\ entries' = IF entries[key[a]] = mine[a]
                THEN [entries EXCEPT ![key[a]] = None] ELSE entries
  /\ pc' = [pc EXCEPT ![a] = "drop"]
  /\ UNCHANGED <<stopped, made, conn, lock, idle, key, mine, sweep, closing, edited>>

Leave(a) ==
  /\ pc' = [pc EXCEPT ![a] = "out"]
  /\ key' = [key EXCEPT ![a] = NoKey]
  /\ mine' = [mine EXCEPT ![a] = None]

(* ... disconnected, without its mutex *)
Drop(a) ==
  /\ pc[a] = "drop"
  /\ conn' = [conn EXCEPT ![mine[a]] = "closed"]
  /\ Leave(a)
  /\ UNCHANGED <<pool, lock, idle, sweep, closing, edited>>

(* The release function Get returned *)
Release(a) ==
  /\ pc[a] = "using"
  /\ lock' = [lock EXCEPT ![mine[a]] = Free]
  /\ idle' = [idle EXCEPT ![mine[a]] = FALSE]
  /\ Leave(a)
  /\ UNCHANGED <<pool, conn, sweep, closing, edited>>

-----------------------------------------------------------------------------
(* runSweep *)

(* The snapshot, under the pool's mutex *)
SweepStart ==
  /\ ~stopped /\ toCheck = {} /\ doomed = {}
  /\ toCheck' = {e \in Keys \X Conns : entries[e[1]] = e[2]}
  /\ toCheck' # {}
  /\ UNCHANGED <<pool, conn, lock, idle, pc, key, mine, doomed, closing, edited>>

(* mutant: the sweeper does not try the entry's mutex first *)
TryLockAlways(c) == TRUE
TryLock(c) == lock[c] = Free

(* Idle, or Ping fails; the Pings of some transports only look at the      *)
(* handle, and pass for a connection whose broker is gone.                 *)
Evictable(c) == idle[c] \/ conn[c] # "live"
Answers(c) == ~idle[c] /\ conn[c] # "closed"

(* One entry: skipped while in use; kept when used lately and answering;   *)
(* otherwise disconnected, and its key deleted after the unlock            *)
SweepEntry ==
  /\ doomed = {}
  /\ \E e \in toCheck :
       /\ toCheck' = toCheck \ {e}
       /\ \/ /\ TryLock(e[2]) /\ Evictable(e[2])
             /\ conn' = [conn EXCEPT ![e[2]] = "closed"]
             /\ doomed' = {e[1]}
          \/ /\ ~TryLock(e[2]) \/ Answers(e[2])
             /\ UNCHANGED <<conn, doomed>>
  /\ UNCHANGED <<pool, lock, idle, pc, key, mine, closing, edited>>

(* delete(p.entries, id): whatever the key holds by now *)
SweepDelete ==
  /\ doomed # {}
  /\ entries' = [k \in Keys |-> IF k \in doomed THEN None ELSE entries[k]]
  /\ doomed' = {}
  /\ UNCHANGED <<stopped, made, conn, lock, idle, pc, key, mine, toCheck, closing, edited>>

-----------------------------------------------------------------------------
(* Close: the map is emptied at once, the connectors disconnected one by   *)
(* one as their mutexes come free, within a time limit                     *)
Close ==
  /\ ~stopped /\ stopped' = TRUE
  /\ closing' = {entries[k] : k \in Keys} \ {None}
  /\ entries' = [k \in Keys |-> None]
  /\ UNCHANGED <<made, conn, lock, idle, pc, key, mine, sweep, edited>>

CloseEntry ==
  /\ \E c \in closing :
       /\ lock[c] = Free
       /\ conn' = [conn EXCEPT ![c] = "closed"]
       /\ closing' = closing \ {c}
  /\ UNCHANGED <<pool, lock, idle, pc, key, mine, sweep, edited>>

CloseGivesUp ==
  /\ closing # {} /\ closing' = {}
  /\ UNCHANGED <<pool, conn, lock, idle, pc, key, mine, sweep, edited>>

-----------------------------------------------------------------------------
(* Time, brokers, operators.  Only the sweeper looks at lastUsed. *)
GrowsIdle(c) ==
  /\ lock[c] = Free /\ ~idle[c]
  /\ (\E k \in Keys : entries[k] = c) \/ (\E e \in toCheck : e[2] = c)
  /\ idle' = [idle EXCEPT ![c] = TRUE]
  /\ UNCHANGED <<pool, conn, lock, pc, key, mine, sweep, closing, edited>>

BrokerDrops(c) ==
  /\ Brokers /\ conn[c] = "live"
  /\ conn' = [conn EXCEPT ![c] = "dead"]
  /\ UNCHANGED <<pool, lock, idle, pc, key, mine, sweep, closing, edited>>

(* The stored connection is edited and the pipelines reloaded: executors   *)
(* call Get with the new configuration from here on                        *)
EditConnection ==
  /\ edited < made /\ edited' = made
  /\ UNCHANGED <<pool, conn, lock, idle, pc, key, mine, sweep, closing>>

Caller(a) ==
  Lock(a) \/ GetConnects(a) \/ GetFails(a) \/ GetEvicts(a) \/ Drop(a) \/ Release(a)

PoolNext ==
  \/ \E a \in Callers : Get(a) \/ Caller(a)
  \/ SweepStart \/ SweepEntry \/ SweepDelete
  \/ Close \/ CloseEntry \/ CloseGivesUp
  \/ \E c \in Conns : GrowsIdle(c) \/ BrokerDrops(c)
  \/ EditConnection

PoolSpec == PoolInit /\ [][PoolNext]_poolVars

(* A Go mutex is not withheld for ever from a waiter while others get it   *)
(* (its starvation mode), and whoever uses a connector gives it back: the  *)
(* keys that callers share are those of sends, which end.                  *)
PoolFairness == \A a \in Callers : WF_poolVars(Caller(a)) /\ SF_poolVars(Lock(a))
PoolFairSpec == PoolSpec /\ PoolFairness

-----------------------------------------------------------------------------
Using(a) == pc[a] = "using"

(* The connector Get returns is the caller's alone until it releases it *)
Exclusive ==
  \A a, b \in Callers : a # b /\ Using(a) /\ Using(b) => mine[a] # mine[b]

(* Neither the sweeper nor Close nor another user closes a connector in    *)
(* use.  Only a caller whose own dial of it failed may: Get disconnects    *)
(* after it gave the mutex back.                                           *)
OnlyDropsDisturb ==
  [][\A a \in Callers : Using(a) /\ Using(a)' /\ conn[mine[a]] # "closed"
       => \/ conn'[mine[a]] # "closed"
          \/ \E b \in Callers \ {a} : Drop(b) /\ mine[b] = mine[a]]_poolVars

(* Whoever asked for a connector gets an answer *)
GetReturns == \A a \in Callers : pc[a] = "lock" ~> pc[a] \in {"using", "out"}

(* What comments and the runbook say, and the code does not do *)

(* The mutex serialises Send, Receive and Disconnect on a connector *)
UsersUndisturbed ==
  [][\A a \in Callers : Using(a) /\ Using(a)' /\ conn[mine[a]] # "closed"
       => conn'[mine[a]] # "closed"]_poolVars

(* Every connection to a broker is in the map, with someone, or about to   *)
(* be closed: the sweeper will come to it                                  *)
Reachable(c) ==
  \/ \E k \in Keys : entries[k] = c
  \/ c \in closing
  \/ \E a \in Callers : mine[a] = c
NoOrphans == stopped \/ \A c \in Conns : conn[c] # "closed" => Reachable(c)

(* After the configuration was edited, a connector obtained by a later Get *)
(* was made from it                                                        *)
EditsTakeEffect ==
  [][\A a \in Callers : Get(a) => mine'[a] > edited]_poolVars

=============================================================================
