-------------------------- MODULE ConnectionProofs --------------------------
(***************************************************************************)
(* What holds of the connectors as sources, and of the pool that hands     *)
(* them out, for any number of messages, callers, keys and faults and any  *)
(* size of the windows and channels.                                       *)
(*  - The acknowledging connectors (AckSource): no delivery is stranded,   *)
(*    the broker forgets only what was handed over, the prefetch window    *)
(*    holds.                                                               *)
(*  - The pool (Pool): one user per connector, undisturbed but for the     *)
(*    Disconnect of a failed Get.                                          *)
(*  - The pushing connectors (PushSource): messages arrive in order, and   *)
(*    each missing one is accounted for by a full channel or a fault.      *)
(***************************************************************************)
EXTENDS AckSource, Pool, PushSource, FiniteSetTheorems, TLAPS

-----------------------------------------------------------------------------
(* The acknowledging connectors *)

(* TypeOK without the window. *)
AckTyped ==
  /\ kind \in Kinds
  /\ ready \subseteq Msgs /\ unacked \subseteq Msgs /\ ready \cap unacked = {}
  /\ link \in {"none", "up", "lost", "half"} /\ consumer \in BOOLEAN
  /\ buffer \subseteq Msgs
  /\ pending \in Msgs \cup {NoMsg} /\ cur \in Msgs \cup {NoMsg, Blank}
  /\ work \in {"idle", "receive", "handover", "commit", "nack"}
  /\ copies \in [Msgs -> Nat] /\ blanks \in BOOLEAN /\ cut \subseteq Msgs
  /\ faults \in 0 .. MaxFaults

(* A broken connection has nothing unsettled: the broker took it back. *)
LostIsRequeued == link # "up" => unacked = {}

(* The pending slot is the message in hand: it is empty between two        *)
(* messages and during a blank one, and what is committed was handed over. *)
SlotOK ==
  /\ work \in {"idle", "receive"} => pending = NoMsg
  /\ work \in {"handover", "commit", "nack"} =>
       \/ cur \in Msgs /\ pending = cur
       \/ cur = Blank /\ pending = NoMsg /\ kind = "jetstream"
  /\ work = "commit" /\ pending # NoMsg => copies[pending] > 0

(* The connectors that pull have no buffer, and settle without a context. *)
PullersOK == kind \in {"jetstream", "ibm"} => buffer = {} /\ cut = {}

AckInv == AckTyped /\ LostIsRequeued /\ SlotOK /\ PullersOK /\ NoneStranded

(* The connection does not exist yet. *)
LEMMA AckInitial == Init => AckInv
<1> SUFFICES ASSUME Init PROVE AckInv
  OBVIOUS
<1>1. AckTyped
  <2>1. 0 \in 0 .. MaxFaults
    BY AckAssumption
  <2> QED BY <2>1 DEF Init, AckTyped
<1> QED BY <1>1 DEF Init, AckInv, LostIsRequeued, SlotOK, PullersOK, NoneStranded

LEMMA AckFault == ASSUME AckTyped, Fault PROVE faults' \in 0 .. MaxFaults
  BY AckAssumption DEF AckTyped, Fault

(* One step of worker, broker and sweeper *)
LEMMA AckStep == AckInv /\ [Next]_vars => AckInv'
<1> SUFFICES ASSUME AckInv, [Next]_vars PROVE AckInv'
  OBVIOUS
<1>0. NoMsg \notin Msgs /\ Blank \notin Msgs /\ NoMsg # Blank
  BY AckAssumption
<1> USE DEF AckInv, AckTyped, LostIsRequeued, SlotOK, PullersOK, NoneStranded,
        broker, handles, outcome, Goto
<1>1. CASE Connect
  BY <1>1 DEF Connect, Redials, RabbitRedials, NATSRedials, AMQP10Redials, IBMRedials
<1>2. CASE ConnectErr
  <2>1. faults' \in 0 .. MaxFaults
    BY <1>2, AckFault DEF ConnectErr
  <2> QED BY <1>2, <2>1 DEF ConnectErr, Redials, RabbitRedials, NATSRedials,
             AMQP10Redials, IBMRedials
<1>3. CASE Reuse
  BY <1>3 DEF Reuse
<1>4. CASE Evict
  BY <1>4 DEF Evict, PingFails
<1>5. CASE LinkLost \/ ChannelClosed
  <2>1. faults' \in 0 .. MaxFaults
    BY <1>5, AckFault DEF LinkLost, ChannelClosed
  <2> QED BY <1>5, <2>1 DEF LinkLost, ChannelClosed, Requeue
<1>6. CASE Reconnects
  BY <1>6 DEF Reconnects
<1>7. ASSUME NEW m \in Msgs, Push(m) PROVE AckInv'
  BY <1>7 DEF Push, Consuming
<1>8. ASSUME NEW m \in Msgs, AckWaitExpires(m) PROVE AckInv'
  <2>1. faults' \in 0 .. MaxFaults
    BY <1>8, AckFault DEF AckWaitExpires
  <2> QED BY <1>8, <2>1 DEF AckWaitExpires
<1>9. CASE Consume
  BY <1>9 DEF Consume
<1>10. ASSUME NEW m \in Msgs, Receive(m) PROVE AckInv'
  BY <1>0, <1>10 DEF Receive, Take, Consuming
<1>11. ASSUME NEW m \in Msgs, Fetch(m) PROVE AckInv'
  BY <1>0, <1>11 DEF Fetch, Take
<1>12. CASE FetchTimeout
  BY <1>0, <1>12 DEF FetchTimeout
<1>13. CASE ReceiveErr
  BY <1>13 DEF ReceiveErr
<1>14. CASE Handover
  <2>1. /\ work = "handover" /\ work' = "commit"
        /\ UNCHANGED <<kind, ready, unacked, link, consumer, buffer, pending, cur, cut, faults>>
    BY <1>14 DEF Handover
  <2>2. copies' \in [Msgs -> Nat] /\ blanks' \in BOOLEAN
    <3>1. copies' = copies \/ copies' = [copies EXCEPT ![cur] = @ + 1]
      BY <1>14 DEF Handover
    <3>2. copies' \in [Msgs -> Nat]
      BY <3>1
    <3>3. blanks' = blanks \/ blanks' = TRUE
      BY <1>14 DEF Handover
    <3>4. blanks' \in BOOLEAN
      BY <3>3
    <3> QED BY <3>2, <3>4
  <2>3. pending # NoMsg => copies'[pending] > 0
    BY <1>0, <1>14, <2>1 DEF Handover
  <2> QED BY <2>1, <2>2, <2>3
<1>15. CASE Refused
  <2>1. faults' \in 0 .. MaxFaults
    BY <1>15, AckFault DEF Refused
  <2> QED BY <1>15, <2>1 DEF Refused
<1>16. CASE Commit
  <2>1. faults' \in 0 .. MaxFaults
    BY <1>16, AckFault DEF Commit, Cancelled
  <2>2. unacked' \subseteq unacked /\ ready' \subseteq ready /\ ready' \cap unacked' = {}
    BY <1>16 DEF Commit, Cancelled
  <2>3. cut' \subseteq Msgs /\ cut \subseteq cut' /\ (kind # "amqp10" => cut' = cut)
    BY <1>0, <1>16 DEF Commit, Cancelled
  <2>4. unacked' \subseteq buffer \cup cut'
    BY <1>16 DEF Commit, Cancelled, Settled
  <2> QED BY <1>0, <1>16, <2>1, <2>2, <2>3, <2>4 DEF Commit, Return
<1>17. CASE Nack
  <2>1. faults' \in 0 .. MaxFaults
    BY <1>17, AckFault DEF Nack, Cancelled
  <2>2. unacked' \subseteq unacked /\ ready' \subseteq Msgs /\ ready' \cap unacked' = {}
    BY <1>17 DEF Nack, Cancelled, Settled
  <2>3. cut' \subseteq Msgs /\ cut \subseteq cut' /\ (kind # "amqp10" => cut' = cut)
    BY <1>0, <1>17 DEF Nack, Cancelled
  <2>4. unacked' \subseteq buffer \cup cut'
    BY <1>17 DEF Nack, Cancelled, Settled
  <2> QED BY <1>0, <1>17, <2>1, <2>2, <2>3, <2>4 DEF Nack, Return
<1>18. CASE Crash
  <2>1. faults' \in 0 .. MaxFaults
    BY <1>18, AckFault DEF Crash
  <2> QED BY <1>18, <2>1 DEF Crash, Requeue, Return
<1>19. CASE UNCHANGED vars
  BY <1>19 DEF vars
<1> QED BY <1>1, <1>2, <1>3, <1>4, <1>5, <1>6, <1>7, <1>8, <1>9, <1>10, <1>11, <1>12, <1>13,
           <1>14, <1>15, <1>16, <1>17, <1>18, <1>19 DEF Next, Worker, BrokerPushes

LEMMA AckInvariant == Spec => []AckInv
  BY AckInitial, AckStep, PTL DEF Spec

(* Commit and Nack strand no delivery, whatever is lost, closed, expired   *)
(* or cut off around them: what the broker counts as delivered can still   *)
(* be settled, or its settlement was cut short by the worker's context     *)
(* (ReceiveMessage, Commit and Nack of the four connectors).               *)
THEOREM AckNoneStranded == Spec => []NoneStranded
<1>1. AckInv => NoneStranded
  BY DEF AckInv
<1> QED BY <1>1, AckInvariant, PTL

(* The prefetch window is never exceeded, also where nothing but the       *)
(* worker's own pace limits what is unacknowledged.                        *)
LEMMA WindowStep ==
  ASSUME AckInv, AckInv', TypeOK, [Next]_vars
  PROVE  Cardinality(unacked') <= Prefetch
<1>1. Prefetch \in Nat \ {0} /\ IsFiniteSet(unacked) /\ Cardinality(unacked) \in Nat
      /\ Cardinality(unacked) <= Prefetch
  <2>1. IsFiniteSet(unacked)
    BY AckAssumption, FS_Subset DEF TypeOK
  <2> QED BY <2>1, AckAssumption, FS_CardinalityType DEF TypeOK
<1>2. ASSUME unacked' \subseteq unacked PROVE Cardinality(unacked') <= Prefetch
  <2>1. IsFiniteSet(unacked') /\ Cardinality(unacked') <= Cardinality(unacked)
    BY <1>1, <1>2, FS_Subset
  <2>2. Cardinality(unacked') \in Nat
    BY <2>1, FS_CardinalityType
  <2> QED BY <1>1, <2>1, <2>2
<1>3. ASSUME NEW m \in Msgs, Push(m) PROVE Cardinality(unacked') <= Prefetch
  <2>1. /\ unacked' = unacked \cup {m} /\ m \notin unacked
        /\ Cardinality(unacked) < Prefetch
    BY <1>3 DEF Push, AckInv, AckTyped
  <2> QED BY <1>1, <2>1, FS_AddElement
<1>4. ASSUME NEW m \in Msgs, Fetch(m) PROVE Cardinality(unacked') <= Prefetch
  <2>1. unacked \subseteq {} \cup {NoMsg}
    BY <1>4 DEF Fetch, AckInv, PullersOK, NoneStranded, SlotOK
  <2>2. unacked' = {m}
    BY <1>4, <2>1, AckAssumption DEF Fetch, AckInv, AckTyped
  <2> QED BY <1>1, <2>2, FS_Singleton
<1>5. ASSUME NEW m \in Msgs, Receive(m) \/ AckWaitExpires(m) PROVE unacked' \subseteq unacked
  BY <1>5 DEF Receive, AckWaitExpires, broker
<1>6. CASE \/ Connect \/ Reuse \/ Consume \/ ReceiveErr \/ Handover \/ Commit \/ Nack
           \/ ConnectErr \/ Evict \/ Reconnects \/ LinkLost \/ ChannelClosed
           \/ FetchTimeout \/ Refused \/ Crash \/ UNCHANGED vars
  <2>1. unacked' \subseteq unacked
    BY <1>6 DEF Connect, Reuse, Consume, ReceiveErr, Handover, Commit, Nack, Cancelled,
                ConnectErr, Evict, Reconnects, LinkLost, ChannelClosed, Requeue,
                FetchTimeout, Refused, Crash, vars, broker
  <2> QED BY <1>2, <2>1
<1> QED BY <1>2, <1>3, <1>4, <1>5, <1>6 DEF Next, Worker, BrokerPushes

(* Types of the acknowledging connectors, the bound on the window included *)
(* (Qos, Credit; one message at a time with JetStream and IBM MQ).         *)
THEOREM AckTypes == Spec => []TypeOK
<1>1. Init => TypeOK
  <2> SUFFICES ASSUME Init PROVE TypeOK
    OBVIOUS
  <2>1. AckTyped
    BY AckInitial DEF AckInv
  <2>2. Cardinality(unacked) <= Prefetch
    BY FS_EmptySet, AckAssumption DEF Init
  <2> QED BY <2>1, <2>2 DEF AckTyped, TypeOK
<1>2. TypeOK /\ AckInv /\ AckInv' /\ [Next]_vars => TypeOK'
  <2> SUFFICES ASSUME TypeOK, AckInv, AckInv', [Next]_vars PROVE TypeOK'
    OBVIOUS
  <2>1. Cardinality(unacked') <= Prefetch
    BY WindowStep
  <2>2. AckTyped'
    BY DEF AckInv
  <2> QED BY <2>1, <2>2 DEF AckTyped, TypeOK
<1> QED BY <1>1, <1>2, AckInvariant, PTL DEF Spec

(* A message is committed only after it was handed over. *)
LEMMA ContractStep ==
  ASSUME AckInv, AckInv', [Next]_vars
  PROVE  [Contract!HandoffNext]_(Contract!handoffVars)
<1> DEFINE P == ready \cup unacked
           O == {m \in Msgs : copies[m] > 0}
<1>0. NoMsg \notin Msgs /\ Blank \notin Msgs /\ copies \in [Msgs -> Nat]
  BY AckAssumption DEF AckInv, AckTyped
<1>1. ASSUME P' = P, O' = O PROVE [Contract!HandoffNext]_(Contract!handoffVars)
  BY <1>1 DEF Contract!handoffVars
<1>2. ASSUME NEW m \in Msgs, m \in O, m \in P, P' = P \ {m}, O' = O
      PROVE  [Contract!HandoffNext]_(Contract!handoffVars)
  BY <1>2 DEF Contract!HandoffNext, Contract!Release
<1>3. ASSUME NEW m \in Msgs, m \notin O, O' = O \cup {m}, P' = P
      PROVE  [Contract!HandoffNext]_(Contract!handoffVars)
  BY <1>3 DEF Contract!HandoffNext, Contract!TakeOver
<1> USE DEF broker, handles, outcome
<1>4. CASE Handover
  <2>1. P' = P
    BY <1>4 DEF Handover
  <2>2. CASE cur = Blank
    <3>1. O' = O
      BY <1>4, <2>2 DEF Handover
    <3> QED BY <1>1, <2>1, <3>1
  <2>3. CASE cur # Blank
    <3>1. cur \in Msgs /\ copies' = [copies EXCEPT ![cur] = @ + 1]
      BY <1>4, <2>3 DEF Handover, AckInv, SlotOK
    <3>2. O' = O \cup {cur}
      BY <1>0, <3>1
    <3>3. CASE cur \in O
      BY <1>1, <2>1, <3>2, <3>3
    <3>4. CASE cur \notin O
      BY <1>3, <2>1, <3>1, <3>2, <3>4
    <3> QED BY <3>3, <3>4
  <2> QED BY <2>2, <2>3
<1>5. CASE Commit
  <2>1. O' = O
    BY <1>5 DEF Commit
  <2>2. pending # NoMsg => pending \in O
    BY <1>5 DEF Commit, AckInv, SlotOK, AckTyped
  <2>3. P' = P \/ (pending \in P /\ P' = P \ {pending})
    <3>1. CASE unacked' = unacked \ Settled /\ UNCHANGED ready
      <4>1. Settled = {} \/ (Settled = {pending} /\ pending \in unacked)
        BY DEF Settled, AckInv, PullersOK, NoneStranded
      <4> QED BY <3>1, <4>1 DEF AckInv, AckTyped
    <3>2. CASE pending \in ready /\ ready' = ready \ {pending} /\ UNCHANGED unacked
      BY <3>2 DEF AckInv, AckTyped
    <3>3. CASE Cancelled
      BY <3>3 DEF Cancelled
    <3> QED BY <1>5, <3>1, <3>2, <3>3 DEF Commit
  <2>4. P \subseteq Msgs
    BY DEF AckInv, AckTyped
  <2> QED BY <1>0, <1>1, <1>2, <2>1, <2>2, <2>3, <2>4
<1>6. CASE Nack
  <2>1. Settled \subseteq unacked
    BY DEF Settled
  <2> QED BY <1>1, <1>6, <2>1 DEF Nack, Cancelled
<1>7. CASE Connect \/ ConnectErr \/ Reuse \/ Evict \/ Reconnects \/ Consume \/ FetchTimeout
           \/ ReceiveErr \/ Refused
  BY <1>1, <1>7 DEF Connect, ConnectErr, Reuse, Evict, Reconnects, Consume, FetchTimeout,
     ReceiveErr, Refused
<1>8. CASE LinkLost \/ ChannelClosed \/ Crash
  BY <1>1, <1>8 DEF LinkLost, ChannelClosed, Crash, Requeue
<1>9. ASSUME NEW m \in Msgs, Push(m) \/ AckWaitExpires(m) \/ Receive(m) \/ Fetch(m)
      PROVE  P' = P /\ O' = O
  BY <1>9 DEF Push, AckWaitExpires, Receive, Fetch
<1>10. CASE UNCHANGED vars
  BY <1>1, <1>10 DEF vars
<1> QED BY <1>1, <1>4, <1>5, <1>6, <1>7, <1>8, <1>9, <1>10 DEF Next, Worker, BrokerPushes

(* Every connector that acknowledges keeps the executor's contract with    *)
(* the source (comment of Connector.Commit), as a step-by-step refinement  *)
(* of Handoff.                                                             *)
THEOREM AckKeepsContract == Spec => KeepsContract
<1>1. Init => Contract!HandoffInit
  BY DEF Init, Contract!HandoffInit
<1>2. AckInv /\ AckInv' /\ [Next]_vars => [Contract!HandoffNext]_(Contract!handoffVars)
  BY ContractStep
<1> QED BY <1>1, <1>2, AckInvariant, PTL DEF Spec, KeepsContract, Contract!HandoffSpec
-----------------------------------------------------------------------------
(* The pool that hands the connectors out.  One user per connector: the    *)
(* map says little about who uses what (an evicted entry may still be in   *)
(* use), so the induction is about the entries' mutexes: a caller past     *)
(* Lock holds the mutex of the very entry it found.                        *)
HasEntry(a) == pc[a] \in {"connect", "using"}

(* The part of the type the argument needs *)
PoolTypes ==
  /\ entries \in [Keys -> Conns \cup {None}] /\ made \in 0 .. MaxConns
  /\ conn \in [Conns -> Links]
  /\ lock \in [Conns -> Callers \cup {Free}]
  /\ pc \in [Callers -> Steps]
  /\ mine \in [Callers -> Conns \cup {None}]
  /\ toCheck \in SUBSET (Keys \X Conns) /\ closing \in SUBSET Conns

(* A caller inside Get knows its entry, and has its mutex after Lock *)
HoldersLock ==
  \A a \in Callers : /\ pc[a] # "out" => mine[a] \in Conns
                     /\ HasEntry(a) => lock[mine[a]] = a

PoolInv == PoolTypes /\ HoldersLock

(* The empty pool *)
LEMMA PoolInitial == PoolInit => PoolInv
  BY PoolAssumption
     DEF PoolInit, PoolInv, PoolTypes, HoldersLock, HasEntry, Steps,
         Links, Conns, None

(* One step of the pool *)
LEMMA PoolStepKeeps ==
  PoolInv /\ [PoolNext]_poolVars => PoolInv'
<1> SUFFICES ASSUME PoolInv, [PoolNext]_poolVars PROVE PoolInv' OBVIOUS
<1> USE PoolAssumption, FreeAssumption
    DEF PoolInv, PoolTypes, HoldersLock, HasEntry, Steps, Links,
        pool, sweep
<1>1. ASSUME NEW a \in Callers, Get(a) PROVE PoolInv'
  <2>1. PICK k \in Keys :
          \/ entries[k] # None /\ mine' = [mine EXCEPT ![a] = entries[k]]
             /\ UNCHANGED <<entries, made>>
          \/ /\ entries[k] = None /\ made < MaxConns
             /\ made' = made + 1
             /\ entries' = [entries EXCEPT ![k] = made + 1]
             /\ mine' = [mine EXCEPT ![a] = made + 1]
    BY <1>1 DEF Get
  <2>2. made < MaxConns => made + 1 \in Conns /\ made + 1 \in 0 .. MaxConns
    BY DEF Conns
  <2>3. mine' \in [Callers -> Conns \cup {None}] /\ mine'[a] \in Conns
    BY <2>1, <2>2
  <2>4. \A b \in Callers : b # a => mine'[b] = mine[b] BY <2>1
  <2>5. entries' \in [Keys -> Conns \cup {None}] /\ made' \in 0 .. MaxConns
    BY <2>1, <2>2
  <2>6. pc' = [pc EXCEPT ![a] = "lock"] /\ UNCHANGED <<conn, lock, toCheck, closing>>
    BY <1>1 DEF Get
  <2> QED BY <2>3, <2>4, <2>5, <2>6
<1>2. ASSUME NEW a \in Callers, Caller(a) PROVE PoolInv'
  <2>1. CASE Lock(a) BY <2>1 DEF Lock
  <2>2. CASE GetConnects(a) BY <2>2 DEF GetConnects
  <2>3. CASE GetFails(a) BY <2>3 DEF GetFails
  <2>4. CASE GetEvicts(a) BY <2>4 DEF GetEvicts
  <2>5. CASE Drop(a) BY <2>5 DEF Drop, Leave
  <2>6. CASE Release(a) BY <2>6 DEF Release, Leave
  <2> QED BY <1>2, <2>1, <2>2, <2>3, <2>4, <2>5, <2>6 DEF Caller
<1>3. CASE SweepStart BY <1>3 DEF SweepStart
<1>4. CASE SweepEntry
  <2>1. PICK e \in toCheck :
          /\ toCheck' = toCheck \ {e}
          /\ conn' = [conn EXCEPT ![e[2]] = "closed"] \/ UNCHANGED conn
    BY <1>4 DEF SweepEntry
  <2>2. e[2] \in Conns BY <2>1
  <2>3. conn' \in [Conns -> Links] BY <2>1, <2>2
  <2> QED BY <1>4, <2>1, <2>3 DEF SweepEntry
<1>5. CASE SweepDelete BY <1>5 DEF SweepDelete
<1>6. CASE Close BY <1>6 DEF Close
<1>7. CASE CloseEntry \/ CloseGivesUp
  BY <1>7 DEF CloseEntry, CloseGivesUp
<1>8. ASSUME NEW c \in Conns, GrowsIdle(c) \/ BrokerDrops(c)
      PROVE  PoolInv'
  BY <1>8 DEF GrowsIdle, BrokerDrops
<1>9. CASE EditConnection BY <1>9 DEF EditConnection
<1>10. CASE UNCHANGED poolVars BY <1>10 DEF poolVars
<1> QED BY <1>1, <1>2, <1>3, <1>4, <1>5, <1>6, <1>7, <1>8, <1>9, <1>10
           DEF PoolNext

(* The mutex discipline of Get, Lock and Release holds in every state *)
THEOREM PoolInvariant == PoolSpec => []PoolInv
<1>1. PoolInit => PoolInv
  BY PoolInitial
<1>2. PoolInv /\ [PoolNext]_poolVars => PoolInv'
  BY PoolStepKeeps
<1> QED BY <1>1, <1>2, PTL DEF PoolSpec

(* The other variables; nothing points to a connector that was never made *)
PoolRest ==
  /\ key \in [Callers -> Keys \cup {NoKey}] /\ doomed \in SUBSET Keys
  /\ edited \in 0 .. made /\ \A k \in Keys : entries[k] <= made
PoolFlags == stopped \in BOOLEAN /\ idle \in [Conns -> BOOLEAN]

LEMMA PoolFlagsKept ==
  ASSUME PoolInv, PoolFlags, [PoolNext]_poolVars
  PROVE  PoolFlags'
<1>1. stopped' = stopped \/ stopped' = TRUE
  BY DEF PoolNext, Get, Caller, Lock, GetConnects,
         GetFails, GetEvicts, Drop, Release,
         SweepStart, SweepEntry, SweepDelete, Close,
         CloseEntry, CloseGivesUp, GrowsIdle,
         BrokerDrops, EditConnection, pool, poolVars
<1>2. \/ idle' = idle
      \/ \E c : idle' = [idle EXCEPT ![c] = TRUE] \/ idle' = [idle EXCEPT ![c] = FALSE]
  BY DEF PoolNext, Get, Caller, Lock, GetConnects,
         GetFails, GetEvicts, Drop, Release,
         SweepStart, SweepEntry, SweepDelete, Close,
         CloseEntry, CloseGivesUp, GrowsIdle,
         BrokerDrops, EditConnection, poolVars
<1>3. idle' \in [Conns -> BOOLEAN]
  BY <1>2 DEF PoolFlags
<1> QED BY <1>1, <1>3, Zenon DEF PoolFlags

LEMMA PoolRestKept ==
  ASSUME PoolInv, PoolRest, [PoolNext]_poolVars
  PROVE  PoolRest'
<1>1. /\ entries \in [Keys -> Conns \cup {None}] /\ made \in Nat
      /\ Conns \subseteq Nat /\ None = 0 /\ edited \in 0 .. made
      /\ toCheck \in SUBSET (Keys \X Conns)
  BY PoolAssumption
     DEF PoolInv, PoolTypes, PoolRest, Conns, None
<1>2. ASSUME NEW a \in Callers, Get(a) PROVE PoolRest'
  <2>1. PICK k \in Keys :
          /\ key' = [key EXCEPT ![a] = k]
          /\ \/ UNCHANGED <<entries, made>>
             \/ made' = made + 1 /\ entries' = [entries EXCEPT ![k] = made + 1]
    BY <1>2 DEF Get
  <2>2. edited' = edited /\ doomed' = doomed
    BY <1>2 DEF Get, sweep
  <2>3. edited' \in 0 .. made' /\ \A l \in Keys : entries'[l] <= made'
    <3>1. CASE UNCHANGED <<entries, made>>
      BY <1>1, <2>2, <3>1 DEF PoolRest
    <3>2. CASE made' = made + 1 /\ entries' = [entries EXCEPT ![k] = made + 1]
      <4>1. edited' \in 0 .. made'
        <5>1. edited \in Nat /\ edited <= made
          BY <1>1
        <5> QED BY <1>1, <2>2, <3>2, <5>1
      <4>2. \A l \in Keys : entries[l] \in Nat /\ entries[l] <= made
        <5>1. \A l \in Keys : entries[l] \in Conns \cup {None}
          BY <1>1
        <5>2. Conns \cup {None} \subseteq Nat
          BY <1>1
        <5> QED BY <5>1, <5>2, Zenon DEF PoolRest
      <4>3. \A l \in Keys : entries'[l] = entries[l] \/ entries'[l] = made + 1
        BY <1>1, <3>2
      <4> QED BY <1>1, <3>2, <4>1, <4>2, <4>3
    <3> QED BY <2>1, <3>1, <3>2
  <2> QED BY <2>1, <2>2, <2>3 DEF PoolRest
<1>3. ASSUME NEW a \in Callers, Caller(a) PROVE PoolRest'
  <2>1. /\ UNCHANGED <<made, edited, doomed>>
        /\ key' = key \/ key' = [key EXCEPT ![a] = NoKey]
        /\ entries' = entries \/ entries' = [entries EXCEPT ![key[a]] = None]
    BY <1>3 DEF Caller, Lock, GetConnects, GetFails,
                GetEvicts, Drop, Release, Leave,
                pool, sweep
  <2>2. \A k \in Keys : entries'[k] = entries[k] \/ entries'[k] = 0
    BY <1>1, <2>1
  <2>3. \A k \in Keys : entries'[k] <= made
    BY <1>1, <2>2 DEF PoolRest
  <2> QED BY <2>1, <2>3 DEF PoolRest
<1>4. CASE SweepStart \/ SweepEntry
  BY <1>1, <1>4 DEF PoolRest, SweepStart, SweepEntry, pool
<1>5. CASE SweepDelete \/ Close
  BY <1>1, <1>5 DEF PoolRest, SweepDelete, Close, sweep
<1>6. CASE CloseEntry \/ CloseGivesUp \/ UNCHANGED poolVars
  BY <1>6 DEF PoolRest, CloseEntry, CloseGivesUp, pool,
              sweep, poolVars
<1>7. ASSUME NEW c \in Conns, GrowsIdle(c) \/ BrokerDrops(c)
      PROVE  PoolRest'
  BY <1>7 DEF PoolRest, GrowsIdle, BrokerDrops, pool,
              sweep
<1>8. CASE EditConnection
  BY <1>1, <1>8 DEF PoolRest, EditConnection, pool, sweep
<1> QED BY <1>2, <1>3, <1>4, <1>5, <1>6, <1>7, <1>8 DEF PoolNext

(* The types of the pool: its map names only connectors that were made,    *)
(* whichever of Get, sweeper and Close removes them first.                 *)
THEOREM PoolTyped == PoolSpec => []PoolTypeOK
<1>1. PoolInit => PoolRest
  BY DEF PoolInit, PoolRest, None
<1>2. PoolInit => PoolFlags
  BY DEF PoolInit, PoolFlags
<1>3. PoolInv /\ PoolRest /\ PoolFlags => PoolTypeOK
  BY DEF PoolInv, PoolTypes, PoolRest, PoolFlags, PoolTypeOK
<1>4. /\ PoolInv /\ PoolRest /\ PoolFlags /\ [PoolNext]_poolVars
      => PoolRest' /\ PoolFlags'
  BY PoolRestKept, PoolFlagsKept
<1>5. PoolSpec => []PoolInv
  BY PoolInvariant
<1> QED BY <1>1, <1>2, <1>3, <1>4, <1>5, PTL DEF PoolSpec

(* Get's promise: the connector is locked for its caller's exclusive use *)
THEOREM PoolExclusive == PoolSpec => []Exclusive
<1>1. PoolInv => Exclusive
  BY DEF PoolInv, HoldersLock, HasEntry, Exclusive, Using
<1>2. PoolSpec => []PoolInv
  BY PoolInvariant
<1> QED BY <1>1, <1>2, PTL

(* runSweep's TryLock and Close's Lock are enough to keep a connector open *)
(* under its user; the Disconnect of a failed Get is the one exception.    *)
THEOREM PoolUndisturbed == PoolSpec => OnlyDropsDisturb
<1>1. PoolInv /\ [PoolNext]_poolVars =>
         [\A a \in Callers : Using(a) /\ Using(a)' /\ conn[mine[a]] # "closed"
            => \/ conn'[mine[a]] # "closed"
               \/ \E b \in Callers \ {a} : Drop(b) /\ mine[b] = mine[a]]_poolVars
  <2> SUFFICES ASSUME PoolInv, NEW a \in Callers, Using(a), Using(a)',
                      conn[mine[a]] # "closed", conn'[mine[a]] = "closed", PoolNext
               PROVE  \E b \in Callers \ {a} : Drop(b) /\ mine[b] = mine[a]
    BY DEF poolVars
  <2> USE DEF PoolInv, PoolTypes, HoldersLock, HasEntry, Using, Links,
              pool, sweep
  <2>1. mine[a] \in Conns /\ lock[mine[a]] = a /\ a # Free
    BY FreeAssumption
  <2>2. ASSUME NEW b \in Callers, Get(b) \/ Caller(b)
        PROVE  Drop(b) /\ mine[b] = mine[a] /\ b # a
    BY <2>1, <2>2 DEF Get, Caller, Lock, GetConnects,
                      GetFails, GetEvicts, Drop,
                      Leave, Release
  <2>3. ~(\/ SweepStart \/ SweepDelete
          \/ Close \/ CloseGivesUp \/ EditConnection)
    BY DEF SweepStart, SweepDelete, Close,
           CloseGivesUp, EditConnection
  <2>4. ~SweepEntry BY <2>1 DEF SweepEntry, TryLock
  <2>5. ~CloseEntry BY <2>1 DEF CloseEntry
  <2>6. ASSUME NEW c \in Conns
        PROVE  ~(GrowsIdle(c) \/ BrokerDrops(c))
    BY <2>1 DEF GrowsIdle, BrokerDrops
  <2> QED BY <2>2, <2>3, <2>4, <2>5, <2>6 DEF PoolNext
<1>2. PoolSpec => []PoolInv
  BY PoolInvariant
<1> QED BY <1>1, <1>2, PTL DEF PoolSpec, OnlyDropsDisturb

-----------------------------------------------------------------------------
(* The connectors that push.  The argument is about the four parts of      *)
(* Pipeline: what was taken, the worker's hand, the channel, the broker's  *)
(* session.  Every step moves a message from one part to the next, empties *)
(* a part, or publishes.                                                   *)
(* The messages of a sequence, and its order: the numbers of publication   *)
(* grow along an ordered sequence, and from one to the next, but for the   *)
(* messages in A.                                                          *)
Elems(s) == {s[i] : i \in 1 .. Len(s)}
Inc(s, A) == \A i, j \in 1 .. Len(s) : i < j => s[i] < s[j] \/ s[j] \in A
Before(s, t, A) == \A x \in Elems(s), y \in Elems(t) : x < y \/ y \in A

(* What the parts of a concatenation hold, and when it is ordered *)
LEMMA ElemsConcat ==
  ASSUME NEW s \in Seq(Nat), NEW t \in Seq(Nat)
  PROVE  Elems(s \o t) = Elems(s) \cup Elems(t)
<1>1. Elems(s \o t) \subseteq Elems(s) \cup Elems(t)
  <2> SUFFICES ASSUME NEW k \in 1 .. Len(s \o t)
               PROVE  (s \o t)[k] \in Elems(s) \cup Elems(t)
    BY DEF Elems
  <2>1. CASE k <= Len(s)
    BY <2>1 DEF Elems
  <2>2. CASE k > Len(s)
    <3>1. k - Len(s) \in 1 .. Len(t) /\ (s \o t)[k] = t[k - Len(s)]
      BY <2>2
    <3> QED BY <3>1 DEF Elems
  <2> QED BY <2>1, <2>2
<1>2. ASSUME NEW k \in 1 .. Len(s) PROVE s[k] \in Elems(s \o t)
  <2>1. k \in 1 .. Len(s \o t) /\ (s \o t)[k] = s[k]
    OBVIOUS
  <2> QED BY <2>1 DEF Elems
<1>3. ASSUME NEW k \in 1 .. Len(t) PROVE t[k] \in Elems(s \o t)
  <2>1. Len(s) + k \in 1 .. Len(s \o t) /\ (s \o t)[Len(s) + k] = t[k]
    OBVIOUS
  <2> QED BY <2>1 DEF Elems
<1> QED BY <1>1, <1>2, <1>3 DEF Elems

LEMMA IncConcat ==
  ASSUME NEW s \in Seq(Nat), NEW t \in Seq(Nat), NEW A
  PROVE  Inc(s \o t, A) <=> Inc(s, A) /\ Inc(t, A) /\ Before(s, t, A)
<1> DEFINE st == s \o t
<1>0. /\ st \in Seq(Nat) /\ Len(st) = Len(s) + Len(t) /\ Len(s) \in Nat /\ Len(t) \in Nat
      /\ \A i \in 1 .. Len(s) : i \in 1 .. Len(st) /\ st[i] = s[i]
      /\ \A i \in 1 .. Len(t) : Len(s) + i \in 1 .. Len(st) /\ st[Len(s) + i] = t[i]
      /\ \A i \in 1 .. Len(st) :
           i > Len(s) => i - Len(s) \in 1 .. Len(t) /\ st[i] = t[i - Len(s)]
  OBVIOUS
<1> HIDE DEF st
<1>1. ASSUME Inc(st, A) PROVE Inc(s, A) /\ Inc(t, A) /\ Before(s, t, A)
  <2>1. Inc(s, A)
    BY <1>0, <1>1 DEF Inc
  <2>2. Inc(t, A)
    <3> SUFFICES ASSUME NEW i \in 1 .. Len(t), NEW j \in 1 .. Len(t), i < j PROVE t[i] < t[j] \/ t[j] \in A
      BY DEF Inc
    <3>1. /\ Len(s) + i \in 1 .. Len(st) /\ Len(s) + j \in 1 .. Len(st)
          /\ st[Len(s) + i] = t[i] /\ st[Len(s) + j] = t[j]
      BY <1>0
    <3>2. Len(s) + i < Len(s) + j
      BY <1>0
    <3> QED BY <3>1, <3>2, <1>1 DEF Inc
  <2>3. Before(s, t, A)
    <3> SUFFICES ASSUME NEW i \in 1 .. Len(s), NEW j \in 1 .. Len(t) PROVE s[i] < t[j] \/ t[j] \in A
      BY DEF Before, Elems
    <3>1. st[i] < st[Len(s) + j] \/ st[Len(s) + j] \in A
      BY <1>0, <1>1 DEF Inc
    <3> QED BY <3>1, <1>0
  <2> QED BY <2>1, <2>2, <2>3
<1>2. ASSUME Inc(s, A), Inc(t, A), Before(s, t, A) PROVE Inc(st, A)
  <2> SUFFICES ASSUME NEW i \in 1 .. Len(st), NEW j \in 1 .. Len(st), i < j
               PROVE  st[i] < st[j] \/ st[j] \in A
    BY DEF Inc
  <2>1. CASE j <= Len(s)
    <3>1. i \in 1 .. Len(s) /\ j \in 1 .. Len(s)
      BY <2>1, <1>0
    <3> QED BY <3>1, <1>0, <1>2 DEF Inc
  <2>2. CASE i <= Len(s) /\ j > Len(s)
    <3>1. i \in 1 .. Len(s) /\ j - Len(s) \in 1 .. Len(t) /\ st[j] = t[j - Len(s)]
      BY <2>2, <1>0
    <3>2. st[i] = s[i]
      BY <3>1, <1>0
    <3>3. s[i] \in Elems(s) /\ t[j - Len(s)] \in Elems(t)
      BY <3>1 DEF Elems
    <3> QED BY <3>1, <3>2, <3>3, <1>2 DEF Before
  <2>3. CASE i > Len(s)
    <3>1. /\ i - Len(s) \in 1 .. Len(t) /\ st[i] = t[i - Len(s)]
          /\ j - Len(s) \in 1 .. Len(t) /\ st[j] = t[j - Len(s)]
      <4>1. i > Len(s) /\ j > Len(s)
        BY <2>3, <1>0
      <4>2. \A k \in 1 .. Len(st) :
              k > Len(s) => k - Len(s) \in 1 .. Len(t) /\ st[k] = t[k - Len(s)]
        BY <1>0
      <4> QED BY <4>1, <4>2
    <3>2. i - Len(s) < j - Len(s)
      BY <1>0
    <3> QED BY <3>1, <3>2, <1>2 DEF Inc
  <2> QED BY <2>1, <2>2, <2>3, <1>0
<1> QED BY <1>1, <1>2 DEF st

(* The sequences the actions build: empty, of one, the rest of one, one    *)
(* longer                                                                  *)
LEMMA SeqShapes ==
  /\ Elems(<<>>) = {} /\ <<>> \in Seq(Nat)
  /\ \A x \in Nat : <<x>> \in Seq(Nat) /\ Elems(<<x>>) = {x}
<1>1. Elems(<<>>) = {} /\ <<>> \in Seq(Nat)
  BY DEF Elems
<1>2. ASSUME NEW x \in Nat PROVE <<x>> \in Seq(Nat) /\ Elems(<<x>>) = {x}
  <2>1. <<x>> \in Seq(Nat) /\ Len(<<x>>) = 1 /\ <<x>>[1] = x
    OBVIOUS
  <2>2. 1 .. 1 = {1}
    OBVIOUS
  <2> QED BY <2>1, <2>2 DEF Elems
<1> QED BY <1>1, <1>2

(* The short ones are ordered. *)
LEMMA ShortOrdered ==
  ASSUME NEW A PROVE Inc(<<>>, A) /\ \A x \in Nat : Inc(<<x>>, A)
<1>1. Len(<<>>) = 0 /\ \A x \in Nat : Len(<<x>>) = 1
  OBVIOUS
<1>2. \A i, j \in 1 .. 1 : ~(i < j)
  OBVIOUS
<1>3. 1 .. 0 = {}
  OBVIOUS
<1> QED BY <1>1, <1>2, <1>3 DEF Inc

LEMMA HeadFirst ==
  ASSUME NEW s \in Seq(Nat), s # <<>>
  PROVE  /\ Head(s) \in Nat /\ Tail(s) \in Seq(Nat) /\ s = <<Head(s)>> \o Tail(s)
         /\ Elems(s) = {Head(s)} \cup Elems(Tail(s))
<1>1. Head(s) \in Nat /\ Tail(s) \in Seq(Nat) /\ s = <<Head(s)>> \o Tail(s)
  OBVIOUS
<1>2. /\ <<Head(s)>> \in Seq(Nat) /\ Elems(<<Head(s)>>) = {Head(s)}
  BY <1>1, SeqShapes
<1>3. Elems(s) = {Head(s)} \cup Elems(Tail(s))
  BY <1>1, <1>2, ElemsConcat
<1> QED BY <1>1, <1>3

LEMMA TailOrdered ==
  ASSUME NEW s \in Seq(Nat), s # <<>>, NEW A, Inc(s, A)
  PROVE  Inc(Tail(s), A) /\ \A y \in Elems(Tail(s)) : Head(s) < y \/ y \in A
<1>1. Head(s) \in Nat /\ Tail(s) \in Seq(Nat) /\ s = <<Head(s)>> \o Tail(s)
  BY HeadFirst
<1>2. /\ <<Head(s)>> \in Seq(Nat) /\ Elems(<<Head(s)>>) = {Head(s)}
  BY <1>1, SeqShapes
<1>3. Inc(Tail(s), A) /\ Before(<<Head(s)>>, Tail(s), A)
  BY <1>1, <1>2, IncConcat
<1> QED BY <1>2, <1>3 DEF Before

LEMMA Appended ==
  ASSUME NEW s \in Seq(Nat), NEW x \in Nat
  PROVE  /\ Append(s, x) \in Seq(Nat) /\ Len(Append(s, x)) = Len(s) + 1
         /\ Elems(Append(s, x)) = Elems(s) \cup {x}
<1>1. Append(s, x) \in Seq(Nat) /\ Len(Append(s, x)) = Len(s) + 1 /\ Append(s, x) = s \o <<x>>
  OBVIOUS
<1>2. <<x>> \in Seq(Nat) /\ Elems(<<x>>) = {x}
  BY SeqShapes
<1> QED BY <1>1, <1>2, ElemsConcat

LEMMA AppendOrdered ==
  ASSUME NEW s \in Seq(Nat), NEW x \in Nat, NEW A, Inc(s, A),
         \A y \in Elems(s) : y < x \/ x \in A
  PROVE  Inc(Append(s, x), A)
<1>1. Append(s, x) = s \o <<x>>
  OBVIOUS
<1>2. <<x>> \in Seq(Nat) /\ Elems(<<x>>) = {x} /\ Inc(<<x>>, A)
  BY SeqShapes, ShortOrdered
<1>3. Before(s, <<x>>, A)
  BY <1>2 DEF Before
<1> QED BY <1>1, <1>2, <1>3, IncConcat

(* A channel holds no more messages than its length. *)
LEMMA FewElems ==
  ASSUME NEW s \in Seq(Nat)
  PROVE  IsFiniteSet(Elems(s)) /\ Cardinality(Elems(s)) <= Len(s)
<1>1. Len(s) \in Nat /\ DOMAIN s = 1 .. Len(s)
  OBVIOUS
<1> DEFINE f == [i \in 1 .. Len(s) |-> s[i]]
<1>2. f \in Surjection(1 .. Len(s), Elems(s))
  BY <1>1 DEF Surjection, Elems
<1>3. IsFiniteSet(1 .. Len(s)) /\ Cardinality(1 .. Len(s)) = Len(s)
  <2>1. \A n \in Nat : /\ IsFiniteSet(1 .. n)
                       /\ Cardinality(1 .. n) = IF 1 > n THEN 0 ELSE n - 1 + 1
    BY FS_Interval
  <2>2. \A n \in Nat : (IF 1 > n THEN 0 ELSE n - 1 + 1) = n
    OBVIOUS
  <2> QED BY <1>1, <2>1, <2>2
<1> HIDE DEF f
<1> QED BY <1>2, <1>3, FS_Surjection

PushTyped ==
  /\ transport \in PushKinds /\ qos \in {0, 1} /\ stableID \in BOOLEAN
  /\ subscribed \in BOOLEAN /\ holds \in BOOLEAN
  /\ published \in 0 .. MaxMsgs /\ attached \in 1 .. MaxMsgs + 1
  /\ session \in Seq(Nat) /\ inflight \in Seq(Nat)
  /\ deliveries \in Seq(Nat) /\ taken \in Seq(Nat)
  /\ Len(deliveries) <= Cap
  /\ client \in {"none", "up", "retrying", "down"}
  /\ hand \in Message \cup {NoMessage} /\ dropped \in Nat /\ mishaps \in Nat

(* The parts of Pipeline, one by one *)
InHand == {hand} \ {NoMessage}
Held == Elems(taken) \cup InHand \cup Elems(deliveries) \cup Elems(session)

(* What is in the worker's hands comes before what is on its way, or comes *)
(* again; what the broker has in flight and what it still holds are in     *)
(* order without exception, so that sending the former again puts nothing  *)
(* out of order that is not marked.                                        *)
Sorted ==
  /\ Inc(taken, again) /\ Inc(deliveries, again)
  /\ Inc(inflight, {}) /\ Inc(session, {})
  /\ \A x \in Elems(inflight), y \in Elems(session) : x < y
  /\ \A x \in Elems(taken), y \in InHand \cup Elems(deliveries) \cup Elems(session) :
       x < y \/ y \in again
  /\ \A x \in InHand, y \in Elems(deliveries) \cup Elems(session) : x < y \/ y \in again
  /\ \A x \in Elems(deliveries), y \in Elems(session) : x < y \/ y \in again
  /\ \A x \in Held \cup Elems(inflight) \cup again : x \in 1 .. published
  /\ ~Durable => inflight = <<>> /\ again = {}

PushInv == PushTyped /\ Sorted

(* Nothing is published. *)
LEMMA PushInitial == PushInit => PushInv
<1> SUFFICES ASSUME PushInit PROVE PushInv
  OBVIOUS
<1>1. InHand = {} /\ Held = {}
  BY SeqShapes DEF PushInit, InHand, Held
<1>2. PushTyped
  <2>1. 0 \in 0 .. MaxMsgs /\ MaxMsgs + 1 \in 1 .. MaxMsgs + 1 /\ 0 \in Nat
    BY PushAssumption
  <2>2. Len(<<>>) <= Cap
    BY PushAssumption
  <2> QED BY <2>1, <2>2, SeqShapes DEF PushInit, PushTyped
<1>3. Sorted
  BY <1>1, SeqShapes, ShortOrdered DEF Sorted, PushInit
<1> QED BY <1>2, <1>3 DEF PushInv

(* A connection that ends: the session is forgotten, or takes the messages *)
(* in flight back, and marks them.                                         *)
Forgotten == session' = <<>> /\ inflight' = <<>> /\ again' = again
SentAgain ==
  /\ session' = inflight \o session /\ inflight' = <<>>
  /\ again' = again \cup Elems(inflight)

LEMMA SetOfSeq ==
  ASSUME NEW s \in Seq(Nat) PROVE ToSet(s) = Elems(s)
<1>1. DOMAIN s = 1 .. Len(s)
  OBVIOUS
<1> QED BY <1>1 DEF ToSet, Elems

LEMMA SessionEnds ==
  ASSUME PushTyped, NEW kept, EndSession(kept)
  PROVE  \/ Forgotten /\ attached' = MaxMsgs + 1
         \/ SentAgain /\ attached' = attached
<1>1. ToSet(inflight) = Elems(inflight)
  BY SetOfSeq DEF PushTyped
<1>2. CASE kept
  BY <1>1, <1>2 DEF EndSession, SendAgain, SentAgain
<1>3. CASE ~kept
  BY <1>3 DEF EndSession, Forgotten
<1> QED BY <1>2, <1>3

LEMMA EndTyped ==
  ASSUME PushTyped, Forgotten \/ SentAgain
  PROVE  session' \in Seq(Nat) /\ inflight' \in Seq(Nat)
<1>1. inflight \o session \in Seq(Nat)
  BY DEF PushTyped
<1> QED BY <1>1, SeqShapes DEF Forgotten, SentAgain

LEMMA DisconnectEnds ==
  ASSUME PushTyped, Disconnect
  PROVE  /\ Forgotten \/ SentAgain
         /\ attached' = MaxMsgs + 1 \/ (attached' = attached /\ SentAgain)
<1>1. ToSet(inflight) = Elems(inflight)
  BY SetOfSeq DEF PushTyped
<1>2. CASE EndSession(client # "up")
  BY <1>2, SessionEnds
<1>3. CASE SendAgain /\ attached' = MaxMsgs + 1
  BY <1>1, <1>3 DEF SendAgain, SentAgain
<1> QED BY <1>2, <1>3 DEF Disconnect

(* One step, the types *)
LEMMA PushTypesKept ==
  ASSUME PushInv, [PushNext]_pushVars
  PROVE  PushTyped'
<1> USE PushAssumption DEF PushInv
<1>1. /\ transport' \in PushKinds /\ qos' \in {0, 1} /\ stableID' \in BOOLEAN
      /\ UNCHANGED config
  BY DEF PushTyped, PushNext, pushVars, config, PushWorker, PushGet,
         PushConnect, PushReceive, PushHandover, PushConnectErr,
         Publish, ClientLost, AutoReconnect, Deliver, PubAck, PushCancel,
         PushNack, Disconnect, PushCrash
<1>2. CASE Publish
  <2>1. published + 1 \in Nat /\ published + 1 \in 1 .. MaxMsgs
    BY <1>2 DEF Publish, PushTyped
  <2>2. session' \in Seq(Nat)
    BY <2>1, <1>2, Appended DEF Publish, PushTyped
  <2>3. attached' \in 1 .. MaxMsgs + 1
    BY <2>1, <1>2 DEF Publish, PushTyped
  <2> QED BY <1>1, <1>2, <2>1, <2>2, <2>3 DEF Publish, PushTyped, workerVars
<1>3. CASE ClientLost
  <2>1. EndSession(Durable)
    BY <1>3 DEF ClientLost
  <2>2. session' \in Seq(Nat) /\ inflight' \in Seq(Nat) /\ attached' \in 1 .. MaxMsgs + 1
    BY <2>1, SessionEnds, EndTyped DEF PushTyped
  <2> QED BY <1>1, <1>3, <2>2 DEF ClientLost, Mishap, PushTyped, workerVars
<1>4. CASE AutoReconnect \/ PushGet
  BY <1>1, <1>4 DEF AutoReconnect, PushGet, PushTyped, brokerVars, workerVars
<1>5. CASE PushConnect
  <2>1. EndSession(Durable /\ stableID)
    BY <1>5 DEF PushConnect
  <2>2. session' \in Seq(Nat) /\ inflight' \in Seq(Nat) /\ attached' \in 1 .. MaxMsgs + 1
    BY <2>1, SessionEnds, EndTyped DEF PushTyped
  <2> QED BY <1>1, <1>5, <2>2, SeqShapes DEF PushConnect, PushTyped
<1>6. CASE PushConnectErr
  BY <1>1, <1>6, SeqShapes DEF PushConnectErr, Mishap, PushTyped, brokerVars, workerVars
<1>7. CASE Deliver
  <2>1. Head(session) \in Nat /\ Tail(session) \in Seq(Nat)
    BY <1>7, HeadFirst DEF Deliver, Send, PushTyped
  <2>2. Len(deliveries) < Cap => /\ Append(deliveries, Head(session)) \in Seq(Nat)
                                 /\ Len(Append(deliveries, Head(session))) <= Cap
    BY <2>1, Appended DEF PushTyped
  <2>3. deliveries' \in Seq(Nat) /\ Len(deliveries') <= Cap
    BY <1>7, <2>2 DEF Deliver, PushTyped
  <2>4. dropped' \in Nat
    BY <1>7 DEF Deliver, PushTyped
  <2>5. /\ session' \in Seq(Nat) /\ inflight' \in Seq(Nat)
        /\ UNCHANGED <<published, subscribed, client, holds, hand, taken, attached, mishaps>>
    BY <1>7, <2>1, Appended DEF Deliver, Send, PushTyped, workerVars
  <2> QED BY <1>1, <2>3, <2>4, <2>5 DEF PushTyped
<1>8. CASE PushReceive
  <2>0. deliveries # <<>> /\ deliveries \in Seq(Nat)
    BY <1>8 DEF PushReceive, PushTyped
  <2>1. Head(deliveries) \in Elems(deliveries) /\ Tail(deliveries) \in Seq(Nat)
    BY <2>0, HeadFirst
  <2>3. Len(Tail(deliveries)) <= Cap
    BY <2>0 DEF PushTyped
  <2>2. Head(deliveries) \in Message
    BY <2>1 DEF Sorted, Held, Message, PushTyped
  <2> QED BY <1>1, <1>8, <2>1, <2>2, <2>3 DEF PushReceive, PushTyped, brokerVars
<1>9. CASE PushHandover
  <2>1. Append(taken, hand) \in Seq(Nat)
    BY <1>9, Appended DEF PushHandover, PushTyped, Message
  <2> QED BY <1>1, <1>9, <2>1 DEF PushHandover, PushTyped, brokerVars
<1>10. CASE PushNack \/ PushCancel
  <2>1. /\ UNCHANGED <<published, subscribed, session, inflight, attached, client, deliveries,
                       taken, dropped>>
        /\ holds' = FALSE /\ (hand' = hand \/ hand' = NoMessage) /\ mishaps' \in Nat
    BY <1>10 DEF PushNack, PushCancel, Mishap, PushTyped, brokerVars
  <2> QED BY <1>1, <2>1 DEF PushTyped
<1>11. CASE Disconnect
  <2>1. session' \in Seq(Nat) /\ inflight' \in Seq(Nat) /\ attached' \in 1 .. MaxMsgs + 1
    BY <1>11, DisconnectEnds, EndTyped DEF PushTyped
  <2> QED BY <1>1, <1>11, <2>1, SeqShapes DEF Disconnect, Mishap, PushTyped, workerVars
<1>12. CASE PushCrash
  <2>1. EndSession(Durable)
    BY <1>12 DEF PushCrash
  <2>2. session' \in Seq(Nat) /\ inflight' \in Seq(Nat) /\ attached' \in 1 .. MaxMsgs + 1
    BY <2>1, SessionEnds, EndTyped DEF PushTyped
  <2>3. Len(<<>>) <= Cap
    OBVIOUS
  <2>4. /\ UNCHANGED <<published, subscribed, taken, dropped>> /\ client' = "none"
        /\ deliveries' = <<>> /\ holds' = FALSE /\ hand' = NoMessage /\ mishaps' \in Nat
    BY <1>12 DEF PushCrash, Mishap, PushTyped
  <2> QED BY <1>1, <2>2, <2>3, <2>4, SeqShapes DEF PushTyped
<1>13. CASE PubAck
  <2>1. inflight' \in Seq(Nat)
    BY <1>13, HeadFirst DEF PubAck, PushTyped
  <2> QED BY <1>1, <1>13, <2>1 DEF PubAck, PushTyped, workerVars
<1>14. CASE UNCHANGED pushVars
  BY <1>1, <1>14 DEF pushVars, PushTyped, brokerVars, workerVars
<1> QED BY <1>2, <1>3, <1>4, <1>5, <1>6, <1>7, <1>8, <1>9, <1>10, <1>11, <1>12, <1>13, <1>14
           DEF PushNext, PushWorker

(* What a step does to the parts of Pipeline: a fault empties some of      *)
(* them, and may have the messages in flight sent again.                   *)
Emptied ==
  /\ UNCHANGED <<taken, published, config>>
  /\ hand' \in {hand, NoMessage}
  /\ deliveries' \in {deliveries, <<>>}
  /\ \/ UNCHANGED <<session, inflight, again>>
     \/ Forgotten
     \/ SentAgain

LEMMA Moves ==
  ASSUME PushTyped, [PushNext]_pushVars
  PROVE  Publish \/ Deliver \/ PubAck \/ PushReceive \/ PushHandover \/ Emptied
<1>1. CASE ClientLost \/ PushConnect \/ PushCrash
  <2>1. Forgotten \/ SentAgain
    BY <1>1, SessionEnds DEF ClientLost, PushConnect, PushCrash
  <2> QED BY <1>1, <2>1 DEF ClientLost, PushConnect, PushCrash, Emptied, workerVars
<1>2. CASE Disconnect
  <2>1. Forgotten \/ SentAgain
    BY <1>2, DisconnectEnds
  <2> QED BY <1>2, <2>1 DEF Disconnect, Emptied, workerVars
<1>3. CASE AutoReconnect \/ PushGet \/ PushConnectErr \/ PushCancel \/ PushNack
  BY <1>3 DEF AutoReconnect, PushGet, PushConnectErr, PushCancel, PushNack, Emptied,
              brokerVars, workerVars
<1>4. CASE UNCHANGED pushVars
  BY <1>4 DEF pushVars, Emptied, brokerVars, workerVars
<1> QED BY <1>1, <1>2, <1>3, <1>4 DEF PushNext, PushWorker

(* One step, the order: only Publish adds a message, and it is the newest; *)
(* what is sent again is marked.                                           *)
LEMMA SortedKept ==
  ASSUME PushInv, PushTyped', [PushNext]_pushVars
  PROVE  Sorted'
<1> USE DEF PushInv
<1>0. /\ session \in Seq(Nat) /\ deliveries \in Seq(Nat) /\ taken \in Seq(Nat)
      /\ inflight \in Seq(Nat)
      /\ published \in Nat /\ hand \in Nat /\ NoMessage = 0
  BY PushAssumption DEF PushTyped, Message, NoMessage
<1>1. CASE Publish
  <2>1. /\ published' = published + 1 /\ published + 1 \in Nat
        /\ UNCHANGED <<taken, hand, deliveries, inflight, again, config>>
        /\ session' \in {session, Append(session, published + 1)}
    BY <1>0, <1>1 DEF Publish, workerVars
  <2>2. \A y \in Held \cup Elems(inflight) \cup again :
          y \in Nat /\ y < published + 1 /\ y \in 1 .. published + 1
    BY <1>0 DEF Sorted
  <2>3. \A y \in Elems(session) : y < published + 1
    BY <2>2 DEF Held
  <2>4. Inc(session', {}) /\ Elems(session') \subseteq Elems(session) \cup {published + 1}
    <3>1. CASE session' = session
      BY <3>1 DEF Sorted
    <3>2. CASE session' = Append(session, published + 1)
      BY <1>0, <2>1, <2>3, <3>2, Appended, AppendOrdered DEF Sorted
    <3> QED BY <2>1, <3>1, <3>2
  <2>5. \A y \in Held' : y \in Held \/ y = published + 1
    BY <2>1, <2>4 DEF Held, InHand
  <2>6. \A y \in Held' \cup Elems(inflight') \cup again' : y \in 1 .. published'
    <3>1. published + 1 \in 1 .. published + 1
      BY <1>0
    <3> QED BY <2>1, <2>2, <2>5, <3>1
  <2>7. /\ \A x \in Elems(taken), y \in InHand \cup Elems(deliveries) \cup Elems(session') :
             x < y \/ y \in again
        /\ \A x \in InHand, y \in Elems(deliveries) \cup Elems(session') : x < y \/ y \in again
        /\ \A x \in Elems(deliveries), y \in Elems(session') : x < y \/ y \in again
        /\ \A x \in Elems(inflight), y \in Elems(session') : x < y
    BY <2>2, <2>4 DEF Sorted, Held
  <2>8. Inc(taken, again) /\ Inc(deliveries, again) /\ Inc(inflight, {})
    BY DEF Sorted
  <2>9. (~Durable => inflight = <<>> /\ again = {})'
    BY <2>1 DEF Sorted, Durable, config
  <2> QED BY <2>1, <2>4, <2>6, <2>7, <2>8, <2>9 DEF Sorted, InHand
<1>2. CASE Deliver
  <2>1. /\ UNCHANGED <<taken, hand, published, again, config>>
        /\ session # <<>> /\ session' = Tail(session)
        /\ deliveries' \in {deliveries, Append(deliveries, Head(session))}
        /\ Durable => inflight' = Append(inflight, Head(session))
        /\ ~Durable => inflight' = inflight
    BY <1>2 DEF Deliver, Send, workerVars
  <2>2. /\ Head(session) \in Nat
        /\ Elems(session) = {Head(session)} \cup Elems(session')
        /\ Inc(session', {}) /\ \A y \in Elems(session') : Head(session) < y
    BY <1>0, <2>1, HeadFirst, TailOrdered DEF Sorted
  <2>3. /\ \A y \in Elems(deliveries) : y < Head(session) \/ Head(session) \in again
        /\ \A y \in Elems(inflight) : y < Head(session)
    BY <2>2 DEF Sorted
  <2>4. /\ Inc(deliveries', again)
        /\ Elems(deliveries') \subseteq Elems(deliveries) \cup {Head(session)}
    <3>1. CASE deliveries' = deliveries
      BY <3>1 DEF Sorted
    <3>2. CASE deliveries' = Append(deliveries, Head(session))
      BY <1>0, <2>2, <2>3, <3>2, Appended, AppendOrdered DEF Sorted
    <3> QED BY <2>1, <3>1, <3>2
  <2>5. /\ Inc(inflight', {})
        /\ Elems(inflight') \subseteq Elems(inflight) \cup {Head(session)}
    <3>1. CASE inflight' = inflight
      BY <3>1 DEF Sorted
    <3>2. CASE inflight' = Append(inflight, Head(session))
      BY <1>0, <2>2, <2>3, <3>2, Appended, AppendOrdered DEF Sorted
    <3> QED BY <2>1, <3>1, <3>2
  <2>6. (~Durable => inflight = <<>> /\ again = {})'
    BY <2>1 DEF Sorted, Durable, config
  <2>7. \A x \in Held' \cup Elems(inflight') \cup again' : x \in 1 .. published'
    <3>1. Held' \subseteq Held /\ Elems(inflight') \subseteq Elems(inflight) \cup Held
      BY <2>1, <2>2, <2>4, <2>5 DEF Held, InHand
    <3> QED BY <2>1, <3>1 DEF Sorted
  <2>8. Elems(session') \subseteq Elems(session) /\ Head(session) \in Elems(session)
    BY <2>2
  <2>9. /\ (\A x \in Elems(inflight), y \in Elems(session) : x < y)'
        /\ (\A x \in Elems(deliveries), y \in Elems(session) : x < y \/ y \in again)'
    BY <2>1, <2>2, <2>4, <2>5, <2>8 DEF Sorted
  <2>10. /\ (\A x \in Elems(taken), y \in InHand \cup Elems(deliveries) \cup Elems(session) :
                x < y \/ y \in again)'
         /\ (\A x \in InHand, y \in Elems(deliveries) \cup Elems(session) :
                x < y \/ y \in again)'
    BY <2>1, <2>4, <2>8 DEF Sorted, InHand
  <2> QED BY <2>1, <2>2, <2>4, <2>5, <2>6, <2>7, <2>9, <2>10 DEF Sorted
<1>3. CASE PushReceive
  <2>1. /\ UNCHANGED <<taken, session, published, inflight, again, config>> /\ deliveries # <<>>
        /\ deliveries' = Tail(deliveries) /\ hand' = Head(deliveries)
    BY <1>3 DEF PushReceive, brokerVars
  <2>2. /\ Elems(deliveries) = {hand'} \cup Elems(deliveries')
        /\ Inc(deliveries', again) /\ \A y \in Elems(deliveries') : hand' < y \/ y \in again
    BY <1>0, <2>1, HeadFirst, TailOrdered DEF Sorted
  <2>3. (~Durable => inflight = <<>> /\ again = {})'
    BY <2>1 DEF Sorted, Durable, config
  <2> QED BY <1>0, <2>1, <2>2, <2>3 DEF Sorted, Held, InHand
<1>4. CASE PushHandover
  <2>1. /\ UNCHANGED <<deliveries, session, published, inflight, again, config>>
        /\ hand # NoMessage
        /\ taken' = Append(taken, hand) /\ hand' = NoMessage
    BY <1>4 DEF PushHandover, brokerVars
  <2>2. Elems(taken') = Elems(taken) \cup {hand}
    BY <1>0, <2>1, Appended
  <2>3. Inc(taken', again)
    BY <1>0, <2>1, AppendOrdered DEF Sorted, InHand
  <2>4. (~Durable => inflight = <<>> /\ again = {})'
    BY <2>1 DEF Sorted, Durable, config
  <2> QED BY <1>0, <2>1, <2>2, <2>3, <2>4 DEF Sorted, Held, InHand
<1>5. CASE PubAck
  <2>1. /\ UNCHANGED <<taken, hand, deliveries, session, published, again, config>>
        /\ inflight # <<>> /\ inflight' = Tail(inflight)
    BY <1>5 DEF PubAck, workerVars
  <2>2. Elems(inflight') \subseteq Elems(inflight) /\ Inc(inflight', {})
    BY <1>0, <2>1, HeadFirst, TailOrdered DEF Sorted
  <2>3. (~Durable => inflight = <<>> /\ again = {})'
    BY <2>1 DEF Sorted, Durable, config
  <2> QED BY <2>1, <2>2, <2>3 DEF Sorted, Held, InHand
<1>6. CASE Emptied
  <2>1. /\ Elems(deliveries') \subseteq Elems(deliveries) /\ InHand' \subseteq InHand
        /\ UNCHANGED <<taken, published>>
        /\ deliveries' = deliveries \/ deliveries' = <<>>
    BY <1>6, SeqShapes DEF Emptied, InHand
  <2>2. again \subseteq again' /\ again' \subseteq again \cup Elems(inflight)
    BY <1>6 DEF Emptied, Forgotten, SentAgain
  <2>3. \A y \in Elems(session') : y \in Elems(session) \/ (y \in again' /\ y \in Elems(inflight))
    <3>1. CASE SentAgain
      BY <1>0, <3>1, ElemsConcat DEF SentAgain
    <3> QED BY <1>6, <3>1, SeqShapes DEF Emptied, Forgotten
  <2>4. /\ Inc(inflight', {}) /\ Inc(session', {})
        /\ \A x \in Elems(inflight'), y \in Elems(session') : x < y
    <3>1. CASE SentAgain
      <4>1. Before(inflight, session, {})
        BY DEF Sorted, Before
      <4>2. Inc(session', {})
        BY <1>0, <3>1, <4>1, IncConcat DEF SentAgain, Sorted
      <4> QED BY <3>1, <4>2, SeqShapes, ShortOrdered DEF SentAgain
    <3>2. CASE Forgotten
      BY <3>2, SeqShapes, ShortOrdered DEF Forgotten
    <3>3. CASE UNCHANGED <<session, inflight, again>>
      BY <3>3 DEF Sorted
    <3> QED BY <1>6, <3>1, <3>2, <3>3 DEF Emptied
  <2>5. Inc(taken', again') /\ Inc(deliveries', again')
    <3>1. Inc(taken', again')
      BY <2>1, <2>2 DEF Sorted, Inc
    <3>2. Inc(deliveries, again')
      BY <2>2 DEF Sorted, Inc
    <3> QED BY <2>1, <3>1, <3>2, ShortOrdered
  <2>6. Elems(inflight') \subseteq Elems(inflight)
    BY <1>6, SeqShapes DEF Emptied, Forgotten, SentAgain
  <2>7. \A x \in Held' \cup Elems(inflight') \cup again' : x \in 1 .. published'
    <3>1. Held' \cup Elems(inflight') \cup again' \subseteq Held \cup Elems(inflight) \cup again
      BY <2>1, <2>2, <2>3, <2>6 DEF Held
    <3> QED BY <2>1, <3>1 DEF Sorted
  <2>8. (~Durable => inflight = <<>> /\ again = {})'
    <3>1. Durable' = Durable
      BY <1>6 DEF Emptied, Durable, config
    <3> QED BY <1>6, <2>2, <3>1, SeqShapes DEF Emptied, Forgotten, SentAgain, Sorted
  <2>9. /\ (\A x \in Elems(taken), y \in InHand \cup Elems(deliveries) \cup Elems(session) :
               x < y \/ y \in again)'
        /\ (\A x \in InHand, y \in Elems(deliveries) \cup Elems(session) : x < y \/ y \in again)'
        /\ (\A x \in Elems(deliveries), y \in Elems(session) : x < y \/ y \in again)'
    BY <2>1, <2>2, <2>3 DEF Sorted
  <2> QED BY <2>4, <2>5, <2>7, <2>8, <2>9 DEF Sorted
<1> QED BY <1>1, <1>2, <1>3, <1>4, <1>5, <1>6, Moves

(* Types and order in every state *)
LEMMA PushInvariant == PushSpec => []PushInv
<1>1. PushInv /\ [PushNext]_pushVars => PushInv'
  BY PushTypesKept, SortedKept DEF PushInv
<1>2. PushInit => PushInv
  BY PushInitial
<1> QED BY <1>1, <1>2, PTL DEF PushSpec

(* Pipeline is the four parts one after the other. *)
LEMMA Parts ==
  ASSUME PushInv
  PROVE  Elems(Pipeline) = Held /\ (Sorted => Inc(Pipeline, again))
<1>0. /\ session \in Seq(Nat) /\ deliveries \in Seq(Nat) /\ taken \in Seq(Nat) /\ hand \in Nat
  BY PushAssumption DEF PushInv, PushTyped, Message, NoMessage
<1>1. Hand \in Seq(Nat) /\ Elems(Hand) = InHand /\ Inc(Hand, again)
  BY <1>0, SeqShapes, ShortOrdered DEF Hand, InHand
<1> DEFINE a == taken \o Hand
           b == a \o deliveries
<1>2. /\ a \in Seq(Nat) /\ Elems(a) = Elems(taken) \cup InHand
      /\ Inc(a, again) <=> Inc(taken, again) /\ Before(taken, Hand, again)
  BY <1>0, <1>1, ElemsConcat, IncConcat
<1> HIDE DEF a
<1>3. /\ b \in Seq(Nat) /\ Elems(b) = Elems(a) \cup Elems(deliveries)
      /\ Inc(b, again) <=> /\ Inc(a, again) /\ Inc(deliveries, again)
                        /\ Before(a, deliveries, again)
  BY <1>0, <1>2, ElemsConcat, IncConcat
<1> HIDE DEF b
<1>4. Pipeline = b \o session
  BY DEF Pipeline, a, b
<1>5. Elems(Pipeline) = Held
  BY <1>0, <1>2, <1>3, <1>4, ElemsConcat DEF Held
<1>6. ASSUME Sorted PROVE Inc(Pipeline, again)
  <2>1. /\ Before(taken, Hand, again) /\ Before(a, deliveries, again)
        /\ Before(b, session, again)
    BY <1>1, <1>2, <1>3, <1>6 DEF Sorted, Before
  <2>2. Inc(session, again)
    BY <1>6 DEF Sorted, Inc
  <2> QED BY <1>0, <1>2, <1>3, <1>4, <1>6, <2>1, <2>2, IncConcat DEF Sorted
<1> QED BY <1>5, <1>6

(* Neither a new channel nor a new session brings back what an old one     *)
(* delivered, and a full channel drops without reordering: the worker of   *)
(* connector_mqtt.go or connector_nats.go takes messages in the order of   *)
(* publication and none twice, but for those the broker sends again        *)
(* because a break cut off their PUBACK; at QoS 0 and on core NATS there   *)
(* are none of these.                                                      *)
THEOREM PushInOrder == PushSpec => []InOrder
<1>1. PushInv => InOrder
  BY Parts DEF PushInv, InOrder, Inc, Sorted
<1>2. PushSpec => []PushInv
  BY PushInvariant
<1> QED BY <1>1, <1>2, PTL

(* The messages of the broker's session that are nowhere *)
Lost == (attached .. published) \ Held

(* A connector whose client is closed for good still has its channel, and  *)
(* the fault that closed it has paid for it: the next dial throws it away. *)
Reserve == IF client = "down" THEN Cap ELSE 0
Budget(f) == f * (Cap + 1)

LossInv ==
  /\ attached <= MaxMsgs => Keeps
  /\ client = "none" => deliveries = <<>>
  /\ Cardinality(Lost) + Reserve <= dropped + Budget(mishaps)

(* What one more fault pays for *)
LEMMA BudgetGrows ==
  ASSUME NEW f \in Nat
  PROVE  Budget(f) \in Nat /\ Budget(f + 1) = Budget(f) + Cap + 1
<1>1. (f + 1) * (Cap + 1) = f * (Cap + 1) + Cap + 1 /\ f * (Cap + 1) \in Nat
  BY PushAssumption
<1> QED BY <1>1 DEF Budget

(* A set that grows by no more than another grows by no more than its size *)
LEMMA Grows ==
  ASSUME NEW S, IsFiniteSet(S), NEW X, IsFiniteSet(X), NEW T, T \subseteq S \cup X
  PROVE  /\ Cardinality(S) \in Nat /\ Cardinality(X) \in Nat /\ Cardinality(T) \in Nat
         /\ Cardinality(T) <= Cardinality(S) + Cardinality(X)
<1>1. /\ IsFiniteSet(S \cup X) /\ IsFiniteSet(S \cap X)
      /\ Cardinality(S \cup X) = Cardinality(S) + Cardinality(X) - Cardinality(S \cap X)
  BY FS_Union, FS_Subset
<1>2. IsFiniteSet(T) /\ Cardinality(T) <= Cardinality(S \cup X)
  BY <1>1, FS_Subset
<1>3. /\ Cardinality(S) \in Nat /\ Cardinality(X) \in Nat /\ Cardinality(T) \in Nat
      /\ Cardinality(S \cup X) \in Nat /\ Cardinality(S \cap X) \in Nat
  BY <1>1, <1>2, FS_CardinalityType
<1> QED BY <1>1, <1>2, <1>3

(* Nothing published, nothing missing *)
LEMMA LossInitial == PushInit => LossInv
<1> SUFFICES ASSUME PushInit PROVE LossInv
  OBVIOUS
<1>1. Lost = {}
  BY PushAssumption DEF PushInit, Lost
<1>2. Cardinality(Lost) = 0
  BY <1>1, FS_EmptySet
<1>3. Budget(0) \in Nat
  BY BudgetGrows
<1>4. Reserve = 0
  BY DEF PushInit, Reserve
<1>5. ~(attached <= MaxMsgs)
  BY PushAssumption DEF PushInit
<1> QED BY <1>2, <1>3, <1>4, <1>5 DEF PushInit, LossInv

(* The session, while there is one, is kept for whoever comes back *)
LEMMA SessionKept ==
  ASSUME PushInv, LossInv, [PushNext]_pushVars
  PROVE  (attached <= MaxMsgs => Keeps)' /\ (client = "none" => deliveries = <<>>)'
<1> USE PushAssumption DEF LossInv, Keeps, Durable, brokerVars
<1>0. /\ transport \in {"mqtt", "nats"} /\ client \in {"none", "up", "retrying", "down"}
      /\ subscribed \in BOOLEAN /\ UNCHANGED MaxMsgs
      /\ ~(MaxMsgs + 1 <= MaxMsgs)
  BY DEF PushInv, PushTyped
<1>1. CASE Publish
  <2>1. attached' <= MaxMsgs => Keeps
    BY <1>1 DEF Publish, PushInv, PushTyped
  <2> QED BY <1>1, <2>1 DEF Publish, config
<1>2. CASE ClientLost
  BY <1>0, <1>2 DEF ClientLost, EndSession, config
<1>3. CASE AutoReconnect
  BY <1>0, <1>3 DEF AutoReconnect, config
<1>4. CASE PushConnect
  BY <1>0, <1>4 DEF PushConnect, EndSession, config
<1>5. CASE PushConnectErr
  BY <1>0, <1>5 DEF PushConnectErr, IsConnected, config
<1>6. CASE Deliver
  BY <1>0, <1>6 DEF Deliver, Send, config
<1>7. CASE PushReceive
  BY <1>0, <1>7 DEF PushReceive, config
<1>8. CASE \/ PushHandover \/ PushNack \/ PushCancel \/ PubAck \/ PushGet
           \/ UNCHANGED pushVars
  BY <1>0, <1>8 DEF PushHandover, PushNack, PushCancel, PubAck, PushGet, pushVars, config
<1>9. CASE Disconnect
  BY <1>0, <1>9 DEF Disconnect, EndSession, config
<1>10. CASE PushCrash
  BY <1>0, <1>10 DEF PushCrash, EndSession, config
<1> QED BY <1>1, <1>2, <1>3, <1>4, <1>5, <1>6, <1>7, <1>8, <1>9, <1>10
    DEF PushNext, PushWorker

(* Where nothing is left of the session nothing of it is missing. *)
LEMMA NoSession ==
  ASSUME PushTyped', attached' = MaxMsgs + 1 PROVE Lost' = {}
  BY PushAssumption DEF PushTyped, Lost

(* What a step that keeps the session can lose *)
LEMMA Forgets ==
  ASSUME UNCHANGED <<taken, published, attached>>, NEW X,
         Elems(session) \subseteq Elems(session'),
         InHand \subseteq InHand' \cup X, Elems(deliveries) \subseteq Elems(deliveries)' \cup X
  PROVE  Lost' \subseteq Lost \cup X
  BY DEF Lost, Held

LEMMA SentAgainKeeps ==
  ASSUME PushTyped, SentAgain
  PROVE  Elems(session) \subseteq Elems(session')
  BY ElemsConcat DEF PushTyped, SentAgain

(* A step loses at most what it pays for. *)
Pays(X) ==
  /\ IsFiniteSet(X) /\ Lost' \subseteq Lost \cup X
  /\ Cardinality(X) + Reserve' + dropped + Budget(mishaps) <=
        Reserve + dropped' + Budget(mishaps')

(* One step, the account *)
LEMMA LossStep ==
  ASSUME PushInv, PushInv', LossInv, [PushNext]_pushVars
  PROVE  Cardinality(Lost') + Reserve' <= dropped' + Budget(mishaps')
<1>0. /\ dropped \in Nat /\ mishaps \in Nat /\ Budget(mishaps) \in Nat /\ Cap \in Nat
      /\ dropped' \in Nat /\ mishaps' \in Nat /\ Budget(mishaps') \in Nat
      /\ deliveries \in Seq(Nat) /\ session \in Seq(Nat) /\ taken \in Seq(Nat)
      /\ hand \in Nat /\ NoMessage = 0 /\ PushTyped'
  <2>1. /\ dropped \in Nat /\ mishaps \in Nat /\ Cap \in Nat
        /\ deliveries \in Seq(Nat) /\ session \in Seq(Nat) /\ taken \in Seq(Nat)
        /\ hand \in Nat /\ NoMessage = 0
    BY PushAssumption DEF PushInv, PushTyped, Message, NoMessage
  <2>2. dropped' \in Nat /\ mishaps' \in Nat /\ PushTyped'
    BY DEF PushInv, PushTyped
  <2>3. Budget(mishaps) \in Nat /\ Budget(mishaps') \in Nat
    BY <2>1, <2>2, BudgetGrows
  <2> QED BY <2>1, <2>2, <2>3
<1>1. Reserve \in Nat /\ Reserve' \in Nat /\ Reserve <= Cap /\ Reserve' <= Cap
  BY <1>0 DEF Reserve
<1>2. SUFFICES \E X : Pays(X)
  <2>1. PICK X : Pays(X)
    BY <1>2
  <2>2. IsFiniteSet(attached .. published)
    BY FS_Interval DEF PushInv, PushTyped
  <2>3. IsFiniteSet(Lost)
    BY <2>2, FS_Subset DEF Lost
  <2>4. /\ Cardinality(Lost) \in Nat /\ Cardinality(X) \in Nat /\ Cardinality(Lost') \in Nat
        /\ Cardinality(Lost') <= Cardinality(Lost) + Cardinality(X)
    BY <2>1, <2>3, Grows DEF Pays
  <2>5. /\ Cardinality(Lost) + Reserve <= dropped + Budget(mishaps)
        /\ Cardinality(X) + Reserve' + dropped + Budget(mishaps) <=
              Reserve + dropped' + Budget(mishaps')
    BY <2>1 DEF Pays, LossInv
  <2>6. /\ dropped \in Nat /\ Budget(mishaps) \in Nat
        /\ dropped' \in Nat /\ Budget(mishaps') \in Nat
    BY <1>0
  <2> QED BY <1>1, <2>4, <2>5, <2>6
<1>3. IsFiniteSet({}) /\ Cardinality({}) = 0
  BY FS_EmptySet
<1>4. /\ IsFiniteSet(Elems(deliveries)) /\ Cardinality(Elems(deliveries)) \in Nat
      /\ Cardinality(Elems(deliveries)) <= Cap
  <2>1. IsFiniteSet(Elems(deliveries)) /\ Cardinality(Elems(deliveries)) <= Len(deliveries)
    BY <1>0, FewElems
  <2>2. Len(deliveries) <= Cap /\ Len(deliveries) \in Nat
    BY <1>0 DEF PushInv, PushTyped
  <2> QED BY <1>0, <2>1, <2>2, FS_CardinalityType
<1>5. /\ IsFiniteSet({hand}) /\ Cardinality({hand}) = 1
      /\ InHand \subseteq {hand}
  BY FS_Singleton DEF InHand
<1>6. Mishap => Budget(mishaps') = Budget(mishaps) + Cap + 1
  BY <1>0, BudgetGrows DEF Mishap
<1>7. ASSUME Lost' \subseteq Lost, UNCHANGED <<dropped, mishaps>>, Reserve' <= Reserve
      PROVE  Pays({})
  BY <1>0, <1>1, <1>3, <1>7 DEF Pays
<1>8. CASE Publish
  <2>1. /\ UNCHANGED <<taken, hand, deliveries, dropped, mishaps, client>>
        /\ published' = published + 1 /\ published \in Nat /\ published + 1 \in Nat /\ attached \in 1 .. MaxMsgs + 1
    BY <1>8 DEF Publish, PushInv, PushTyped, workerVars
  <2>2. Keeps => Elems(session') = Elems(session) \cup {published + 1}
    BY <1>0, <1>8, <2>1, Appended DEF Publish
  <2>3. ~Keeps => session' = session /\ attached' = attached
    BY <1>8 DEF Publish
  <2>4. Lost' \subseteq Lost
    <3>1. CASE attached <= MaxMsgs
      <4>1. Keeps /\ attached' = attached
        BY <1>8, <2>1, <3>1, PushAssumption DEF LossInv, Publish
      <4>2. Held' = Held \cup {published + 1}
        BY <2>1, <2>2, <4>1 DEF Held, InHand
      <4>3. attached .. published + 1 \subseteq (attached .. published) \cup {published + 1}
        BY <2>1
      <4> QED BY <2>1, <4>1, <4>2, <4>3 DEF Lost
    <3>2. CASE attached > MaxMsgs /\ Keeps
      <4>1. attached' = published + 1
        BY <1>8, <3>2 DEF Publish
      <4>2. attached' .. published' = {published + 1}
        BY <2>1, <4>1
      <4>3. published + 1 \in Held'
        BY <2>2, <3>2 DEF Held
      <4> QED BY <4>2, <4>3 DEF Lost
    <3>3. CASE attached > MaxMsgs /\ ~Keeps
      <4>1. attached' = MaxMsgs + 1
        BY <2>1, <2>3, <3>3, PushAssumption
      <4> QED BY <1>0, <4>1, NoSession
    <3> QED BY <2>1, <3>1, <3>2, <3>3, PushAssumption
  <2>5. Reserve' = Reserve
    BY <2>1 DEF Reserve
  <2> QED BY <1>1, <1>7, <2>1, <2>4, <2>5
<1>9. CASE Deliver
  <2>1. /\ UNCHANGED <<taken, hand, published, attached, mishaps, client>>
        /\ session # <<>> /\ session' = Tail(session)
    BY <1>9 DEF Deliver, Send, workerVars
  <2>2. Head(session) \in Nat /\ Elems(session) = {Head(session)} \cup Elems(session')
    BY <1>0, <2>1, HeadFirst
  <2>3. Reserve' = Reserve
    BY <2>1 DEF Reserve
  <2>4. CASE Len(deliveries) < Cap
    <3>1. Elems(deliveries') = Elems(deliveries) \cup {Head(session)}
      BY <1>0, <1>9, <2>2, <2>4, Appended DEF Deliver
    <3>2. Lost' \subseteq Lost
      BY <2>1, <2>2, <3>1 DEF Lost, Held, InHand
    <3>3. UNCHANGED dropped
      BY <1>9, <2>4 DEF Deliver
    <3> QED BY <1>1, <1>7, <2>1, <2>3, <3>2, <3>3
  <2>5. CASE ~(Len(deliveries) < Cap)
    <3>1. dropped' = dropped + 1 /\ deliveries' = deliveries
      BY <1>9, <2>5 DEF Deliver
    <3>2. Lost' \subseteq Lost \cup {Head(session)}
      BY <2>1, <2>2, <3>1 DEF Lost, Held, InHand
    <3>3. IsFiniteSet({Head(session)}) /\ Cardinality({Head(session)}) = 1
      BY FS_Singleton
    <3>4. Pays({Head(session)})
      BY <1>0, <1>1, <2>1, <2>3, <3>1, <3>2, <3>3 DEF Pays
    <3> QED BY <3>4
  <2> QED BY <2>4, <2>5
<1>10. CASE PushReceive
  <2>1. /\ UNCHANGED <<taken, session, published, attached, dropped, mishaps, client>>
        /\ deliveries # <<>> /\ hand = NoMessage
        /\ deliveries' = Tail(deliveries) /\ hand' = Head(deliveries)
    BY <1>10 DEF PushReceive, brokerVars
  <2>2. Elems(deliveries) = {hand'} \cup Elems(deliveries')
    BY <1>0, <2>1, HeadFirst
  <2>3. hand' # NoMessage
    <3>1. hand' \in 1 .. published /\ published \in Nat
      BY <2>2 DEF PushInv, PushTyped, Sorted, Held
    <3> QED BY <1>0, <3>1
  <2>4. Lost' \subseteq Lost
    BY <2>1, <2>2, <2>3 DEF Lost, Held, InHand
  <2>5. Reserve' = Reserve
    BY <2>1 DEF Reserve
  <2> QED BY <1>1, <1>7, <2>1, <2>4, <2>5
<1>11. CASE PushHandover
  <2>1. /\ UNCHANGED <<deliveries, session, published, attached, dropped, mishaps, client>>
        /\ taken' = Append(taken, hand) /\ hand' = NoMessage
    BY <1>11 DEF PushHandover, brokerVars
  <2>2. Elems(taken') = Elems(taken) \cup {hand}
    BY <1>0, <2>1, Appended
  <2>3. Lost' \subseteq Lost
    BY <2>1, <2>2 DEF Lost, Held, InHand
  <2>4. Reserve' = Reserve
    BY <2>1 DEF Reserve
  <2> QED BY <1>1, <1>7, <2>1, <2>3, <2>4
<1>12. CASE PushNack \/ PushCancel
  <2>1. /\ UNCHANGED <<taken, published, attached, session, deliveries, dropped, client>>
        /\ Mishap
    BY <1>12 DEF PushNack, PushCancel, brokerVars
  <2>2. Lost' \subseteq Lost \cup {hand}
    BY <2>1, <1>5, Forgets
  <2>3. Reserve' = Reserve
    BY <2>1 DEF Reserve
  <2>4. Pays({hand})
    BY <1>0, <1>1, <1>5, <1>6, <2>1, <2>2, <2>3 DEF Pays
  <2> QED BY <2>4
<1>13. CASE ClientLost
  <2>1. UNCHANGED <<taken, published, deliveries, hand, dropped>> /\ Mishap
    BY <1>13 DEF ClientLost, workerVars
  <2>2. (SentAgain /\ attached' = attached) \/ attached' = MaxMsgs + 1
    BY <1>13, SessionEnds DEF ClientLost, PushInv
  <2>3. Lost' \subseteq Lost \cup {}
    BY <1>0, <2>1, <2>2, SentAgainKeeps, Forgets, NoSession DEF InHand, PushInv
  <2>4. Pays({})
    BY <1>0, <1>1, <1>3, <1>6, <2>1, <2>3 DEF Pays
  <2> QED BY <2>4
<1>14. CASE AutoReconnect \/ PushGet \/ PubAck \/ UNCHANGED pushVars
  <2>1. /\ UNCHANGED <<taken, published, attached, session, deliveries, hand, dropped, mishaps>>
        /\ client = "down" <=> client' = "down"
    BY <1>14 DEF AutoReconnect, PushGet, PubAck, pushVars, brokerVars, workerVars
  <2>2. Reserve' = Reserve
    BY <2>1 DEF Reserve
  <2>3. Lost' \subseteq Lost
    BY <2>1 DEF Lost, Held, InHand
  <2> QED BY <1>1, <1>7, <2>1, <2>2, <2>3
<1>15. CASE PushConnect
  <2>1. UNCHANGED <<taken, published, hand, dropped, mishaps>> /\ client' = "up"
    BY <1>15 DEF PushConnect
  <2>2. Reserve' = 0
    BY <2>1 DEF Reserve
  <2>3. CASE attached' = MaxMsgs + 1
    BY <1>0, <1>1, <1>7, <2>1, <2>2, <2>3, NoSession
  <2>4. CASE attached' # MaxMsgs + 1
    <3>0. SentAgain /\ attached' = attached
      BY <1>15, <2>4, SessionEnds DEF PushConnect, PushInv
    <3>1. Elems(session) \subseteq Elems(session') /\ attached' = attached /\ transport = "mqtt"
      <4>1. Durable
        BY <1>15, <2>4 DEF PushConnect, EndSession
      <4> QED BY <3>0, <4>1, SentAgainKeeps DEF Durable, PushInv
    <3>2. client \in {"none", "down"}
      BY <1>15, <3>1 DEF PushConnect, IsConnected, PushInv, PushTyped
    <3>3. CASE client = "none"
      <4>1. Elems(deliveries) = {}
        BY <3>3, SeqShapes DEF LossInv
      <4>2. Lost' \subseteq Lost \cup {}
        BY <2>1, <3>1, <4>1, Forgets DEF InHand
      <4> QED BY <1>1, <1>7, <2>1, <2>2, <4>2
    <3>4. CASE client = "down"
      <4>1. Lost' \subseteq Lost \cup Elems(deliveries)
        BY <2>1, <3>1, Forgets DEF InHand
      <4>2. Reserve = Cap
        BY <3>4 DEF Reserve
      <4>3. Pays(Elems(deliveries))
        BY <1>0, <1>4, <2>1, <2>2, <4>1, <4>2 DEF Pays
      <4> QED BY <4>3
    <3> QED BY <3>2, <3>3, <3>4
  <2> QED BY <2>3, <2>4
<1>16. CASE PushConnectErr \/ Disconnect
  <2>1. UNCHANGED <<taken, published, hand, dropped>> /\ Mishap /\ client' = "none"
    BY <1>16 DEF PushConnectErr, Disconnect, workerVars
  <2>2. \/ Elems(session) \subseteq Elems(session') /\ attached' = attached
        \/ attached' = MaxMsgs + 1
    <3>1. CASE PushConnectErr
      BY <3>1 DEF PushConnectErr, brokerVars
    <3>2. CASE Disconnect
      BY <3>2, DisconnectEnds, SentAgainKeeps DEF PushInv
    <3> QED BY <1>16, <3>1, <3>2
  <2>3. Lost' \subseteq Lost \cup Elems(deliveries)
    BY <1>0, <2>1, <2>2, Forgets, NoSession DEF InHand
  <2>4. Reserve' = 0
    BY <2>1 DEF Reserve
  <2>5. Pays(Elems(deliveries))
    BY <1>0, <1>1, <1>4, <1>6, <2>1, <2>3, <2>4 DEF Pays
  <2> QED BY <2>5
<1>17. CASE PushCrash
  <2> DEFINE X == Elems(deliveries) \cup {hand}
  <2>1. UNCHANGED <<taken, published, dropped>> /\ Mishap /\ client' = "none"
    BY <1>17 DEF PushCrash
  <2>2. \/ Elems(session) \subseteq Elems(session') /\ attached' = attached
        \/ attached' = MaxMsgs + 1
    BY <1>17, SessionEnds, SentAgainKeeps DEF PushCrash, PushInv
  <2>3. Lost' \subseteq Lost \cup X
    BY <1>0, <1>5, <2>1, <2>2, Forgets, NoSession
  <2>4. Reserve' = 0
    BY <2>1 DEF Reserve
  <2>5. IsFiniteSet(X) /\ Cardinality(X) \in Nat /\ Cardinality(X) <= Cap + 1
    <3>1. IsFiniteSet(X)
      BY <1>4, <1>5, FS_Union
    <3>2. Cardinality(X) \in Nat /\ Cardinality(X) <= Cardinality(Elems(deliveries)) + 1
      BY <1>4, <1>5, Grows
    <3> QED BY <3>1, <3>2, <1>0, <1>4
  <2> HIDE DEF X
  <2>6. Pays(X)
    BY <1>0, <1>1, <1>6, <2>1, <2>3, <2>4, <2>5 DEF Pays
  <2> QED BY <2>6
<1> QED BY <1>8, <1>9, <1>10, <1>11, <1>12, <1>13, <1>14, <1>15, <1>16, <1>17
    DEF PushNext, PushWorker

(* A message the broker's session was given and the worker will not get    *)
(* met a full channel in the callback, or was in the channel or in the     *)
(* worker's hands when one of the faults came; a reconnect the library     *)
(* does by itself loses nothing.                                           *)
THEOREM PushLossHasCause == PushSpec => []LossHasCause
<1>1. PushInv /\ PushInv' /\ LossInv /\ [PushNext]_pushVars => LossInv'
  BY LossStep, SessionKept DEF LossInv
<1>2. PushInv /\ LossInv => LossHasCause
  <2> SUFFICES ASSUME PushInv, LossInv PROVE LossHasCause
    OBVIOUS
  <2>1. Missing = Lost
    BY Parts DEF Missing, Contains, Lost, Elems
  <2>2. Reserve \in Nat /\ IsFiniteSet(attached .. published)
    BY PushAssumption, FS_Interval DEF Reserve, PushInv, PushTyped
  <2>3. Cardinality(Lost) \in Nat
    BY <2>2, FS_Subset, FS_CardinalityType DEF Lost
  <2>4. dropped \in Nat /\ Budget(mishaps) \in Nat
    BY BudgetGrows DEF PushInv, PushTyped
  <2>5. Cardinality(Lost) <= dropped + Budget(mishaps)
    BY <2>2, <2>3, <2>4 DEF LossInv
  <2>6. Cardinality(Missing) = Cardinality(Missing)
    BY DEF Cardinality, Cardinality
  <2> QED BY <2>1, <2>5, <2>6 DEF LossHasCause, Budget
<1>3. PushInit => LossInv
  BY LossInitial
<1>4. PushSpec => []PushInv
  BY PushInvariant
<1> QED BY <1>1, <1>2, <1>3, <1>4, PTL DEF PushSpec

(* The types of the push connectors: the channel never exceeds its         *)
(* capacity, and only published messages are in flight or sent again.      *)
THEOREM PushTypes == PushSpec => []PushTypeOK
<1>1. PushInit => mishaps <= MaxMishaps
  BY PushAssumption DEF PushInit
<1>2. PushInv /\ mishaps <= MaxMishaps /\ [PushNext]_pushVars => (mishaps <= MaxMishaps)'
  <2> SUFFICES ASSUME PushInv, mishaps <= MaxMishaps, [PushNext]_pushVars
               PROVE  mishaps' <= MaxMishaps
    OBVIOUS
  <2>1. mishaps' = mishaps \/ Mishap
    BY DEF PushNext, pushVars, PushWorker, PushGet, PushConnect, PushReceive,
           PushHandover, PushConnectErr, Publish, ClientLost, AutoReconnect,
           Deliver, PubAck, PushCancel, PushNack, Disconnect, PushCrash
  <2> QED BY <2>1, PushAssumption DEF Mishap, PushInv, PushTyped
<1>3. PushInv /\ mishaps <= MaxMishaps => PushTypeOK
  <2> SUFFICES ASSUME PushInv, mishaps <= MaxMishaps PROVE PushTypeOK
    OBVIOUS
  <2>1. \A x \in Held \cup Elems(inflight) \cup again : x \in Message
    BY PushAssumption DEF PushInv, PushTyped, Sorted, Message
  <2>2. /\ \A i \in 1 .. Len(taken) : taken[i] \in Message
        /\ \A i \in 1 .. Len(deliveries) : deliveries[i] \in Message
        /\ \A i \in 1 .. Len(session) : session[i] \in Message
        /\ \A i \in 1 .. Len(inflight) : inflight[i] \in Message
    BY <2>1 DEF Held, Elems
  <2>3. ASSUME NEW s \in Seq(Nat), \A i \in 1 .. Len(s) : s[i] \in Message
        PROVE  s \in Seq(Message)
    BY <2>3
  <2>4. /\ taken \in Seq(Message) /\ deliveries \in Seq(Message)
        /\ session \in Seq(Message) /\ inflight \in Seq(Message)
    BY <2>2, <2>3 DEF PushInv, PushTyped
  <2>5. mishaps \in 0 .. MaxMishaps
    BY PushAssumption DEF PushInv, PushTyped
  <2>6. attached \in 0 .. MaxMsgs + 1 /\ again \subseteq Message
    BY <2>1 DEF PushInv, PushTyped
  <2> QED BY <2>4, <2>5, <2>6 DEF PushTypeOK, PushInv, PushTyped
<1>4. PushSpec => []PushInv
  BY PushInvariant
<1> QED BY <1>1, <1>2, <1>3, <1>4, PTL DEF PushSpec
=============================================================================
