------------------------------- MODULE Handoff -------------------------------
(***************************************************************************)
(* What the executor promises about a source message, and nothing else:    *)
(* responsibility for it is handed over, never dropped.  The source broker *)
(* may forget a message only once somebody downstream owns it: every       *)
(* destination has its payload, or the dead-letter queue has a row for it. *)
(* (The contract in the comments of Connector.Commit and                   *)
(* Executor.finalize; Executor.tla is shown to implement it.)              *)
(***************************************************************************)
CONSTANT Msgs

VARIABLES pending,      \* messages the source broker still answers for
          owned         \* messages a destination or the DLQ answers for

handoffVars == <<pending, owned>>

HandoffInit == pending = Msgs /\ owned = {}

TakeOver(m) ==
  /\ m \notin owned
  /\ owned' = owned \cup {m}
  /\ UNCHANGED pending

Release(m) ==
  /\ m \in pending /\ m \in owned
  /\ pending' = pending \ {m}
  /\ UNCHANGED owned

HandoffNext == \E m \in Msgs : TakeOver(m) \/ Release(m)

HandoffSpec == HandoffInit /\ [][HandoffNext]_handoffVars
=============================================================================
