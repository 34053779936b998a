----------------------------- MODULE KafkaProofs -----------------------------
(***************************************************************************)
(* The Kafka source loses only what was nacked and overtaken, for any      *)
(* number of members, messages and faults and any capacity of the          *)
(* deliveries channel, as long as a fresh group starts at the oldest       *)
(* offset.  (Where it starts at the newest, a crash before the group's     *)
(* first commit skips what had been received.)                             *)
(*                                                                         *)
(* Committing an offset releases all earlier ones, so the argument is that *)
(* every offset somebody may commit has only dealt-with offsets below it:  *)
(* handed over or nacked.  Inductively: whatever lies below a delivery in  *)
(* a channel is dealt with or is ahead of it in the same channel - across  *)
(* sessions, since a channel may hold the tail of an old session before    *)
(* the start of a new one, which re-reads from the committed offset.  The  *)
(* offset just below a commit was handed over itself.                      *)
(***************************************************************************)
EXTENDS KafkaSource, TLAPS

(* o was handed over, or could not be and was nacked *)
Dealt(o) == Handled(o) \/ o \in nacked

(* the message before offset o was handed over *)
Tip(o) == o > 0 => Handled(o - 1)

(* everything below offset o is dealt with *)
Below(o) == \A p \in Offsets : p < o => Dealt(p)

(* p is dealt with, or m will deal with it before its i-th delivery *)
Covered(m, i, p) ==
  \/ Dealt(p) \/ pending[m].off = p
  \/ \E j \in 1 .. Len(deliveries[m]) : j < i /\ deliveries[m][j].off = p

(* The offsets below a delivery in m's channel are dealt with before it. *)
ChannelOK(m) ==
  \A i \in 1 .. Len(deliveries[m]) : \A p \in Offsets :
    p < deliveries[m][i].off => Covered(m, i, p)

(* So are those below the position m's session will claim next. *)
ClaimOK(m) ==
  /\ consuming[m] => up[m]
  /\ owner = m =>
    /\ consuming[m]
    /\ \A p \in Offsets : p < pos => Covered(m, Len(deliveries[m]) + 1, p)

(* Those below the pending delivery are dealt with already; it is handed   *)
(* over when the worker commits, and recorded when it nacks.               *)
PendingOK(m) ==
  /\ pending[m] # NoDelivery <=> work[m] \in {"handover", "commit", "nack"}
  /\ Below(pending[m].off)
  /\ work[m] = "commit" => Handled(pending[m].off)
  /\ work[m] = "nack" => pending[m].off \in nacked

MemberOK(m) == ChannelOK(m) /\ ClaimOK(m) /\ PendingOK(m)

CommittedOK ==
  /\ Below(committed) /\ Tip(committed)
  /\ owner # Nobody => Below(marked) /\ Tip(marked)

KafkaInv == TypeOK /\ (\A m \in Members : MemberOK(m)) /\ CommittedOK

(* Initially nothing is produced, claimed or committed. *)
LEMMA KafkaInitOK == Init => KafkaInv
  BY KafkaAssumption, NobodyAssumption
  DEF Init, KafkaInv, TypeOK, MemberOK, ChannelOK, ClaimOK, PendingOK,
      CommittedOK, Tip, Below, Covered, Dealt, Handled, Offsets, NoOffset, Nobody,
      NoDelivery, Delivery

(* An emptied channel and pending slot are well typed. *)
LEMMA Emptied ==
  ASSUME TypeOK, NEW m \in Members,
         deliveries' = [deliveries EXCEPT ![m] = <<>>],
         pending' = [pending EXCEPT ![m] = NoDelivery]
  PROVE  /\ deliveries' \in [Members -> Seq(Delivery)]
         /\ \A n \in Members : Len(deliveries'[n]) <= Buf
         /\ pending' \in [Members -> Delivery \cup {NoDelivery}]
<1>1. <<>> \in Seq(Delivery) /\ Len(<<>>) = 0
  OBVIOUS
<1>2. deliveries' \in [Members -> Seq(Delivery)]
  BY <1>1 DEF TypeOK
<1>3. \A n \in Members : Len(deliveries'[n]) <= Buf
  BY <1>1, KafkaAssumption DEF TypeOK
<1>4. QED
  BY <1>2, <1>3 DEF TypeOK

(* Types: every step keeps TypeOK. *)
LEMMA KafkaTypes == TypeOK /\ [Next]_vars
                    /\ (\A m \in Members : work[m] \in {"handover", "commit", "nack"}
                                           => pending[m] # NoDelivery)
                    => TypeOK'
<1> SUFFICES ASSUME TypeOK, [Next]_vars,
                    \A m \in Members : work[m] \in {"handover", "commit", "nack"}
                                       => pending[m] # NoDelivery
             PROVE TypeOK'
  OBVIOUS
<1> USE KafkaAssumption, NobodyAssumption DEF TypeOK, Offsets, NoOffset, outcome
<1>1. CASE Produce
  BY <1>1 DEF Produce, group, connector
<1>2. CASE Revoke
  BY <1>2 DEF Revoke, Fault, connector
<1>3. ASSUME NEW m \in Members, Assign(m) PROVE TypeOK'
  BY <1>3 DEF Assign, InitialOffset, connector
<1>4. ASSUME NEW m \in Members, Disconnect(m) \/ Crash(m) PROVE TypeOK'
  <2>1. /\ deliveries' = [deliveries EXCEPT ![m] = <<>>]
        /\ pending' = [pending EXCEPT ![m] = NoDelivery]
    BY <1>4 DEF Disconnect, Crash, Drop
  <2>2. /\ deliveries' \in [Members -> Seq(Delivery)]
        /\ \A n \in Members : Len(deliveries'[n]) <= Buf
        /\ pending' \in [Members -> Delivery \cup {NoDelivery}]
    BY <2>1, Emptied
  <2>A. work' = work \/ work' = [work EXCEPT ![m] = "idle"]
    BY <1>4 DEF Disconnect, Crash, Goto
  <2>B. faults' \in 0 .. MaxFaults
    BY <1>4 DEF Disconnect, Crash, Fault
  <2>3. /\ Drop(m) /\ faults' \in 0 .. MaxFaults
        /\ work' \in [Members -> {"idle", "receive", "handover", "commit", "nack"}]
    BY <1>4, <2>A, <2>B DEF Disconnect, Crash
  <2>4. /\ up' \in [Members -> BOOLEAN] /\ consuming' \in [Members -> BOOLEAN]
        /\ groupErr' \in [Members -> BOOLEAN] /\ owner' \in Members \cup {Nobody}
    BY <2>3 DEF Drop, EndSession
  <2>5. QED
    BY <2>2, <2>3, <2>4 DEF Drop
<1>5. ASSUME NEW m \in Members, ConsumeFails(m) PROVE TypeOK'
  BY <1>5 DEF ConsumeFails, EndSession, Fault
<1>6. ASSUME NEW m \in Members, Refused(m) PROVE TypeOK'
  <2>1. pending[m].off \in Offsets
    BY <1>6 DEF Refused, Delivery
  <2>2. nacked' = nacked \cup {pending[m].off} /\ nacked' \subseteq Offsets
    BY <1>6, <2>1 DEF Refused
  <2>3. faults' \in 0 .. MaxFaults
    BY <1>6 DEF Refused, Fault
  <2>4. work' \in [Members -> {"idle", "receive", "handover", "commit", "nack"}]
    BY <1>6 DEF Refused, Goto
  <2>5. UNCHANGED <<hwm, group, connector, copies>>
    BY <1>6 DEF Refused
  <2>6. QED
    BY <2>2, <2>3, <2>4, <2>5 DEF group, connector
<1>7. ASSUME NEW m \in Members, Connect(m) \/ Reuse(m) PROVE TypeOK'
  <2>1. CASE Connect(m)
    <3>1. /\ deliveries' \in [Members -> Seq(Delivery)]
          /\ \A n \in Members : Len(deliveries'[n]) <= Buf
          /\ pending' \in [Members -> Delivery \cup {NoDelivery}]
      BY <2>1, Emptied DEF Connect
    <3>2. QED
      BY <2>1, <3>1 DEF Connect, Goto, group
  <2>2. CASE Reuse(m)
    BY <2>2 DEF Reuse, Goto, group, connector
  <2>3. QED
    BY <1>7, <2>1, <2>2
<1>8. ASSUME NEW m \in Members, ConsumeClaim(m) PROVE TypeOK'
  <2>1. [off |-> pos, gen |-> gen] \in Delivery
    BY <1>8 DEF ConsumeClaim, Delivery
  <2>2. Append(deliveries[m], [off |-> pos, gen |-> gen]) \in Seq(Delivery)
        /\ Len(Append(deliveries[m], [off |-> pos, gen |-> gen])) = Len(deliveries[m]) + 1
    BY <2>1
  <2>3. QED
    BY <1>8, <2>2 DEF ConsumeClaim
<1>9. ASSUME NEW m \in Members, Receive(m) PROVE TypeOK'
  <2>1. Tail(deliveries[m]) \in Seq(Delivery) /\ Head(deliveries[m]) \in Delivery
        /\ Len(Tail(deliveries[m])) = Len(deliveries[m]) - 1
    BY <1>9 DEF Receive
  <2>2. deliveries' \in [Members -> Seq(Delivery)]
        /\ \A n \in Members : Len(deliveries'[n]) <= Buf
    BY <1>9, <2>1 DEF Receive
  <2>3. pending' \in [Members -> Delivery \cup {NoDelivery}]
    BY <1>9, <2>1 DEF Receive
  <2>4. QED
    BY <1>9, <2>2, <2>3 DEF Receive, Goto, group
<1>10. ASSUME NEW m \in Members, ReceiveErr(m) PROVE TypeOK'
  BY <1>10 DEF ReceiveErr, Goto, group
<1>11. ASSUME NEW m \in Members, Handover(m) PROVE TypeOK'
  <2>1. pending[m].off \in Offsets
    BY <1>11 DEF Handover, Delivery
  <2>2. copies' \in [Offsets -> Nat]
    <3>1. copies[pending[m].off] + 1 \in Nat
      BY <2>1
    <3>2. copies' = [copies EXCEPT ![pending[m].off] = copies[pending[m].off] + 1]
      BY <1>11 DEF Handover
    <3>3. QED
      BY <3>1, <3>2
  <2>3. QED
    BY <1>11, <2>2 DEF Handover, Goto, group, connector
<1>12. ASSUME NEW m \in Members, Commit(m) PROVE TypeOK'
  <2>1. pending[m].off \in Offsets
    BY <1>12 DEF Commit, Delivery
  <2>2. marked' \in 0 .. MaxOffset
    BY <1>12, <2>1 DEF Commit, MarkMessage
  <2>3. committed' \in {NoOffset} \cup 0 .. MaxOffset /\ faults' \in 0 .. MaxFaults
    BY <1>12, <2>2 DEF Commit, Fault
  <2>4. pending' \in [Members -> Delivery \cup {NoDelivery}]
    BY <1>12 DEF Commit
  <2>5. work' \in [Members -> {"idle", "receive", "handover", "commit", "nack"}]
    BY <1>12 DEF Commit, Goto
  <2>6. UNCHANGED <<hwm, gen, owner, pos, base, up, consuming, deliveries, groupErr, outcome>>
    BY <1>12 DEF Commit
  <2>7. QED
    BY <2>2, <2>3, <2>4, <2>5, <2>6
<1>13. ASSUME NEW m \in Members, Nack(m) PROVE TypeOK'
  BY <1>13 DEF Nack, Goto, group
<1>14. CASE UNCHANGED vars
  BY <1>14 DEF vars, group, connector
<1>15. QED
  BY <1>1, <1>2, <1>3, <1>4, <1>5, <1>6, <1>7, <1>8, <1>9, <1>10, <1>11, <1>12, <1>13,
     <1>14 DEF Next, MemberStep

(* What a step does to the offsets dealt with: only Handover and Refused   *)
(* add one, no step takes one away.                                        *)
LEMMA DealtStays ==
  ASSUME TypeOK, [Next]_vars, NEW p \in Offsets,
         \A m \in Members : work[m] = "handover" => pending[m].off \in Offsets
  PROVE  /\ Handled(p) => Handled(p)'
         /\ Dealt(p) => Dealt(p)'
<1> USE DEF Handled, Dealt
<1>1. ASSUME NEW m \in Members, Handover(m) PROVE (Handled(p) => Handled(p)') /\ nacked' = nacked
  BY <1>1 DEF Handover, TypeOK
<1>2. ASSUME NEW m \in Members, Refused(m) PROVE copies' = copies /\ nacked \subseteq nacked'
  BY <1>2 DEF Refused
<1>3. CASE UNCHANGED outcome
  BY <1>3 DEF outcome
<1>4. QED
  BY <1>1, <1>2, <1>3 DEF Next, MemberStep, vars, Produce, Revoke, Assign, Disconnect, Crash,
     Drop, ConsumeFails, Connect, Reuse, ConsumeClaim, Receive, ReceiveErr, Commit, Nack

(* The offsets dealt with only grow. *)
Grows == /\ nacked \subseteq nacked'
         /\ \A p \in Offsets : (Handled(p) => Handled(p)') /\ (Dealt(p) => Dealt(p)')

(* A member whose own state a step leaves alone stays in order. *)
LEMMA Frame ==
  ASSUME NEW n \in Members, MemberOK(n), Grows, pending[n] \in Delivery \cup {NoDelivery},
         deliveries'[n] = deliveries[n], pending'[n] = pending[n], work'[n] = work[n],
         consuming'[n] = consuming[n], up'[n] = up[n], owner' = n => owner = n /\ pos' = pos
  PROVE  MemberOK(n)'
<1>1. ASSUME NEW i, NEW p \in Offsets, Covered(n, i, p) PROVE Covered(n, i, p)'
  BY <1>1 DEF Covered, Grows
<1>2. ChannelOK(n)'
  BY <1>1 DEF MemberOK, ChannelOK
<1>3. ClaimOK(n)'
  BY <1>1 DEF MemberOK, ClaimOK
<1>4. \A o : Below(o) => Below(o)'
  BY DEF Below, Grows
<1>5. work[n] \in {"commit", "nack"} => pending[n].off \in Offsets
  BY DEF MemberOK, PendingOK, Delivery
<1>6. PendingOK(n)'
  BY <1>4, <1>5 DEF MemberOK, PendingOK, Grows
<1>7. QED
  BY <1>2, <1>3, <1>6 DEF MemberOK

(* The inductive step, action by action. *)
LEMMA KafkaStep ==
  ASSUME Oldest, KafkaInv, [Next]_vars
  PROVE  KafkaInv'
<1> USE KafkaAssumption, NobodyAssumption
<1>0. TypeOK /\ CommittedOK /\ \A m \in Members : MemberOK(m)
  BY DEF KafkaInv
<1>a. TypeOK'
  BY <1>0, KafkaTypes DEF MemberOK, PendingOK
<1>b. \A n \in Members : work[n] = "handover" => pending[n].off \in Offsets
  BY <1>0 DEF MemberOK, PendingOK, TypeOK, Delivery
<1>h. nacked \subseteq nacked'
  BY DEF Next, MemberStep, vars, Produce, Revoke, Assign, Disconnect, Crash, Drop, ConsumeFails,
     Connect, Reuse, ConsumeClaim, Receive, ReceiveErr, Handover, Refused, Commit, Nack, outcome
<1>c. Grows
  BY <1>0, <1>b, <1>h, DealtStays DEF Grows
<1>d. \A o : Below(o) => Below(o)'
  BY <1>c DEF Below, Grows
<1>i. \A o \in {NoOffset} \cup 0 .. MaxOffset : Tip(o) => Tip(o)'
  BY <1>c DEF Tip, Grows, Offsets, NoOffset
<1>j. committed \in {NoOffset} \cup 0 .. MaxOffset /\ marked \in 0 .. MaxOffset
  BY <1>0 DEF TypeOK
<1>e. \A n \in Members : pending[n] \in Delivery \cup {NoDelivery}
  BY <1>0 DEF TypeOK
<1>f. ASSUME UNCHANGED <<committed, marked, owner>> PROVE CommittedOK'
  BY <1>0, <1>d, <1>i, <1>j, <1>f DEF CommittedOK
<1>1. CASE Produce
  <2>1. \A n \in Members : MemberOK(n)'
    BY <1>0, <1>1, <1>c, <1>e, Frame DEF Produce, group, connector
  <2>2. QED
    BY <1>1, <1>a, <1>f, <2>1 DEF Produce, group, KafkaInv
<1>2. CASE Revoke
  <2>1. \A n \in Members : MemberOK(n)'
    BY <1>0, <1>2, <1>c, <1>e, Frame DEF Revoke, connector
  <2>2. CommittedOK'
    BY <1>0, <1>2, <1>d, <1>i, <1>j DEF Revoke, CommittedOK
  <2>3. QED
    BY <1>a, <2>1, <2>2 DEF KafkaInv
<1>3. ASSUME NEW m \in Members, Assign(m) PROVE KafkaInv'
  <2>1. Below(InitialOffset) /\ Tip(InitialOffset) /\ InitialOffset \in 0 .. MaxOffset
    BY <1>0 DEF CommittedOK, InitialOffset, Below, Tip, Offsets, NoOffset, TypeOK
  <2>2. \A n \in Members \ {m} : MemberOK(n)'
    BY <1>0, <1>3, <1>c, <1>e, Frame DEF Assign, connector
  <2>3. ChannelOK(m)' /\ PendingOK(m)'
    <3>1. ASSUME NEW i, NEW p \in Offsets, Covered(m, i, p) PROVE Covered(m, i, p)'
      BY <1>3, <1>c, <3>1 DEF Covered, Grows, Assign, connector
    <3>2. ChannelOK(m)'
      BY <1>0, <1>3, <3>1 DEF MemberOK, ChannelOK, Assign, connector
    <3>3. PendingOK(m)'
      BY <1>0, <1>3, <1>d DEF MemberOK, PendingOK, Assign, connector, Handled, outcome
    <3>4. QED
      BY <3>2, <3>3
  <2>4. ClaimOK(m)'
    BY <1>0, <1>3, <1>c, <2>1 DEF MemberOK, ClaimOK, Assign, connector, Below, Covered, Grows
  <2>5. CommittedOK'
    BY <1>0, <1>3, <1>d, <1>i, <1>j, <2>1 DEF CommittedOK, Assign
  <2>6. QED
    BY <1>a, <2>2, <2>3, <2>4, <2>5 DEF KafkaInv, MemberOK
<1>g. ASSUME NEW m \in Members, deliveries'[m] = <<>>, pending'[m] = NoDelivery,
             work'[m] \in {"idle", "receive"}, owner' # m,
             consuming'[m] => up'[m]
      PROVE  MemberOK(m)'
  <2>1. ChannelOK(m)' /\ ClaimOK(m)'
    BY <1>g DEF ChannelOK, ClaimOK
  <2>2. PendingOK(m)'
    BY <1>g DEF PendingOK, NoDelivery, Below, Offsets, NoOffset
  <2>3. QED
    BY <2>1, <2>2 DEF MemberOK
<1>4. ASSUME NEW m \in Members, Disconnect(m) \/ Crash(m) PROVE KafkaInv'
  <2>1. /\ Drop(m) /\ work'[m] = "idle"
        /\ \A n \in Members \ {m} : work'[n] = work[n]
    BY <1>0, <1>4 DEF Disconnect, Crash, Goto, TypeOK
  <2>2. /\ deliveries'[m] = <<>> /\ pending'[m] = NoDelivery /\ owner' # m
        /\ ~consuming'[m]
        /\ (owner' # Nobody => owner' = owner) /\ UNCHANGED <<committed, marked, pos>>
        /\ \A n \in Members \ {m} : /\ deliveries'[n] = deliveries[n]
                                    /\ pending'[n] = pending[n]
                                    /\ consuming'[n] = consuming[n] /\ up'[n] = up[n]
    BY <1>0, <2>1 DEF Drop, EndSession, TypeOK
  <2>3. MemberOK(m)'
    BY <2>1, <2>2, <1>g
  <2>4. \A n \in Members \ {m} : MemberOK(n)'
    BY <1>0, <2>1, <2>2, <1>c, <1>e, Frame
  <2>5. CommittedOK'
    BY <1>0, <2>2, <1>d, <1>i, <1>j DEF CommittedOK
  <2>6. QED
    BY <1>a, <2>3, <2>4, <2>5 DEF KafkaInv
<1>5. ASSUME NEW m \in Members, ConsumeFails(m) PROVE KafkaInv'
  <2>1. owner' # m /\ (owner' # Nobody => owner' = owner) /\ ~consuming'[m]
    BY <1>0, <1>5 DEF ConsumeFails, EndSession, TypeOK
  <2>2. \A n \in Members \ {m} : MemberOK(n)'
    BY <1>0, <1>5, <2>1, <1>c, <1>e, Frame DEF ConsumeFails, TypeOK
  <2>3. ChannelOK(m)' /\ ClaimOK(m)' /\ PendingOK(m)'
    <3>1. ASSUME NEW i, NEW p \in Offsets, Covered(m, i, p) PROVE Covered(m, i, p)'
      BY <1>5, <1>c, <3>1 DEF Covered, Grows, ConsumeFails
    <3>2. ChannelOK(m)'
      BY <1>0, <1>5, <3>1 DEF MemberOK, ChannelOK, ConsumeFails
    <3>3. PendingOK(m)'
      BY <1>0, <1>5, <1>d DEF MemberOK, PendingOK, ConsumeFails, Handled, outcome
    <3>4. QED
      BY <2>1, <3>2, <3>3 DEF ClaimOK
  <2>4. CommittedOK'
    BY <1>0, <1>5, <2>1, <1>d, <1>i, <1>j DEF CommittedOK, ConsumeFails
  <2>5. QED
    BY <1>a, <2>2, <2>3, <2>4 DEF KafkaInv, MemberOK
<1>6. ASSUME NEW m \in Members, Refused(m) PROVE KafkaInv'
  <2>1. /\ UNCHANGED <<committed, marked, owner, pos, consuming, up, deliveries, pending>>
        /\ work'[m] = "nack" /\ work[m] = "handover" /\ pending[m].off \in nacked'
        /\ \A n \in Members \ {m} : work'[n] = work[n]
    BY <1>0, <1>6 DEF Refused, Goto, TypeOK, group, connector
  <2>2. ASSUME NEW i, NEW p \in Offsets, Covered(m, i, p) PROVE Covered(m, i, p)'
    BY <2>1, <1>c, <2>2 DEF Covered, Grows
  <2>3. ChannelOK(m)' /\ ClaimOK(m)'
    BY <1>0, <2>1, <2>2 DEF MemberOK, ChannelOK, ClaimOK
  <2>4. PendingOK(m)'
    BY <1>0, <2>1, <1>d DEF MemberOK, PendingOK
  <2>5. \A n \in Members \ {m} : MemberOK(n)'
    BY <1>0, <2>1, <1>c, <1>e, Frame
  <2>6. QED
    BY <1>a, <1>f, <2>1, <2>3, <2>4, <2>5 DEF KafkaInv, MemberOK
<1>7. ASSUME NEW m \in Members, Connect(m) PROVE KafkaInv'
  <2>1. /\ deliveries'[m] = <<>> /\ pending'[m] = NoDelivery /\ work'[m] = "receive"
        /\ up'[m]
        /\ UNCHANGED <<committed, marked, pos, owner>>
        /\ \A n \in Members \ {m} : /\ deliveries'[n] = deliveries[n]
                                    /\ pending'[n] = pending[n] /\ work'[n] = work[n]
                                    /\ consuming'[n] = consuming[n] /\ up'[n] = up[n]
    BY <1>0, <1>7 DEF Connect, Goto, TypeOK, group
  <2>2. owner # m
    BY <1>0, <1>7 DEF Connect, MemberOK, ClaimOK
  <2>3. MemberOK(m)'
    BY <2>1, <2>2, <1>g
  <2>4. \A n \in Members \ {m} : MemberOK(n)'
    BY <1>0, <2>1, <1>c, <1>e, Frame
  <2>5. QED
    BY <1>a, <1>f, <2>1, <2>3, <2>4 DEF KafkaInv
<1>8. ASSUME NEW m \in Members, Reuse(m) \/ ReceiveErr(m) PROVE KafkaInv'
  <2>1. /\ UNCHANGED <<committed, marked, pos, owner, deliveries, pending, consuming, up, outcome>>
        /\ work[m] \in {"idle", "receive"} /\ work'[m] \in {"idle", "receive"}
        /\ \A n \in Members \ {m} : work'[n] = work[n]
    BY <1>0, <1>8 DEF Reuse, ReceiveErr, Goto, TypeOK, group, connector
  <2>2. \A n \in Members \ {m} : MemberOK(n)'
    BY <1>0, <2>1, <1>c, <1>e, Frame
  <2>3. ChannelOK(m)' /\ ClaimOK(m)' /\ PendingOK(m)'
    <3>1. ASSUME NEW i, NEW p \in Offsets, Covered(m, i, p) PROVE Covered(m, i, p)'
      BY <2>1, <1>c, <3>1 DEF Covered, Grows
    <3>2. ChannelOK(m)' /\ ClaimOK(m)'
      BY <1>0, <2>1, <3>1 DEF MemberOK, ChannelOK, ClaimOK
    <3>3. PendingOK(m)'
      BY <1>0, <2>1, <1>d DEF MemberOK, PendingOK
    <3>4. QED
      BY <3>2, <3>3
  <2>4. QED
    BY <1>a, <1>f, <2>1, <2>2, <2>3 DEF KafkaInv, MemberOK
<1>9. ASSUME NEW m \in Members, ConsumeClaim(m) PROVE KafkaInv'
  <2> DEFINE d == [off |-> pos, gen |-> gen]
             len == Len(deliveries[m])
  <2>1. /\ deliveries[m] \in Seq(Delivery)
        /\ deliveries'[m] = Append(deliveries[m], d)
        /\ \A n \in Members \ {m} : deliveries'[n] = deliveries[n]
        /\ owner = m /\ pos \in Nat /\ pos' = pos + 1
        /\ UNCHANGED <<committed, marked, owner, pending, work, consuming, up, outcome>>
    BY <1>0, <1>9 DEF ConsumeClaim, TypeOK
  <2>2. /\ Len(deliveries'[m]) = len + 1 /\ len \in Nat
        /\ \A i \in 1 .. len : deliveries'[m][i] = deliveries[m][i]
        /\ deliveries'[m][len + 1] = d /\ d.off = pos
    BY <2>1
  <2>3. \A n \in Members \ {m} : MemberOK(n)'
    BY <1>0, <2>1, <1>c, <1>e, Frame
  <2>4. PICK k \in Nat, q \in Offsets : k = len /\ q = pos
    BY <1>0, <1>9, <2>2 DEF ConsumeClaim, TypeOK, Offsets
  <2>5. ASSUME NEW i \in 1 .. k + 1, NEW p \in Offsets, Covered(m, i, p)
        PROVE  Covered(m, i, p)' /\ Covered(m, k + 2, p)'
    <3>1. CASE Dealt(p)
      BY <3>1, <1>c DEF Covered, Grows
    <3>2. CASE pending[m].off = p
      BY <2>1, <3>2 DEF Covered
    <3>3. ASSUME NEW j \in 1 .. k, j < i, deliveries[m][j].off = p
          PROVE  Covered(m, i, p)' /\ Covered(m, k + 2, p)'
      <4>1. j \in 1 .. Len(deliveries'[m]) /\ j < k + 2 /\ deliveries'[m][j].off = p
        BY <2>2, <2>4, <3>3
      <4>2. QED
        BY <3>3, <4>1 DEF Covered
    <3>4. QED
      BY <2>4, <2>5, <3>1, <3>2, <3>3 DEF Covered
  <2>6. \A p \in Offsets : p < q => Covered(m, k + 1, p)
    BY <1>0, <2>1, <2>4 DEF MemberOK, ClaimOK
  <2>7. ChannelOK(m)'
    BY <1>0, <2>1, <2>2, <2>4, <2>5, <2>6 DEF MemberOK, ChannelOK
  <2>8. ClaimOK(m)'
    <3>1. Covered(m, k + 2, q)'
      BY <2>1, <2>2, <2>4 DEF Covered
    <3>2. ASSUME NEW p \in Offsets, p < q + 1 PROVE Covered(m, k + 2, p)'
      BY <2>5, <2>6, <3>1, <3>2 DEF Offsets
    <3>3. pos' = q + 1 /\ Len(deliveries'[m]) + 1 = k + 2
      BY <2>1, <2>2, <2>4
    <3>4. QED
      BY <1>0, <2>1, <3>2, <3>3 DEF MemberOK, ClaimOK
  <2>9. PendingOK(m)'
    BY <1>0, <2>1, <1>d DEF MemberOK, PendingOK, Handled, outcome
  <2>10. QED
    BY <1>a, <1>f, <2>1, <2>3, <2>7, <2>8, <2>9 DEF KafkaInv, MemberOK
<1>10. ASSUME NEW m \in Members, Receive(m) PROVE KafkaInv'
  <2> DEFINE len == Len(deliveries[m])
  <2>1. /\ deliveries[m] \in Seq(Delivery) /\ deliveries[m] # <<>>
        /\ deliveries'[m] = Tail(deliveries[m]) /\ pending'[m] = Head(deliveries[m])
        /\ work[m] = "receive" /\ work'[m] = "handover"
        /\ \A n \in Members \ {m} : /\ deliveries'[n] = deliveries[n]
                                    /\ pending'[n] = pending[n] /\ work'[n] = work[n]
        /\ UNCHANGED <<committed, marked, owner, pos, consuming, up, outcome>>
    BY <1>0, <1>10 DEF Receive, TypeOK, Goto, group
  <2>2. /\ len \in Nat /\ len > 0 /\ Len(deliveries'[m]) = len - 1
        /\ \A i \in 1 .. len - 1 : deliveries'[m][i] = deliveries[m][i + 1]
        /\ pending'[m] = deliveries[m][1] /\ deliveries[m][1] \in Delivery
    BY <2>1
  <2>3. pending[m] = NoDelivery
    BY <1>0, <2>1 DEF MemberOK, PendingOK
  <2>4. ASSUME NEW p \in Offsets, NEW i \in 1 .. len, Covered(m, i + 1, p)
        PROVE  Covered(m, i, p)'
    <3>1. pending[m].off # p
      BY <2>3 DEF NoDelivery, NoOffset, Offsets
    <3>2. CASE Dealt(p)
      BY <3>2, <1>c DEF Covered, Grows
    <3>3. ASSUME NEW j \in 1 .. len, j < i + 1, deliveries[m][j].off = p
          PROVE Covered(m, i, p)'
      <4>1. CASE j = 1
        BY <3>3, <4>1, <2>2 DEF Covered
      <4>2. CASE j # 1
        <5>1. /\ j - 1 \in 1 .. Len(deliveries'[m]) /\ j - 1 < i
              /\ deliveries'[m][j - 1] = deliveries[m][j]
          BY <3>3, <4>2, <2>2
        <5>2. QED
          BY <5>1, <3>3 DEF Covered
      <4>3. QED
        BY <4>1, <4>2
    <3>4. QED
      BY <2>4, <3>1, <3>2, <3>3 DEF Covered
  <2>5. ChannelOK(m)'
    <3>1. ASSUME NEW i \in 1 .. len - 1, NEW p \in Offsets, p < deliveries'[m][i].off
          PROVE  Covered(m, i, p)'
      <4>1. i + 1 \in 1 .. len /\ p < deliveries[m][i + 1].off
        BY <3>1, <2>2
      <4>2. Covered(m, i + 1, p)
        BY <4>1, <1>0 DEF MemberOK, ChannelOK
      <4>3. QED
        BY <4>2, <2>2, <2>4
    <3>2. QED
      BY <3>1, <2>2 DEF ChannelOK
  <2>6. ClaimOK(m)'
    BY <1>0, <2>1, <2>2, <2>4 DEF MemberOK, ClaimOK
  <2>7. Below(deliveries[m][1].off)
    <3>1. ASSUME NEW p \in Offsets, p < deliveries[m][1].off PROVE Dealt(p)
      <4>1. Covered(m, 1, p)
        BY <1>0, <2>2, <3>1 DEF MemberOK, ChannelOK
      <4>2. pending[m].off # p
        BY <2>3 DEF NoDelivery, NoOffset, Offsets
      <4>3. QED
        BY <4>1, <4>2, <2>2 DEF Covered
    <3>2. QED
      BY <3>1 DEF Below
  <2>8. deliveries[m][1] # NoDelivery
    BY <2>2 DEF Delivery, NoDelivery, NoOffset, Offsets
  <2>9. PendingOK(m)'
    BY <2>1, <2>2, <2>7, <2>8, <1>d DEF PendingOK
  <2>10. \A n \in Members \ {m} : MemberOK(n)'
    BY <1>0, <2>1, <1>c, <1>e, Frame
  <2>11. QED
    BY <1>a, <1>f, <2>1, <2>5, <2>6, <2>9, <2>10 DEF KafkaInv, MemberOK
<1>11. ASSUME NEW m \in Members, Handover(m) PROVE KafkaInv'
  <2>1. pending[m].off \in Offsets
    BY <1>0, <1>11 DEF Handover, MemberOK, PendingOK, TypeOK, Delivery
  <2>2. Handled(pending[m].off)'
    BY <1>0, <1>11, <2>1 DEF Handover, Handled, TypeOK, connector
  <2>3. /\ UNCHANGED <<committed, marked, owner, pos, consuming, up, deliveries, pending>>
        /\ work'[m] = "commit" /\ work[m] = "handover"
        /\ \A n \in Members \ {m} : work'[n] = work[n]
    BY <1>0, <1>11 DEF Handover, Goto, TypeOK, group, connector
  <2>4. ASSUME NEW i, NEW p \in Offsets, Covered(m, i, p) PROVE Covered(m, i, p)'
    BY <2>3, <1>c, <2>4 DEF Covered, Grows
  <2>5. ChannelOK(m)' /\ ClaimOK(m)'
    BY <1>0, <2>3, <2>4 DEF MemberOK, ChannelOK, ClaimOK
  <2>6. PendingOK(m)'
    BY <1>0, <2>2, <2>3, <1>d DEF MemberOK, PendingOK
  <2>7. \A n \in Members \ {m} : MemberOK(n)'
    BY <1>0, <2>3, <1>c, <1>e, Frame
  <2>8. QED
    BY <1>a, <1>f, <2>3, <2>5, <2>6, <2>7 DEF KafkaInv, MemberOK
<1>k. ASSUME NEW m \in Members, Dealt(pending[m].off),
             UNCHANGED <<owner, pos, consuming, up, deliveries>>,
             work'[m] = "idle", pending'[m] = NoDelivery,
             \A n \in Members \ {m} : work'[n] = work[n] /\ pending'[n] = pending[n]
      PROVE  \A n \in Members : MemberOK(n)'
  <2>1. ASSUME NEW i, NEW p \in Offsets, Covered(m, i, p) PROVE Covered(m, i, p)'
    BY <1>k, <1>c, <2>1 DEF Covered, Grows
  <2>2. ChannelOK(m)' /\ ClaimOK(m)'
    BY <1>0, <1>k, <2>1 DEF MemberOK, ChannelOK, ClaimOK
  <2>3. PendingOK(m)'
    BY <1>k DEF PendingOK, NoDelivery, NoOffset, Below, Offsets
  <2>4. \A n \in Members \ {m} : MemberOK(n)'
    BY <1>0, <1>k, <1>c, <1>e, Frame
  <2>5. QED
    BY <2>2, <2>3, <2>4 DEF MemberOK
<1>12. ASSUME NEW m \in Members, Commit(m) PROVE KafkaInv'
  <2>1. Handled(pending[m].off) /\ pending[m].off \in Offsets /\ Below(pending[m].off)
    BY <1>0, <1>12 DEF Commit, MemberOK, PendingOK, TypeOK, Delivery
  <2>2. Below(pending[m].off + 1) /\ Tip(pending[m].off + 1)
    BY <2>1 DEF Offsets, Below, Tip, Dealt
  <2>3. owner # Nobody => Below(marked') /\ Tip(marked')
    BY <1>0, <1>12, <2>2 DEF Commit, MarkMessage, CommittedOK
  <2>4. /\ UNCHANGED <<owner, pos, consuming, up, deliveries, outcome>>
        /\ work'[m] = "idle" /\ pending'[m] = NoDelivery
        /\ \A n \in Members \ {m} : work'[n] = work[n] /\ pending'[n] = pending[n]
    BY <1>0, <1>12 DEF Commit, Goto, TypeOK
  <2>5. CommittedOK'
    <3>1. committed' = committed \/ (committed' = marked' /\ owner # Nobody)
      BY <1>12, NobodyAssumption DEF Commit
    <3>2. Below(committed') /\ Tip(committed')
      BY <1>0, <2>3, <3>1 DEF CommittedOK
    <3>3. \A o : (Below(o) => \A p \in Offsets : p < o => Dealt(p)')
                /\ (Tip(o) => (o > 0 => Handled(o - 1)'))
      BY <2>4 DEF Below, Tip, Dealt, Handled, outcome
    <3>4. QED
      BY <2>3, <2>4, <3>2, <3>3 DEF CommittedOK, Below, Tip
  <2>6. \A n \in Members : MemberOK(n)'
    BY <2>1, <2>4, <1>k DEF Dealt
  <2>7. QED
    BY <1>a, <2>5, <2>6 DEF KafkaInv
<1>13. ASSUME NEW m \in Members, Nack(m) PROVE KafkaInv'
  <2>1. Dealt(pending[m].off)
    BY <1>0, <1>13 DEF Nack, MemberOK, PendingOK, Dealt
  <2>2. /\ UNCHANGED <<committed, marked, owner, pos, consuming, up, deliveries>>
        /\ work'[m] = "idle" /\ pending'[m] = NoDelivery
        /\ \A n \in Members \ {m} : work'[n] = work[n] /\ pending'[n] = pending[n]
    BY <1>0, <1>13 DEF Nack, Goto, TypeOK, group
  <2>3. \A n \in Members : MemberOK(n)'
    BY <2>1, <2>2, <1>k
  <2>4. QED
    BY <1>a, <1>f, <2>2, <2>3 DEF KafkaInv
<1>14. CASE UNCHANGED vars
  <2>1. \A n \in Members : MemberOK(n)'
    BY <1>0, <1>14, <1>c, <1>e, Frame DEF vars, group, connector
  <2>2. QED
    BY <1>14, <1>a, <1>f, <2>1 DEF vars, group, KafkaInv
<1>15. QED
  BY <1>1, <1>2, <1>3, <1>4, <1>5, <1>6, <1>7, <1>8, <1>9, <1>10, <1>11, <1>12, <1>13, <1>14
     DEF Next, MemberStep

(* Between receive and settlement, and only then, the pending slot is      *)
(* taken: the worker has something to settle whenever it settles.          *)
SlotTaken ==
  \A m \in Members :
    pending[m] # NoDelivery <=> work[m] \in {"handover", "commit", "nack"}

(* Every step keeps the slot and the worker's place together. *)
LEMMA SlotStays == TypeOK /\ SlotTaken /\ [Next]_vars => SlotTaken'
<1> SUFFICES ASSUME TypeOK, SlotTaken, [Next]_vars PROVE SlotTaken'
  OBVIOUS
<1> USE DEF SlotTaken
<1>0. /\ work \in [Members -> {"idle", "receive", "handover", "commit", "nack"}]
      /\ pending \in [Members -> Delivery \cup {NoDelivery}]
  BY DEF TypeOK
<1>1. CASE Produce \/ Revoke \/ \E m \in Members : Assign(m) \/ ConsumeFails(m) \/ ConsumeClaim(m)
  BY <1>1 DEF Produce, Revoke, Assign, ConsumeFails, ConsumeClaim, connector
<1>2. ASSUME NEW m \in Members, Connect(m) \/ Disconnect(m) \/ Crash(m) \/ Commit(m) \/ Nack(m)
      PROVE  SlotTaken'
  <2>1. /\ pending' = [pending EXCEPT ![m] = NoDelivery]
        /\ \/ work' = [work EXCEPT ![m] = "idle"] \/ work' = [work EXCEPT ![m] = "receive"]
           \/ work' = work /\ work[m] = "idle"
    BY <1>2 DEF Connect, Disconnect, Crash, Drop, Commit, Nack, Goto
  <2> QED BY <1>0, <2>1
<1>3. ASSUME NEW m \in Members, Reuse(m) \/ ReceiveErr(m) \/ Handover(m) \/ Refused(m)
      PROVE  SlotTaken'
  BY <1>0, <1>3 DEF Reuse, ReceiveErr, Handover, Refused, Goto, connector
<1>4. ASSUME NEW m \in Members, Receive(m) PROVE SlotTaken'
  <2>1. Head(deliveries[m]) \in Delivery
    BY <1>4 DEF TypeOK, Receive
  <2>2. Head(deliveries[m]) # NoDelivery
    BY <2>1, KafkaAssumption DEF Delivery, NoDelivery, Offsets, NoOffset
  <2> QED BY <1>0, <1>4, <2>2 DEF Receive, Goto
<1>5. CASE UNCHANGED vars
  BY <1>5 DEF vars, connector
<1> QED BY <1>1, <1>2, <1>3, <1>4, <1>5 DEF Next, MemberStep

(* The types of the Kafka source, wherever a group starts: the channel     *)
(* never exceeds its capacity, the worker settles only what it holds, and  *)
(* positions stay inside the log.                                          *)
THEOREM KafkaTyped == Spec => []TypeOK
<1>1. Init => TypeOK /\ SlotTaken
  BY KafkaInitOK DEF KafkaInv, MemberOK, SlotTaken, PendingOK
<1>2. TypeOK /\ SlotTaken /\ [Next]_vars => TypeOK' /\ SlotTaken'
  BY KafkaTypes, SlotStays DEF SlotTaken
<1> QED BY <1>1, <1>2, PTL DEF Spec

(* The inductive invariant of the Kafka source. *)
THEOREM KafkaInvariant ==
  ASSUME Oldest PROVE Spec => []KafkaInv
  BY KafkaInitOK, KafkaStep, PTL DEF Spec

(* At-least-once of the Kafka connector: no commit, rebalance, crash or    *)
(* reconnect moves the group past a message nobody has taken; only the     *)
(* commit of a later message moves it past one that was nacked.            *)
THEOREM KafkaLosesOnlyNacked ==
  ASSUME Oldest PROVE Spec => []OnlyOvertaken
<1>1. KafkaInv => OnlyOvertaken
  <2> SUFFICES ASSUME KafkaInv, NEW o \in Offsets, Passed(o), ~Handled(o)
               PROVE  o \in nacked /\ \E p \in Offsets : o < p /\ Handled(p)
    BY DEF OnlyOvertaken
  <2>1. committed \in 0 .. MaxOffset /\ o < committed
    BY DEF KafkaInv, TypeOK, Passed, InitialOffset, Offsets, NoOffset
  <2>2. o \in nacked
    BY <2>1 DEF KafkaInv, CommittedOK, Below, Dealt
  <2>3. committed - 1 \in Offsets /\ Handled(committed - 1) /\ o <= committed - 1
    BY <2>1, KafkaAssumption DEF KafkaInv, CommittedOK, Tip, Offsets
  <2>4. o < committed - 1
    BY <2>1, <2>3 DEF Offsets
  <2>5. QED
    BY <2>2, <2>3, <2>4
<1>2. QED
  BY <1>1, KafkaInvariant, PTL

(* Depth: a lag of zero means that everything produced is dealt with. *)
THEOREM KafkaDrainedIsDone ==
  ASSUME Oldest PROVE Spec => []DrainedIsDone
<1>1. KafkaInv => DrainedIsDone
  BY DEF KafkaInv, CommittedOK, Below, Dealt, DrainedIsDone, Depth, Offsets, TypeOK, NoOffset
<1>2. QED
  BY <1>1, KafkaInvariant, PTL
=============================================================================
