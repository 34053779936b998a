-------------------------- MODULE LeadershipProofs --------------------------
(***************************************************************************)
(* What holds of the lease for any number of replicas and any timing.      *)
(*  - Mutual exclusion, if ttl, ticker period and statement latency are    *)
(*    Timely.  The induction keeps the exact time a leader's row has left: *)
(*    TTL minus the age of the attempt that wrote it.  Nobody else's WHERE *)
(*    clause is true before that is used up, and by then the leader has    *)
(*    renewed or stepped down.                                             *)
(*  - A replica's workers run exactly while it leads, once its consumer has *)
(*    handled all events.                                                  *)
(*  - The time without a leader is bounded: a potential, the time some     *)
(*    replica still needs until its upsert, falls with every tick.         *)
(***************************************************************************)
EXTENDS Leadership, SequenceTheorems, TLAPS

(* The part of the type that the argument needs *)
LeaseTypes ==
  /\ holder \in Replicas \cup {Nobody}
  /\ rem \in Int
  /\ step \in [Replicas -> Steps]
  /\ age \in [Replicas -> Nat]
  /\ lead \in [Replicas -> BOOLEAN]

(* Nobody that competes is overdue *)
AgesBounded ==
  \A r \in Replicas :
     /\ step[r] = "wait" => age[r] <= MaxWait
     /\ Attempting(r) => age[r] <= Latency

(* The row was written by the last attempt, or is about to be renewed *)
Fresh(r) == holder = r /\ rem = TTL - age[r]
Ageing(r) == holder = r /\ rem >= TTL - MaxWait - age[r]

RowBacksRole ==
  \A r \in Replicas :
     /\ step[r] = "won" => Fresh(r)
     /\ lead[r] /\ step[r] = "wait" => Fresh(r)
     /\ lead[r] /\ step[r] \in {"sql", "locked", "lost"} => Ageing(r)
     /\ lead[r] => Competes(r)

LeaseInv == LeaseTypes /\ AgesBounded /\ RowBacksRole

(* Whoever leads, or has just won, holds a row that no other replica can   *)
(* claim yet.                                                              *)
LEMMA RoleHoldsRow ==
  ASSUME Timely, LeaseInv, NEW r \in Replicas, lead[r] \/ step[r] = "won"
  PROVE  holder = r /\ rem >= 0
  BY TimesAssumption
     DEF Timely, LeaseInv, LeaseTypes, AgesBounded, RowBacksRole, Fresh, Ageing,
         Attempting, Competes, Up, Steps

(* Before the first boot nobody leads *)
LEMMA LeaseInitial == Init => LeaseInv
  BY TimesAssumption
     DEF Init, LeaseInv, LeaseTypes, AgesBounded, RowBacksRole, Attempting, Steps,
         Floor

(* The consumer and the handlers leave the lease alone *)
LEMMA ReloadingKeepsRow ==
  /\ \A r \in Replicas : TakeEvent(r) => UNCHANGED <<holder, rem, step, age, lead, vacant, faults>>
  /\ \A r \in Replicas, h \in Handlers :
       ApiReload(r, h) => UNCHANGED <<holder, rem, step, age, lead, vacant, faults>>
  /\ \A r \in Replicas, c \in Callers :
       ReloadStep(r, c) => /\ UNCHANGED <<holder, rem, step, age, lead, vacant>>
                           /\ faults' = faults \/ Fault
  BY DEF TakeEvent, ApiReload, ReloadStep, Drained, Started, ReloadFails, rowVars

(* Every step keeps the invariant: one case per kind of action *)
LEMMA LeaseStepKeeps ==
  ASSUME Timely, LeaseInv, [Next]_vars
  PROVE  LeaseInv'
<1> USE TimesAssumption, ReplicasAssumption DEF LeaseInv, LeaseTypes, Steps
<1>1. ASSUME NEW r \in Replicas, Boot(r) \/ BootFails(r) \/ Attempt(r) \/ AdvisoryLock(r)
      PROVE  LeaseInv'
  BY <1>1 DEF Boot, BootFails, Attempt, AdvisoryLock, AgesBounded, RowBacksRole, Fresh,
              Ageing, Attempting, Competes, Up, rowVars
<1>2. ASSUME NEW r \in Replicas, Upsert(r) \/ UpsertFails(r)
      PROVE  LeaseInv'
  <2>1. \A q \in Replicas \ {r} :
           lead[q] \/ step[q] = "won" => ~Claimable(r)
    BY <1>2, RoleHoldsRow DEF Claimable
  <2>2. LeaseTypes' /\ AgesBounded'
    BY <1>2 DEF Upsert, UpsertFails, Claim, AgesBounded, Attempting, rowVars,
                ReadyToClaim
  <2>3. CASE UNCHANGED rowVars
    BY <1>2, <2>2, <2>3
       DEF Upsert, UpsertFails, Claim, RowBacksRole, Fresh, Ageing,
           Attempting, Competes, Up, rowVars, ReadyToClaim
  <2>4. CASE Claimable(r) /\ Claim(r)
    BY <1>2, <2>1, <2>2, <2>4
       DEF Upsert, UpsertFails, Claim, RowBacksRole, Fresh, Ageing,
           Attempting, Competes, Up, ReadyToClaim
  <2>5. UNCHANGED rowVars \/ (Claimable(r) /\ Claim(r))
    BY <1>2 DEF Upsert, UpsertFails
  <2> QED BY <2>3, <2>4, <2>5
<1>3. ASSUME NEW r \in Replicas, Promote(r) \/ Demote(r)
      PROVE  LeaseInv'
  <2>1. PICK s \in BOOLEAN :
          /\ step[r] = (IF s THEN "won" ELSE "lost")
          /\ lead' = [lead EXCEPT ![r] = s]
          /\ step' = [step EXCEPT ![r] = "wait"]
          /\ UNCHANGED <<holder, rem, age>>
    BY <1>3 DEF Promote, Demote, SetLead, rowVars
  <2>2. LeaseTypes' /\ AgesBounded'
    BY <2>1 DEF Timely, AgesBounded, Attempting
  <2>3. RowBacksRole'
    BY <2>1 DEF RowBacksRole, Fresh, Ageing, Competes, Up
  <2> QED BY <2>2, <2>3
<1>4. ASSUME NEW r \in Replicas, Shutdown(r) \/ Crash(r)
      PROVE  LeaseInv'
  <2>1. PICK how \in {"stopped", "crashed"} :
          /\ step' = [step EXCEPT ![r] = how]
          /\ age' = [age EXCEPT ![r] = 0]
          /\ lead' = [lead EXCEPT ![r] = FALSE]
          /\ UNCHANGED <<holder, rem>>
    BY <1>4 DEF Shutdown, Crash, Exit, rowVars
  <2>2. LeaseTypes' /\ AgesBounded'
    BY <2>1 DEF AgesBounded, Attempting
  <2>3. RowBacksRole'
    BY <2>1 DEF RowBacksRole, Fresh, Ageing, Competes, Up
  <2> QED BY <2>2, <2>3
<1>5. ASSUME UNCHANGED <<holder, rem, step, age, lead>> PROVE LeaseInv'
  BY <1>5 DEF AgesBounded, RowBacksRole, Fresh, Ageing, Attempting, Competes, Up
<1>6. CASE Tick
  <2>1. LeaseTypes' /\ AgesBounded'
    BY <1>6 DEF Tick, OnTime, AgesBounded, Attempting, Competes, Up, Floor
  <2>2. ASSUME NEW r \in Replicas, lead[r] \/ step[r] = "won"
        PROVE  rem' = rem - 1 /\ age'[r] = age[r] + 1
    BY <1>6, <2>2, RoleHoldsRow DEF Tick, Floor, RowBacksRole, Competes, Up
  <2>3. RowBacksRole'
    BY <1>6, <2>2 DEF Tick, RowBacksRole, Fresh, Ageing, Competes, Up
  <2> QED BY <2>1, <2>3
<1> QED
  BY <1>1, <1>2, <1>3, <1>4, <1>5, <1>6, ReloadingKeepsRow DEF Next, LeaseStep, vars, rowVars

(* The lease is a lock: if renewals are timely (no pause or statement      *)
(* longer than the lease allows), a replica whose IsLeader is true holds   *)
(* an unexpired row.                                                       *)
THEOREM LeaseBacksLeader ==
  ASSUME Timely
  PROVE  Spec => []LeaderHoldsLease
<1>1. LeaseInv => LeaderHoldsLease
  BY RoleHoldsRow DEF LeaderHoldsLease
<1> QED
  BY <1>1, LeaseInitial, LeaseStepKeeps, PTL DEF Spec

(* IsLeader is true on one replica at most, however attempts, errors,      *)
(* crashes, restarts and shutdowns interleave.                             *)
THEOREM LeaseExcludes ==
  ASSUME Timely
  PROVE  Spec => []AtMostOneLeader
<1>1. LeaseInv => AtMostOneLeader
  BY RoleHoldsRow DEF AtMostOneLeader
<1> QED
  BY <1>1, LeaseInitial, LeaseStepKeeps, PTL DEF Spec

-----------------------------------------------------------------------------
(* The types in two halves: the row and the attempts, and the consumer.  *)
RowTypes ==
  /\ LeaseTypes
  /\ rem <= TTL
  /\ vacant \in Nat
  /\ faults \in Nat
ConsumerTypes ==
  /\ chan \in [Replicas -> Seq(BOOLEAN)]
  /\ told \in [Replicas -> BOOLEAN]
  /\ astray \in [Replicas -> BOOLEAN]
  /\ reload \in [Replicas -> [Callers -> {"none", "drain", "list"}]]
  /\ workers \in [Replicas -> BOOLEAN]

LEMMA TypesSplit == TypeOK <=> RowTypes /\ ConsumerTypes
  BY DEF TypeOK, RowTypes, LeaseTypes, ConsumerTypes

(* Every step keeps the types; nothing is assumed about the timing *)
LEMMA RowTypeStepKeeps ==
  ASSUME RowTypes, [Next]_vars
  PROVE  RowTypes'
<1> USE TimesAssumption DEF RowTypes, LeaseTypes, Steps
<1>1. ASSUME NEW r \in Replicas, Boot(r) \/ BootFails(r) \/ Attempt(r) \/ AdvisoryLock(r)
      PROVE  RowTypes'
  BY <1>1 DEF Boot, BootFails, Attempt, AdvisoryLock, Fault, rowVars
<1>2. ASSUME NEW r \in Replicas, Upsert(r) \/ UpsertFails(r)
      PROVE  RowTypes'
  <2>1. UNCHANGED rowVars \/ Claim(r)
    BY <1>2 DEF Upsert, UpsertFails
  <2>2. holder' \in Replicas \cup {Nobody} /\ rem' \in Int /\ rem' <= TTL
    BY <2>1 DEF Claim, rowVars
  <2> QED BY <1>2, <2>2 DEF Upsert, UpsertFails, Fault
<1>3. ASSUME NEW r \in Replicas, Promote(r) \/ Demote(r)
      PROVE  RowTypes'
  <2>1. lead' \in [Replicas -> BOOLEAN]
    <3>1. PICK s \in BOOLEAN : lead' = [lead EXCEPT ![r] = s]
      BY <1>3 DEF Promote, Demote, SetLead
    <3> QED BY <3>1
  <2>2. UNCHANGED <<holder, rem, age>> /\ step' \in [Replicas -> Steps]
    BY <1>3 DEF Promote, Demote, rowVars
  <2>3. (vacant' = 0 \/ vacant' = vacant) /\ faults' = faults
    BY <1>3 DEF Promote, Demote
  <2> QED BY <2>1, <2>2, <2>3
<1>4. ASSUME UNCHANGED <<holder, rem, step, age, lead, vacant>>, faults' = faults \/ Fault
      PROVE  RowTypes'
  <2>1. faults' = faults \/ faults' = faults + 1
    BY <1>4 DEF Fault
  <2> QED BY <1>4, <2>1
<1>5. ASSUME NEW r \in Replicas, Shutdown(r) \/ Crash(r)
      PROVE  RowTypes'
  <2>1. lead' = [lead EXCEPT ![r] = FALSE]
    BY <1>5 DEF Shutdown, Crash, Exit
  <2>2. /\ age' = [age EXCEPT ![r] = 0]
        /\ \/ step' = [step EXCEPT ![r] = "stopped"]
           \/ step' = [step EXCEPT ![r] = "crashed"]
    BY <1>5 DEF Shutdown, Crash, Exit
  <2>3. UNCHANGED <<holder, rem, vacant>> /\ faults' = faults + 1
    BY <1>5 DEF Shutdown, Crash, Fault, rowVars
  <2> QED BY <2>1, <2>2, <2>3
<1>6. CASE Tick
  BY <1>6 DEF Tick, Floor
<1> QED
  BY <1>1, <1>2, <1>3, <1>4, <1>5, <1>6, ReloadingKeepsRow DEF Next, LeaseStep, vars, rowVars

LEMMA ConsumerTypeStepKeeps ==
  ASSUME ConsumerTypes, [Next]_vars
  PROVE  ConsumerTypes'
<1>1. ASSUME UNCHANGED consumerVars PROVE ConsumerTypes'
  BY <1>1 DEF ConsumerTypes, consumerVars
<1>2. ASSUME NEW r \in Replicas, NEW s \in BOOLEAN, SetLead(r, s),
             UNCHANGED <<astray, reload, workers>>
      PROVE  ConsumerTypes'
  <2>1. chan[r] \in Seq(BOOLEAN)
    BY DEF ConsumerTypes
  <2>2. Append(chan[r], s) \in Seq(BOOLEAN)
    BY <2>1, AppendProperties
  <2>3. chan' = chan \/ chan' = [chan EXCEPT ![r] = Append(chan[r], s)]
    BY <1>2 DEF SetLead, Emit
  <2>4. chan' \in [Replicas -> Seq(BOOLEAN)]
    BY <2>2, <2>3 DEF ConsumerTypes
  <2>5. told' = told \/ told' = [told EXCEPT ![r] = s]
    BY <1>2 DEF SetLead, Emit
  <2>6. told' \in [Replicas -> BOOLEAN]
    BY <2>5 DEF ConsumerTypes
  <2> QED BY <1>2, <2>4, <2>6 DEF ConsumerTypes
<1>3. ASSUME NEW r \in Replicas, NEW c \in Callers, Begin(r, c)
      PROVE  reload' \in [Replicas -> [Callers -> {"none", "drain", "list"}]]
  <2>1. [reload[r] EXCEPT ![c] = "drain"] \in [Callers -> {"none", "drain", "list"}]
    BY DEF ConsumerTypes
  <2> QED BY <1>3, <2>1 DEF Begin, ConsumerTypes
<1>4. ASSUME NEW r \in Replicas, TakeEvent(r)
      PROVE  ConsumerTypes'
  <2>1. chan[r] \in Seq(BOOLEAN) /\ chan[r] # <<>>
    BY <1>4 DEF TakeEvent, ConsumerTypes
  <2>2. Tail(chan[r]) \in Seq(BOOLEAN)
    BY <2>1, HeadTailProperties
  <2>3. chan' \in [Replicas -> Seq(BOOLEAN)]
    BY <1>4, <2>2 DEF TakeEvent, ConsumerTypes
  <2>4. reload' = reload \/ Begin(r, "consumer")
    BY <1>4 DEF TakeEvent
  <2>5. reload' \in [Replicas -> [Callers -> {"none", "drain", "list"}]]
    BY <1>3, <2>4 DEF ConsumerTypes, Callers
  <2>6. /\ workers' \in [Replicas -> BOOLEAN]
        /\ astray' \in [Replicas -> BOOLEAN]
        /\ told' = told
    BY <1>4 DEF TakeEvent, ConsumerTypes
  <2> QED BY <2>3, <2>5, <2>6 DEF ConsumerTypes
<1>5. ASSUME NEW r \in Replicas, NEW c \in Callers, ReloadStep(r, c)
      PROVE  ConsumerTypes'
  <2>1. chan' = chan /\ told' = told
    BY <1>5 DEF ReloadStep, Drained, Started, ReloadFails
  <2>2. astray' \in [Replicas -> BOOLEAN]
    BY <1>5 DEF ReloadStep, Drained, Started, ReloadFails, ConsumerTypes
  <2>3. workers' \in [Replicas -> BOOLEAN]
    BY <1>5 DEF ReloadStep, Drained, Started, ReloadFails, ConsumerTypes
  <2>4. reload' \in [Replicas -> [Callers -> {"none", "drain", "list"}]]
    <3>1. PICK f : reload' = [reload EXCEPT ![r] = f]
                   /\ f \in [Callers -> {"none", "drain", "list"}]
      <4>1. reload[r] \in [Callers -> {"none", "drain", "list"}]
        BY DEF ConsumerTypes
      <4>2. ASSUME NEW v \in {"none", "drain", "list"}
            PROVE  [reload[r] EXCEPT ![c] = v] \in [Callers -> {"none", "drain", "list"}]
        BY <4>1
      <4>3. CASE Drained(r, c)
        BY <4>2, <4>3 DEF Drained
      <4>4. CASE ReloadFails(r, c)
        BY <4>2, <4>4 DEF ReloadFails
      <4>5. CASE Started(r, c)
        <5>1. [d \in Callers |-> IF d = c THEN "none"
                 ELSE IF reload[r][d] = "drain" THEN "list" ELSE reload[r][d]]
                \in [Callers -> {"none", "drain", "list"}]
          BY <4>1
        <5> QED BY <4>5, <5>1 DEF Started
      <4> QED BY <1>5, <4>3, <4>4, <4>5 DEF ReloadStep
    <3> QED BY <3>1 DEF ConsumerTypes
  <2> QED BY <2>1, <2>2, <2>3, <2>4 DEF ConsumerTypes
<1>6. ASSUME NEW r \in Replicas, NEW h \in Handlers, ApiReload(r, h)
      PROVE  ConsumerTypes'
  BY <1>3, <1>6 DEF ApiReload, ConsumerTypes, Callers
<1>7. ASSUME NEW r \in Replicas, NEW how, Exit(r, how)
      PROVE  ConsumerTypes'
  <2>1. chan' \in [Replicas -> Seq(BOOLEAN)]
    <3>1. <<>> \in Seq(BOOLEAN)
      OBVIOUS
    <3> QED BY <1>7, <3>1 DEF Exit, ConsumerTypes
  <2>2. /\ told' \in [Replicas -> BOOLEAN]
        /\ astray' \in [Replicas -> BOOLEAN]
        /\ workers' \in [Replicas -> BOOLEAN]
    BY <1>7 DEF Exit, ConsumerTypes
  <2>3. reload' \in [Replicas -> [Callers -> {"none", "drain", "list"}]]
    BY <1>7 DEF Exit, ConsumerTypes
  <2> QED BY <2>1, <2>2, <2>3 DEF ConsumerTypes
<1>8. ASSUME NEW r \in Replicas, LeaseStep(r) \/ Boot(r) \/ BootFails(r)
      PROVE  ConsumerTypes'
  <2>1. CASE Promote(r) \/ Demote(r)
    BY <1>2, <2>1 DEF Promote, Demote
  <2>2. CASE ~(Promote(r) \/ Demote(r))
    BY <1>1, <1>8, <2>2 DEF LeaseStep, Boot, BootFails, Attempt, AdvisoryLock, Upsert,
                            UpsertFails
  <2> QED BY <2>1, <2>2
<1>9. CASE Tick \/ UNCHANGED vars
  BY <1>1, <1>9 DEF Tick, vars
<1> QED
  BY <1>4, <1>5, <1>6, <1>7, <1>8, <1>9 DEF Next, Shutdown, Crash

LEMMA TypeStepKeeps ==
  ASSUME TypeOK, [Next]_vars
  PROVE  TypeOK'
<1>1. RowTypes /\ ConsumerTypes
  BY TypesSplit
<1>2. RowTypes' /\ ConsumerTypes'
  BY <1>1, RowTypeStepKeeps, ConsumerTypeStepKeeps
<1> QED BY <1>2 DEF TypeOK, RowTypes, LeaseTypes, ConsumerTypes

LEMMA TypeInitial == Init => TypeOK
  BY TimesAssumption DEF Init, TypeOK, Steps, Floor

(* Every variable keeps its type, and the row never promises more than a   *)
(* whole ttl.                                                              *)
THEOREM LeadershipTypes == Spec => []TypeOK
  BY TypeInitial, TypeStepKeeps, PTL DEF Spec

-----------------------------------------------------------------------------
(* What a watched replica's executors will be once all that is pending is  *)
(* handled: the newest event in the channel is the last that found room;   *)
(* with none left, a Reload of the consumer was asked for by that event;   *)
(* and with no Reload under way either the executors follow the role, if   *)
(* the last event told it and nothing went astray.                         *)
LastOf(s) == s[Len(s)]
Quiet(r) == \A c \in Callers : reload[r][c] = "none"
Follows(r) ==
  /\ chan[r] # <<>> => LastOf(chan[r]) = told[r]
  /\ chan[r] = <<>> /\ reload[r]["consumer"] # "none" => told[r]
  /\ chan[r] = <<>> /\ Quiet(r) /\ told[r] = lead[r] /\ ~astray[r]
       => workers[r] = lead[r]
FollowInv == TypeOK /\ (\A r \in Watched : Follows(r))

(* A sent event is the newest one *)
LEMMA LastOfAppend ==
  ASSUME NEW S, NEW s \in Seq(S), NEW b \in S
  PROVE  Append(s, b) # <<>> /\ LastOf(Append(s, b)) = b
  BY DEF LastOf

(* Taking the oldest of several events leaves the newest in place *)
LEMMA LastOfTail ==
  ASSUME NEW S, NEW s \in Seq(S), s # <<>>
  PROVE  /\ Tail(s) # <<>> => LastOf(Tail(s)) = LastOf(s)
         /\ Tail(s) = <<>> => Head(s) = LastOf(s)
<1>1. /\ Tail(s) \in Seq(S)
      /\ Len(Tail(s)) = Len(s) - 1
      /\ \A i \in 1 .. Len(Tail(s)) : Tail(s)[i] = s[i + 1]
  BY HeadTailProperties
<1>2. Len(s) \in Nat /\ Len(s) # 0
  BY EmptySeq
<1>3. Head(s) = s[1]
  OBVIOUS
<1>4. ASSUME NEW m, NEW n \in Nat, m = n - 1, m = 0 PROVE n = 1
  BY <1>4
<1>5. CASE Tail(s) = <<>>
  <2>1. Len(Tail(s)) = 0
    BY <1>5, Len(<<>>) = 0
  <2>2. Len(s) = 1
    BY <1>1, <1>2, <1>4, <2>1, Zenon
  <2> QED BY <1>5, <1>3, <2>2 DEF LastOf
<1>6. CASE Tail(s) # <<>>
  <2>1. Len(Tail(s)) \in 1 .. Len(Tail(s))
    BY <1>1, <1>2, <1>6, EmptySeq
  <2> QED BY <1>1, <1>2, <1>6, <2>1 DEF LastOf
<1> QED BY <1>5, <1>6

(* A step that leaves a replica's consumer and role alone *)
LEMMA FollowsElsewhere ==
  ASSUME NEW q \in Watched, Follows(q),
         lead'[q] = lead[q], chan'[q] = chan[q], told'[q] = told[q],
         astray'[q] = astray[q], reload'[q] = reload[q], workers'[q] = workers[q]
  PROVE  Follows(q)'
  BY DEF Follows, Quiet

LEMMA FollowStepKeeps ==
  ASSUME FollowInv, [Next]_vars
  PROVE  FollowInv'
<1>1. TypeOK /\ TypeOK'
  BY TypeStepKeeps DEF FollowInv
<1> SUFFICES ASSUME NEW q \in Watched PROVE Follows(q)'
  BY <1>1 DEF FollowInv
<1>2. Follows(q) /\ q \in Replicas
  BY ConsumerAssumption DEF FollowInv
<1>3. ASSUME UNCHANGED <<lead, chan, told, astray, reload, workers>>
      PROVE  Follows(q)'
  BY <1>2, <1>3, FollowsElsewhere
<1>4. ASSUME NEW r \in Replicas, r # q,
             TakeEvent(r) \/ (\E h \in Handlers : ApiReload(r, h))
               \/ (\E c \in Callers : ReloadStep(r, c))
               \/ Promote(r) \/ Demote(r) \/ Shutdown(r) \/ Crash(r)
      PROVE  Follows(q)'
  <2>0. lead \in [Replicas -> BOOLEAN] /\ chan \in [Replicas -> Seq(BOOLEAN)]
    BY <1>1 DEF TypeOK
  <2>1. lead'[q] = lead[q] /\ chan'[q] = chan[q]
    <3>1. CASE TakeEvent(r)
      BY <1>2, <1>4, <2>0, <3>1 DEF TakeEvent
    <3>2. CASE Promote(r) \/ Demote(r)
      <4>1. lead'[q] = lead[q]
        BY <1>2, <1>4, <2>0, <3>2 DEF Promote, Demote, SetLead
      <4>2. chan'[q] = chan[q]
        BY <1>2, <1>4, <2>0, <3>2 DEF Promote, Demote, SetLead, Emit
      <4> QED BY <4>1, <4>2
    <3>3. CASE Shutdown(r) \/ Crash(r)
      BY <1>2, <1>4, <2>0, <3>3 DEF Shutdown, Crash, Exit
    <3>4. CASE \/ \E h \in Handlers : ApiReload(r, h)
               \/ \E c \in Callers : ReloadStep(r, c)
      BY <3>4 DEF ApiReload, ReloadStep, Drained, Started, ReloadFails
    <3> QED BY <1>4, <3>1, <3>2, <3>3, <3>4
  <2>2. told'[q] = told[q] /\ astray'[q] = astray[q]
    BY <1>1, <1>2, <1>4 DEF TakeEvent, ApiReload, ReloadStep, Drained, Started, ReloadFails,
                      Promote, Demote, SetLead, Emit, Shutdown, Crash, Exit, TypeOK
  <2>3. reload'[q] = reload[q] /\ workers'[q] = workers[q]
    BY <1>1, <1>2, <1>4 DEF TakeEvent, ApiReload, Begin, ReloadStep, Drained, Started,
                      ReloadFails, Promote, Demote, Shutdown, Crash, Exit, TypeOK
  <2> QED BY <1>2, <2>1, <2>2, <2>3, FollowsElsewhere
<1>5. ASSUME NEW s \in BOOLEAN, SetLead(q, s), UNCHANGED <<astray, reload, workers>>
      PROVE  Follows(q)'
  <2>1. CASE lead[q] = s
    <3>1. lead'[q] = lead[q] /\ chan' = chan /\ told' = told
      BY <1>1, <1>2, <1>5, <2>1 DEF SetLead, TypeOK
    <3> QED BY <1>2, <1>5, <3>1, FollowsElsewhere
  <2>2. CASE lead[q] # s /\ Len(chan[q]) < ChanCap
    <3>1. told'[q] = s /\ chan'[q] = Append(chan[q], s)
      BY <1>1, <1>2, <1>5, <2>2 DEF SetLead, Emit, TypeOK
    <3>2. chan[q] \in Seq(BOOLEAN)
      BY <1>1, <1>2 DEF TypeOK
    <3>3. chan'[q] # <<>> /\ LastOf(chan'[q]) = s
      BY <3>1, <3>2, LastOfAppend
    <3> QED BY <3>1, <3>3 DEF Follows
  <2>3. CASE lead[q] # s /\ ~(Len(chan[q]) < ChanCap)
    <3>1. chan'[q] = chan[q] /\ told'[q] = told[q]
      BY <1>1, <1>2, <1>5, <2>3 DEF SetLead, Emit, TypeOK
    <3>2. chan[q] # <<>>
      <4>1. Len(<<>>) = 0
        OBVIOUS
      <4> QED BY <2>3, <4>1, LeaseBounds
    <3> QED BY <1>2, <3>1, <3>2 DEF Follows
  <2> QED BY <2>1, <2>2, <2>3
<1>6. ASSUME TakeEvent(q) PROVE Follows(q)'
  <2>1. /\ chan[q] \in Seq(BOOLEAN) /\ chan[q] # <<>> /\ reload[q]["consumer"] = "none"
        /\ chan'[q] = Tail(chan[q])
        /\ lead'[q] = lead[q] /\ told'[q] = told[q]
    BY <1>1, <1>2, <1>6 DEF TakeEvent, TypeOK
  <2>2. /\ chan'[q] # <<>> => LastOf(chan'[q]) = told'[q]
        /\ chan'[q] = <<>> => Head(chan[q]) = told'[q]
    BY <1>2, <2>1, LastOfTail DEF Follows
  <2>3. CASE Head(chan[q])
    <3>1. reload' = [reload EXCEPT ![q] = [reload[q] EXCEPT !["consumer"] = "drain"]]
      BY <1>6, <2>3 DEF TakeEvent, Begin
    <3>2. reload[q] \in [Callers -> {"none", "drain", "list"}] /\ "consumer" \in Callers
      BY <1>1, <1>2 DEF TypeOK, Callers
    <3>3. reload'[q]["consumer"] = "drain"
      BY <1>1, <1>2, <3>1, <3>2 DEF TypeOK
    <3>4. ~Quiet(q)'
      BY <3>2, <3>3 DEF Quiet
    <3> QED BY <2>2, <2>3, <3>4 DEF Follows
  <2>4. CASE ~Head(chan[q])
    <3>1. workers'[q] = FALSE /\ reload'[q] = reload[q]
      BY <1>1, <1>2, <1>6, <2>4 DEF TakeEvent, TypeOK
    <3>2. lead'[q] \in BOOLEAN /\ told'[q] \in BOOLEAN
      BY <1>1, <1>2 DEF TypeOK
    <3>3. chan'[q] = <<>> => told'[q] = FALSE
      BY <2>2, <2>4, <3>2
    <3> QED BY <2>1, <2>2, <3>1, <3>2, <3>3 DEF Follows
  <2> QED BY <2>3, <2>4
<1>7. ASSUME NEW c \in Callers, Drained(q, c) PROVE Follows(q)'
  <2>1. reload' = [reload EXCEPT ![q] = [reload[q] EXCEPT ![c] = "list"]]
    BY <1>7 DEF Drained
  <2>2. /\ reload[q] \in [Callers -> {"none", "drain", "list"}] /\ reload[q][c] = "drain"
        /\ "consumer" \in Callers
    BY <1>1, <1>2, <1>7 DEF TypeOK, Callers, Drained
  <2>3. reload'[q] = [reload[q] EXCEPT ![c] = "list"]
    BY <1>1, <1>2, <2>1 DEF TypeOK
  <2>4. /\ reload'[q][c] = "list"
        /\ reload'[q]["consumer"] # "none" => reload[q]["consumer"] # "none"
    BY <2>2, <2>3
  <2>5. ~Quiet(q)'
    BY <2>4 DEF Quiet
  <2>6. chan'[q] = chan[q] /\ told'[q] = told[q]
    BY <1>7 DEF Drained
  <2> QED BY <1>2, <2>4, <2>5, <2>6 DEF Follows
<1>8. ASSUME NEW c \in Callers, Started(q, c) PROVE Follows(q)'
  <2>1. reload'[q] = [d \in Callers |-> IF d = c THEN "none"
                        ELSE IF reload[q][d] = "drain" THEN "list" ELSE reload[q][d]]
    BY <1>1, <1>2, <1>8 DEF Started, TypeOK
  <2>2. chan'[q] = chan[q] /\ told'[q] = told[q] /\ lead'[q] = lead[q]
        /\ reload[q][c] = "list" /\ lead[q] \in BOOLEAN /\ told[q] \in BOOLEAN
    BY <1>1, <1>2, <1>8 DEF Started, TypeOK
  <2>3. workers'[q] = TRUE
    BY <1>1, <1>2, <1>8 DEF Started, TypeOK
  <2>4. c \in Handlers /\ ~lead[q] => astray'[q]
    BY <1>1, <1>2, <1>8 DEF Started, TypeOK
  <2>5. reload'[q]["consumer"] # "none" => reload[q]["consumer"] # "none"
    BY <2>1 DEF Callers
  <2>6. chan[q] = <<>> /\ told[q] = lead[q] /\ ~astray'[q] => lead[q] = TRUE
    <3>1. CASE c \in Handlers
      BY <2>2, <2>4, <3>1
    <3>2. CASE c = "consumer"
      BY <1>2, <2>2, <3>2 DEF Follows
    <3> QED BY <3>1, <3>2 DEF Callers
  <2> QED BY <1>2, <2>2, <2>3, <2>5, <2>6 DEF Follows
<1>9. ASSUME NEW c \in Callers, ReloadFails(q, c) PROVE Follows(q)'
  <2>1. reload' = [reload EXCEPT ![q] = [reload[q] EXCEPT ![c] = "none"]]
    BY <1>9 DEF ReloadFails
  <2>2. reload[q] \in [Callers -> {"none", "drain", "list"}] /\ "consumer" \in Callers
    BY <1>1, <1>2 DEF TypeOK, Callers
  <2>3. reload'[q] = [reload[q] EXCEPT ![c] = "none"]
    BY <1>1, <1>2, <2>1 DEF TypeOK
  <2>4. reload'[q]["consumer"] # "none" => reload[q]["consumer"] # "none"
    BY <2>2, <2>3
  <2>5. chan'[q] = chan[q] /\ told'[q] = told[q] /\ astray'[q] = TRUE
    BY <1>1, <1>2, <1>9 DEF ReloadFails, TypeOK
  <2> QED BY <1>2, <2>4, <2>5 DEF Follows
<1>10. ASSUME NEW h \in Handlers, ApiReload(q, h) PROVE Follows(q)'
  <2>1. reload' = [reload EXCEPT ![q] = [reload[q] EXCEPT ![h] = "drain"]]
    BY <1>10 DEF ApiReload, Begin
  <2>2. /\ reload[q] \in [Callers -> {"none", "drain", "list"}]
        /\ "consumer" \in Callers /\ h \in Callers /\ h # "consumer"
    BY <1>1, <1>2, ConsumerAssumption DEF TypeOK, Callers
  <2>3. reload'[q] = [reload[q] EXCEPT ![h] = "drain"]
    BY <1>1, <1>2, <2>1 DEF TypeOK
  <2>4. reload'[q][h] = "drain" /\ reload'[q]["consumer"] = reload[q]["consumer"]
    BY <2>2, <2>3
  <2>5. ~Quiet(q)'
    BY <2>2, <2>4 DEF Quiet
  <2>6. chan'[q] = chan[q] /\ told'[q] = told[q]
    BY <1>10 DEF ApiReload
  <2> QED BY <1>2, <2>4, <2>5, <2>6 DEF Follows
<1>11. ASSUME NEW how, Exit(q, how) PROVE Follows(q)'
  <2>1. chan'[q] = <<>> /\ workers'[q] = FALSE /\ lead'[q] = FALSE
    BY <1>1, <1>2, <1>11 DEF Exit, TypeOK
  <2>2. reload'[q] = [c \in Callers |-> "none"]
    BY <1>1, <1>2, <1>11 DEF Exit, TypeOK
  <2>3. reload'[q]["consumer"] = "none"
    BY <2>2 DEF Callers
  <2> QED BY <2>1, <2>3 DEF Follows
<1>12. ASSUME NEW r \in Replicas, LeaseStep(r) \/ Boot(r) \/ BootFails(r)
       PROVE  Follows(q)'
  <2>1. CASE Promote(r) \/ Demote(r)
    <3>1. CASE r # q
      BY <1>4, <2>1, <3>1
    <3>2. CASE r = q
      BY <1>5, <2>1, <3>2 DEF Promote, Demote
    <3> QED BY <3>1, <3>2
  <2>2. CASE ~(Promote(r) \/ Demote(r))
    BY <1>3, <1>12, <2>2 DEF LeaseStep, Boot, BootFails, Attempt, AdvisoryLock, Upsert,
                             UpsertFails, consumerVars
  <2> QED BY <2>1, <2>2
<1>13. ASSUME NEW r \in Replicas,
              TakeEvent(r) \/ (\E h \in Handlers : ApiReload(r, h))
                \/ (\E c \in Callers : ReloadStep(r, c))
       PROVE  Follows(q)'
  <2>1. CASE r # q
    BY <1>4, <1>13, <2>1
  <2>2. CASE r = q
    BY <1>6, <1>7, <1>8, <1>9, <1>10, <1>13, <2>2 DEF ReloadStep
  <2> QED BY <2>1, <2>2
<1>14. ASSUME NEW r \in Replicas, Shutdown(r) \/ Crash(r) PROVE Follows(q)'
  <2>1. CASE r # q
    BY <1>4, <1>14, <2>1
  <2>2. CASE r = q
    BY <1>11, <1>14, <2>2 DEF Shutdown, Crash
  <2> QED BY <2>1, <2>2
<1>15. CASE Tick \/ UNCHANGED vars
  BY <1>3, <1>15 DEF Tick, vars, consumerVars
<1> QED
  BY <1>12, <1>13, <1>14, <1>15 DEF Next

(* Executors follow the role: a replica whose consumer has caught up, with *)
(* no Reload under way, has executors in its map exactly if it leads, for  *)
(* any timing of attempts and statements and any number of handlers that   *)
(* reload at the same time; a dropped event, a failed Reload and a         *)
(* handler's Reload on a standby are the exceptions, until the next event. *)
THEOREM WorkersFollowRole == Spec => []ConsumerFollows
<1>1. Init => FollowInv
  BY TypeInitial, ConsumerAssumption DEF Init, FollowInv, Follows, Callers
<1>2. FollowInv => ConsumerFollows
  BY DEF FollowInv, Follows, Quiet, ConsumerFollows, CaughtUp
<1> QED
  BY <1>1, <1>2, FollowStepKeeps, PTL DEF Spec

-----------------------------------------------------------------------------
(***************************************************************************)
(* The time a takeover takes.  Left(r) bounds what is left until somebody   *)
(* leads if nothing fails, counted on the clock of one replica r that is   *)
(* up: first the row runs out, then r's next attempt comes, then its       *)
(* statement runs, and if another attempt claims first, that one's.  Time  *)
(* takes from it what it adds to `vacant', no step adds to it, and a fault *)
(* buys a whole takeover.                                                  *)
(***************************************************************************)
(* On Postgres an attempt that began before the row ran out can still hold *)
(* the advisory lock against one that may claim, for Latency at most.      *)
Slack == IF Postgres THEN Latency ELSE 0

(* For a replica at step w whose last attempt began a ago, and a row with x left *)
Unexpired(x) == IF x + 1 + Slack > 0 THEN x + 1 + Slack ELSE 0
Ripe(w, a, x) == w \in {"sql", "locked"} /\ x < -a /\ Unexpired(x) = 0
Waiting(a, x) ==
  IF Unexpired(x) > 0 THEN Unexpired(x) + MaxWait + 2 * Latency
                      ELSE MaxWait - a + 2 * Latency
Left(w, a, x) ==
  IF w = "won" \/ (w = "locked" /\ Ripe(w, a, x)) THEN Latency - a
  ELSE IF Ripe(w, a, x) THEN 2 * Latency - a
  ELSE Waiting(a, x)

(* A replica that is up is in time, or nobody is and the clock stands *)
InTime(r) == Competes(r) /\ vacant + Left(step[r], age[r], rem) <= TakeoverTime(faults)
OnCourse ==
  \/ \E r \in Replicas : InTime(r)
  \/ (\A r \in Replicas : ~Competes(r)) /\ vacant + OneTakeover <= TakeoverTime(faults)

(* The advisory lock excludes *)
LockInv ==
  \A r, q \in Replicas :
     step[r] = "locked" => Postgres /\ (step[q] = "locked" => q = r)

PaceInv == RowTypes /\ rem >= Floor /\ AgesBounded /\ LockInv
TakeoverInv == PaceInv /\ OnCourse

LEMMA OneTakeoverType == OneTakeover \in Nat /\ Slack \in Nat
  BY TimesAssumption DEF OneTakeover, Slack

(* A fault buys a whole takeover *)
LEMMA TakeoverTimeGrows ==
  ASSUME NEW n \in Nat
  PROVE  /\ TakeoverTime(n) \in Nat
         /\ TakeoverTime(n + 1) = TakeoverTime(n) + OneTakeover
         /\ TakeoverTime(n) >= OneTakeover
<1>1. ASSUME NEW k \in Nat, NEW m \in Nat
      PROVE  k * (1 + m) \in Nat /\ k * (1 + (m + 1)) = k * (1 + m) + k
             /\ k * (1 + m) >= k
  OBVIOUS
<1> QED BY <1>1, OneTakeoverType DEF TakeoverTime

(* What a step, an age and a remainder can be while a replica is up *)
Paced(w, a, x) ==
  /\ w \in {"wait", "sql", "locked", "won", "lost"}
  /\ a \in Nat /\ a <= MaxWait /\ (w # "wait" => a <= Latency)
  /\ x \in Int /\ x <= TTL

(* What is left is never negative, and never more than a whole takeover; *)
(* waiting is the longest there is.                                      *)
LEMMA LeftBounds ==
  ASSUME Latency <= MaxWait, NEW w, NEW a, NEW x, Paced(w, a, x)
  PROVE  /\ Left(w, a, x) \in Nat /\ Left(w, a, x) <= OneTakeover
         /\ Waiting(a, x) \in Nat /\ Waiting(a, x) >= 2 * Latency
<1>1. Unexpired(x) \in Nat /\ Unexpired(x) <= TTL + 1 + Slack
  BY OneTakeoverType, TimesAssumption DEF Paced, Unexpired
<1>2. Waiting(a, x) \in Nat /\ Waiting(a, x) <= OneTakeover
  BY <1>1, OneTakeoverType, TimesAssumption DEF Paced, Waiting, OneTakeover, Slack
<1>3. Waiting(a, x) >= 2 * Latency
  BY <1>1, TimesAssumption DEF Paced, Waiting
<1>4. OneTakeover >= 2 * Latency
  BY TimesAssumption DEF OneTakeover
<1>5. w = "won" \/ Ripe(w, a, x) => a <= Latency
  BY DEF Paced, Ripe
<1>6. OneTakeover \in Nat /\ Latency \in Nat
  BY OneTakeoverType, TimesAssumption
<1> QED BY <1>2, <1>3, <1>4, <1>5, <1>6 DEF Left, Paced

(* A tick takes one from what is left, whether or not the row is past the  *)
(* age at which the model stops counting.                                  *)
LEMMA LeftTicks ==
  ASSUME Latency <= MaxWait, NEW w, NEW a, NEW x, NEW y, Paced(w, a, x),
         w = "wait" => a < MaxWait, w # "wait" => a < Latency,
         x >= Floor, y = IF x > Floor THEN x - 1 ELSE x
  PROVE  Left(w, a + 1, y) <= Left(w, a, x) - 1
<1> USE TimesAssumption, OneTakeoverType
<1>1. Unexpired(y) = IF Unexpired(x) > 0 THEN Unexpired(x) - 1 ELSE 0
  BY DEF Paced, Unexpired, Floor, Slack
<1>2. Unexpired(x) \in Nat
  BY DEF Paced, Unexpired
<1>3. Waiting(a + 1, y) <= Waiting(a, x) - 1
  BY <1>1, <1>2 DEF Paced, Waiting
<1>4. Ripe(w, a, x) => Ripe(w, a + 1, y)
  BY <1>1, <1>2 DEF Paced, Ripe, Floor
<1>5. Ripe(w, a + 1, y) => Left(w, a + 1, y) <= 2 * Latency - (a + 1)
  BY DEF Left, Paced
<1>6. 2 * Latency - (a + 1) <= Waiting(a, x) - 1
  BY <1>2 DEF Waiting, Paced
<1>7. Waiting(a, x) \in Int /\ Waiting(a + 1, y) \in Int
  BY <1>1, <1>2 DEF Waiting, Paced
<1>8. CASE w = "won" \/ Ripe(w, a, x)
  BY <1>4, <1>8 DEF Left, Paced
<1>9. CASE ~(w = "won" \/ Ripe(w, a, x))
  <2>1. Left(w, a, x) = Waiting(a, x)
    BY <1>9 DEF Left
  <2>2. CASE Ripe(w, a + 1, y)
    <3>1. Left(w, a + 1, y) \in Int
      BY <2>2 DEF Left, Paced
    <3> QED BY <1>5, <1>6, <1>7, <2>1, <2>2, <3>1 DEF Paced
  <2>3. CASE ~Ripe(w, a + 1, y)
    <3>1. Left(w, a + 1, y) = Waiting(a + 1, y)
      BY <1>9, <2>3 DEF Left
    <3> QED BY <1>3, <2>1, <3>1
  <2> QED BY <2>2, <2>3
<1> QED BY <1>8, <1>9

(* Ages and the advisory lock, under the weaker half of Timely: an attempt *)
(* ends before the next one is due.                                        *)
LEMMA PaceStepKeeps ==
  ASSUME Latency <= MaxWait, PaceInv, [Next]_vars
  PROVE  PaceInv'
<1>1. RowTypes' /\ rem' >= Floor
  <2>1. RowTypes'
    BY RowTypeStepKeeps DEF PaceInv
  <2>2. ASSUME NEW r \in Replicas, Upsert(r) \/ UpsertFails(r)
        PROVE  rem' >= Floor
    <3>1. rem' = rem \/ (rem' = TTL - age[r] /\ age[r] <= Latency)
      BY <2>2 DEF Upsert, UpsertFails, Claim, ReadyToClaim, rowVars, PaceInv,
                  AgesBounded, Attempting
    <3> QED BY <3>1, TimesAssumption
            DEF PaceInv, RowTypes, LeaseTypes, Floor
  <2>3. CASE Tick
    BY <2>1, <2>3, TimesAssumption DEF Tick, PaceInv, RowTypes, LeaseTypes, Floor
  <2>4. CASE rem' = rem
    BY <2>1, <2>4 DEF PaceInv
  <2>5. ASSUME NEW r \in Replicas,
               Boot(r) \/ BootFails(r) \/ Attempt(r) \/ AdvisoryLock(r) \/ Promote(r)
                 \/ Demote(r) \/ Shutdown(r) \/ Crash(r)
        PROVE  rem' = rem
    BY <2>5 DEF Boot, BootFails, Attempt, AdvisoryLock, Promote, Demote, Shutdown, Crash,
                rowVars
  <2>6. CASE UNCHANGED vars
    BY <2>4, <2>6 DEF vars, rowVars
  <2> QED BY <2>1, <2>2, <2>3, <2>4, <2>5, <2>6, ReloadingKeepsRow DEF Next, LeaseStep
<1> USE TimesAssumption DEF PaceInv, RowTypes, LeaseTypes, Steps
<1>2. ASSUME NEW r \in Replicas, Boot(r) \/ BootFails(r) \/ Attempt(r)
      PROVE  AgesBounded' /\ LockInv'
  BY <1>2 DEF Boot, BootFails, Attempt, AgesBounded, LockInv, Attempting
<1>3. ASSUME NEW r \in Replicas, AdvisoryLock(r)
      PROVE  AgesBounded' /\ LockInv'
  BY <1>3 DEF AdvisoryLock, AgesBounded, LockInv, Attempting
<1>4. ASSUME NEW r \in Replicas, Upsert(r) \/ UpsertFails(r)
      PROVE  AgesBounded' /\ LockInv'
  <2>1. /\ \E w \in {"won", "lost"} : step' = [step EXCEPT ![r] = w]
        /\ age' = age /\ Attempting(r)
    BY <1>4 DEF Upsert, UpsertFails, ReadyToClaim, Attempting
  <2> QED BY <2>1 DEF AgesBounded, LockInv, Attempting
<1>5. ASSUME NEW r \in Replicas, Promote(r) \/ Demote(r)
      PROVE  AgesBounded' /\ LockInv'
  <2>1. step' = [step EXCEPT ![r] = "wait"] /\ age' = age /\ Attempting(r)
    BY <1>5 DEF Promote, Demote, Attempting
  <2> QED BY <2>1 DEF AgesBounded, LockInv, Attempting
<1>6. ASSUME NEW r \in Replicas, Shutdown(r) \/ Crash(r)
      PROVE  AgesBounded' /\ LockInv'
  <2>1. PICK how \in {"stopped", "crashed"} :
          step' = [step EXCEPT ![r] = how] /\ age' = [age EXCEPT ![r] = 0]
    BY <1>6 DEF Shutdown, Crash, Exit
  <2> QED BY <2>1 DEF AgesBounded, LockInv, Attempting
<1>7. ASSUME UNCHANGED <<step, age>> PROVE AgesBounded' /\ LockInv'
  BY <1>7 DEF AgesBounded, LockInv, Attempting
<1>8. CASE Tick
  <2>1. AgesBounded'
    BY <1>8 DEF Tick, OnTime, AgesBounded, Attempting, Competes, Up
  <2>2. LockInv'
    BY <1>8 DEF Tick, LockInv
  <2> QED BY <1>1, <2>1, <2>2
<1>9. AgesBounded' /\ LockInv'
  BY <1>2, <1>3, <1>4, <1>5, <1>6, <1>7, <1>8, ReloadingKeepsRow DEF Next, LeaseStep, vars
<1> QED BY <1>1, <1>9

LEMMA UpIsPaced ==
  ASSUME Latency <= MaxWait, NEW r \in Replicas
  PROVE  /\ PaceInv /\ Competes(r) => Paced(step[r], age[r], rem)
         /\ (PaceInv /\ Competes(r))' => Paced(step[r], age[r], rem)'
  BY TimesAssumption DEF PaceInv, RowTypes, LeaseTypes, AgesBounded, Competes, Up, Attempting,
                         Steps, Paced

(* Whoever is up can be the one that is counted on, if there is a whole    *)
(* takeover in hand.                                                       *)
LEMMA AllowanceSuffices ==
  ASSUME Latency <= MaxWait, PaceInv',
         (vacant + OneTakeover <= TakeoverTime(faults))'
  PROVE  OnCourse'
<1>1. vacant' \in Nat /\ TakeoverTime(faults') \in Nat /\ OneTakeover \in Nat
  BY TakeoverTimeGrows, OneTakeoverType DEF PaceInv, RowTypes
<1>2. CASE \A r \in Replicas : ~Competes(r)'
  BY <1>2 DEF OnCourse
<1>3. ASSUME NEW r \in Replicas, Competes(r)' PROVE OnCourse'
  <2>1. Left(step'[r], age'[r], rem') \in Nat
        /\ Left(step'[r], age'[r], rem') <= OneTakeover
    BY <1>3, LeftBounds, UpIsPaced
  <2>2. vacant' + Left(step'[r], age'[r], rem') <= TakeoverTime(faults')
    BY <1>1, <2>1
  <2> QED BY <1>3, <2>2 DEF OnCourse, InTime
<1> QED BY <1>2, <1>3

LEMMA VacantBounded ==
  ASSUME Latency <= MaxWait, TakeoverInv
  PROVE  vacant \in Nat /\ faults \in Nat /\ vacant <= TakeoverTime(faults)
<1>1. vacant \in Nat /\ faults \in Nat /\ TakeoverTime(faults) \in Nat
  BY TakeoverTimeGrows DEF TakeoverInv, PaceInv, RowTypes
<1>2. ASSUME NEW r \in Replicas, InTime(r)
      PROVE  vacant <= TakeoverTime(faults)
  <2>1. Left(step[r], age[r], rem) \in Nat
    BY <1>2, LeftBounds, UpIsPaced DEF InTime, TakeoverInv
  <2> QED BY <1>1, <1>2, <2>1 DEF InTime
<1> QED BY <1>1, <1>2, OneTakeoverType DEF TakeoverInv, OnCourse

(* A fault buys a whole takeover *)
LEMMA FaultStaysOnCourse ==
  ASSUME Latency <= MaxWait, TakeoverInv, PaceInv', Fault, vacant' = vacant
  PROVE  OnCourse'
<1>1. (vacant + OneTakeover <= TakeoverTime(faults))'
  BY VacantBounded, TakeoverTimeGrows, OneTakeoverType DEF Fault
<1> QED BY <1>1, AllowanceSuffices

(* The same replica, or another one, has no more left than before *)
LEMMA WitnessStaysOnCourse ==
  ASSUME Latency <= MaxWait, PaceInv, PaceInv', UNCHANGED <<vacant, faults>>,
         NEW r \in Replicas, InTime(r), NEW q \in Replicas, Competes(q)',
         Left(step'[q], age'[q], rem') <= Left(step[r], age[r], rem)
  PROVE  OnCourse'
<1>1. vacant \in Nat /\ TakeoverTime(faults) \in Nat
  BY TakeoverTimeGrows DEF PaceInv, RowTypes
<1>2. Left(step[r], age[r], rem) \in Nat /\ Left(step'[q], age'[q], rem') \in Nat
  BY LeftBounds, UpIsPaced DEF InTime
<1>3. vacant' + Left(step'[q], age'[q], rem') <= TakeoverTime(faults')
  BY <1>1, <1>2 DEF InTime
<1> QED BY <1>3 DEF OnCourse, InTime

(* A claim by anybody is the shortest way to a leader, unless its owner    *)
(* held the lock and had no more left itself.                              *)
LEMMA UpsertStaysOnCourse ==
  ASSUME Latency <= MaxWait, PaceInv, PaceInv',
         NEW r \in Replicas, InTime(r), NEW q \in Replicas, Upsert(q)
  PROVE  OnCourse'
<1>1. UNCHANGED <<vacant, faults, age>>
  BY DEF Upsert
<1>2. step \in [Replicas -> Steps] /\ Competes(r) /\ Competes(q)
  BY DEF InTime, PaceInv, RowTypes, LeaseTypes, Upsert, ReadyToClaim, Competes, Up
<1>3. Paced(step[r], age[r], rem) /\ Paced(step[q], age[q], rem)
  BY <1>2, UpIsPaced
<1>4. CASE Claimable(q) /\ Claim(q) /\ step' = [step EXCEPT ![q] = "won"]
  <2>1. step'[q] = "won" /\ Competes(q)'
    BY <1>2, <1>4 DEF Competes, Up
  <2>2. Left(step'[q], age'[q], rem') = Latency - age[q]
    BY <1>1, <2>1 DEF Left
  <2>3. CASE q = r
    <3>1. Waiting(age[r], rem) \in Nat /\ Waiting(age[r], rem) >= 2 * Latency
      BY <1>3, LeftBounds
    <3>2. age[r] \in Nat /\ Latency \in Nat
      BY <1>3, TimesAssumption DEF Paced
    <3>3. Left(step[r], age[r], rem) >= Latency - age[r]
      BY <3>1, <3>2 DEF Left
    <3> QED BY <1>1, <2>1, <2>2, <2>3, <3>3, WitnessStaysOnCourse
  <2>4. CASE q # r /\ step[r] # "won"
    <3>1. step[r] # "locked"
      BY <1>2, <2>4 DEF PaceInv, LockInv, Upsert, ReadyToClaim
    <3>2. Left(step[r], age[r], rem) >= Latency
      <4>1. Waiting(age[r], rem) \in Nat /\ Waiting(age[r], rem) >= 2 * Latency
        BY <1>3, LeftBounds
      <4>2. /\ age[r] \in Nat /\ Latency \in Nat
            /\ Ripe(step[r], age[r], rem) => age[r] <= Latency
        BY <1>3, TimesAssumption DEF Paced, Ripe
      <4> QED BY <2>4, <3>1, <4>1, <4>2 DEF Left
    <3>3. Latency - age[q] <= Left(step[r], age[r], rem)
      <4>1. Left(step[r], age[r], rem) \in Nat /\ age[q] \in Nat
        BY <1>3, LeftBounds DEF Paced
      <4> QED BY <3>2, <4>1, TimesAssumption
    <3> QED BY <1>1, <2>1, <2>2, <3>3, WitnessStaysOnCourse
  <2>5. CASE q # r /\ step[r] = "won"
    <3>1. step'[r] = "won" /\ Competes(r)'
      BY <1>2, <1>4, <2>5 DEF Competes, Up
    <3>2. Left(step'[r], age'[r], rem') = Left(step[r], age[r], rem)
      BY <1>1, <2>5, <3>1 DEF Left
    <3>3. Left(step[r], age[r], rem) \in Nat
      BY <1>3, LeftBounds
    <3> QED BY <1>1, <3>1, <3>2, <3>3, WitnessStaysOnCourse
  <2> QED BY <2>3, <2>4, <2>5
<1>5. CASE ~Claimable(q) /\ step' = [step EXCEPT ![q] = "lost"] /\ UNCHANGED rowVars
  <2>1. rem' = rem /\ Competes(r)'
    BY <1>2, <1>5 DEF rowVars, Competes, Up
  <2>2. Left(step'[r], age'[r], rem') = Left(step[r], age[r], rem)
    <3>1. CASE q # r
      BY <1>1, <1>2, <1>5, <2>1, <3>1
    <3>2. CASE q = r
      <4>1. step[r] # "won" /\ ~Ripe(step[r], age[r], rem) /\ step'[r] = "lost"
        BY <1>2, <1>3, <1>5, <3>2 DEF Claimable, Ripe, Upsert, ReadyToClaim
      <4> QED BY <1>1, <2>1, <4>1 DEF Left, Ripe
    <3> QED BY <3>1, <3>2
  <2>3. Left(step[r], age[r], rem) \in Nat
    BY <1>3, LeftBounds
  <2> QED BY <1>1, <2>1, <2>2, <2>3, WitnessStaysOnCourse
<1> QED BY <1>4, <1>5 DEF Upsert

(* Losing the advisory lock is losing it to a replica that is as far *)
LEMMA LockStaysOnCourse ==
  ASSUME Latency <= MaxWait, PaceInv, PaceInv',
         NEW r \in Replicas, InTime(r), NEW q \in Replicas, AdvisoryLock(q)
  PROVE  OnCourse'
<1>1. UNCHANGED <<vacant, faults, age, rem>>
  BY DEF AdvisoryLock, rowVars
<1>2. step \in [Replicas -> Steps] /\ Competes(r) /\ Competes(r)'
  BY DEF InTime, PaceInv, RowTypes, LeaseTypes, AdvisoryLock, Competes, Up, Steps
<1>3. Paced(step[r], age[r], rem) /\ Left(step[r], age[r], rem) \in Nat
  BY <1>2, UpIsPaced, LeftBounds
<1>4. CASE q # r
  <2>1. Left(step'[r], age'[r], rem') = Left(step[r], age[r], rem)
    BY <1>1, <1>2, <1>4 DEF AdvisoryLock
  <2> QED BY <1>1, <1>2, <1>3, <2>1, WitnessStaysOnCourse
<1>5. CASE q = r /\ ~Ripe(step[r], age[r], rem)
  <2>1. step[r] = "sql" /\ step'[r] \in {"locked", "lost"}
    BY <1>2, <1>5 DEF AdvisoryLock
  <2>2. Left(step'[r], age'[r], rem') = Left(step[r], age[r], rem)
    BY <1>1, <1>5, <2>1 DEF Left, Ripe
  <2> QED BY <1>1, <1>2, <1>3, <2>2, WitnessStaysOnCourse
<1>6. CASE q = r /\ Ripe(step[r], age[r], rem)
  <2>1. step[r] = "sql" /\ Left(step[r], age[r], rem) = 2 * Latency - age[r]
    BY <1>6 DEF AdvisoryLock, Left
  <2>2. CASE step'[r] = "locked"
    <3>1. Left(step'[r], age'[r], rem') = Latency - age[r]
      BY <1>1, <1>6, <2>2 DEF Left, Ripe
    <3>2. Latency - age[r] <= 2 * Latency - age[r]
      BY <1>3, TimesAssumption DEF Paced
    <3> QED BY <1>1, <1>2, <2>1, <3>1, <3>2, WitnessStaysOnCourse
  <2>3. CASE step'[r] # "locked"
    <3>1. PICK p \in Replicas : step[p] = "locked"
      BY <1>2, <1>6, <2>3 DEF AdvisoryLock
    <3>2. p # r /\ Competes(p) /\ Competes(p)' /\ step'[p] = "locked"
      BY <1>2, <1>6, <2>1, <3>1 DEF AdvisoryLock, Competes, Up
    <3>3. Paced(step[p], age[p], rem)
      BY <3>2, UpIsPaced
    <3>4. rem < -age[p]
      BY <1>6, <3>1, <3>3, TimesAssumption
         DEF PaceInv, LockInv, Ripe, Unexpired, Slack, Paced
    <3>5. Left(step'[p], age'[p], rem') = Latency - age[p]
      BY <1>1, <1>6, <3>2, <3>4 DEF Left, Ripe
    <3>6. Latency - age[p] <= 2 * Latency - age[r]
      BY <1>3, <2>1, <3>3, TimesAssumption DEF Paced
    <3> QED BY <1>1, <2>1, <3>2, <3>5, <3>6, WitnessStaysOnCourse
  <2> QED BY <2>2, <2>3
<1> QED BY <1>4, <1>5, <1>6

(* An attempt that comes when the row has run out may claim it *)
LEMMA AttemptStaysOnCourse ==
  ASSUME Latency <= MaxWait, PaceInv, PaceInv',
         NEW r \in Replicas, InTime(r), NEW q \in Replicas, Attempt(q)
  PROVE  OnCourse'
<1>1. UNCHANGED <<vacant, faults, rem>>
  BY DEF Attempt, rowVars
<1>2. /\ step \in [Replicas -> Steps] /\ age \in [Replicas -> Nat]
      /\ Competes(r) /\ Competes(r)'
  BY DEF InTime, PaceInv, RowTypes, LeaseTypes, Attempt, Competes, Up
<1>3. /\ Paced(step[r], age[r], rem) /\ Left(step[r], age[r], rem) \in Nat
      /\ Paced(step'[r], age'[r], rem')
  BY <1>2, UpIsPaced, LeftBounds
<1>4. CASE q # r
  <2>1. Left(step'[r], age'[r], rem') = Left(step[r], age[r], rem)
    BY <1>1, <1>2, <1>4 DEF Attempt
  <2> QED BY <1>1, <1>2, <1>3, <2>1, WitnessStaysOnCourse
<1>5. CASE q = r
  <2>1. step[r] = "wait" /\ step'[r] = "sql" /\ age'[r] = 0
    BY <1>2, <1>5 DEF Attempt
  <2>2. Left(step[r], age[r], rem) = Waiting(age[r], rem)
    BY <2>1 DEF Left, Ripe
  <2>3. Waiting(age[r], rem) >= 2 * Latency
    BY <1>3, LeftBounds
  <2>4. CASE Unexpired(rem) > 0
    <3>1. Left("sql", 0, rem) = Waiting(age[r], rem)
      BY <2>4 DEF Left, Ripe, Waiting
    <3> QED BY <1>1, <1>2, <1>3, <2>1, <2>2, <3>1, WitnessStaysOnCourse
  <2>5. CASE ~(Unexpired(rem) > 0)
    <3>1. Unexpired(rem) = 0 /\ rem < 0
      BY <1>3, <2>5, OneTakeoverType DEF Unexpired, Paced
    <3>2. Left("sql", 0, rem) = 2 * Latency
      BY <1>3, <3>1, TimesAssumption DEF Left, Ripe, Paced
    <3> QED BY <1>1, <1>2, <2>1, <2>2, <2>3, <3>2, WitnessStaysOnCourse
  <2> QED BY <2>4, <2>5
<1> QED BY <1>4, <1>5

(* Stepping down changes nothing of what is left; the rest of the steps    *)
(* without a fault leave the row and the attempts of r alone.              *)
LEMMA OthersStayOnCourse ==
  ASSUME Latency <= MaxWait, PaceInv, PaceInv',
         NEW r \in Replicas, InTime(r), UNCHANGED <<vacant, faults, rem, age>>,
         step'[r] = step[r] \/ (step[r] = "lost" /\ step'[r] = "wait")
  PROVE  OnCourse'
<1>1. Competes(r) /\ Competes(r)'
  BY DEF InTime, Competes, Up
<1>2. Left(step'[r], age'[r], rem') = Left(step[r], age[r], rem)
  BY DEF Left, Ripe
<1>3. Left(step[r], age[r], rem) \in Nat
  BY <1>1, UpIsPaced, LeftBounds
<1> QED BY <1>1, <1>2, <1>3, WitnessStaysOnCourse

(* Time takes from what is left what it adds to `vacant' *)
LEMMA TickStaysOnCourse ==
  ASSUME Latency <= MaxWait, PaceInv, PaceInv', NEW r \in Replicas, InTime(r), Tick
  PROVE  OnCourse'
<1>1. /\ step' = step /\ faults' = faults /\ age'[r] = age[r] + 1
      /\ rem' = IF rem > Floor THEN rem - 1 ELSE rem
      /\ OnTime(r) /\ Competes(r)'
  BY DEF Tick, InTime, Competes, Up
<1>2. vacant' \in Nat /\ vacant \in Nat /\ vacant' <= vacant + 1
  BY DEF Tick, PaceInv, RowTypes
<1>3. Paced(step[r], age[r], rem) /\ Paced(step'[r], age'[r], rem')
  BY <1>1, UpIsPaced DEF InTime
<1>4. rem >= Floor
  BY DEF PaceInv
<1>5. /\ step[r] = "wait" => age[r] < MaxWait
      /\ step[r] # "wait" => age[r] < Latency
  BY <1>1, <1>3 DEF OnTime, Attempting, Paced
<1>6. Left(step'[r], age'[r], rem') <= Left(step[r], age[r], rem) - 1
  BY <1>1, <1>3, <1>4, <1>5, LeftTicks
<1>7. /\ Left(step'[r], age'[r], rem') \in Nat /\ Left(step[r], age[r], rem) \in Nat
      /\ TakeoverTime(faults) \in Nat
  BY <1>3, LeftBounds, TakeoverTimeGrows DEF PaceInv, RowTypes
<1>8. vacant' + Left(step'[r], age'[r], rem') <= TakeoverTime(faults')
  BY <1>1, <1>2, <1>6, <1>7 DEF InTime
<1> QED BY <1>1, <1>8 DEF OnCourse, InTime

LEMMA TakeoverStepKeeps ==
  ASSUME Latency <= MaxWait, TakeoverInv, [Next]_vars
  PROVE  TakeoverInv'
<1>1. PaceInv /\ PaceInv'
  BY PaceStepKeeps DEF TakeoverInv
<1>2. OneTakeover \in Nat /\ vacant \in Nat /\ faults \in Nat
  BY <1>1, OneTakeoverType DEF PaceInv, RowTypes
<1>3. step \in [Replicas -> Steps]
  BY <1>1 DEF PaceInv, RowTypes, LeaseTypes
<1>4. ASSUME NEW q \in Replicas, UpsertFails(q) \/ BootFails(q) \/ Shutdown(q) \/ Crash(q)
      PROVE  OnCourse'
  <2>1. Fault /\ vacant' = vacant
    BY <1>4 DEF UpsertFails, BootFails, Shutdown, Crash
  <2> QED BY <1>1, <2>1, FaultStaysOnCourse
<1>5. ASSUME NEW q \in Replicas, Promote(q) PROVE OnCourse'
  <2>1. vacant' = 0 /\ faults' = faults
    BY <1>5 DEF Promote
  <2>2. vacant' + OneTakeover <= TakeoverTime(faults')
    BY <1>2, <2>1, TakeoverTimeGrows
  <2> QED BY <1>1, <2>2, AllowanceSuffices
<1>6. ASSUME \A r \in Replicas : ~Competes(r),
             vacant + OneTakeover <= TakeoverTime(faults)
      PROVE  OnCourse'
  <2>1. ASSUME UNCHANGED <<vacant, faults>> PROVE OnCourse'
    <3>1. (vacant + OneTakeover <= TakeoverTime(faults))'
      BY <1>6, <2>1
    <3> QED BY <1>1, <3>1, AllowanceSuffices
  <2>2. ASSUME NEW q \in Replicas,
               Attempt(q) \/ AdvisoryLock(q) \/ Upsert(q) \/ Demote(q)
        PROVE  FALSE
    BY <1>6, <2>2 DEF Attempt, AdvisoryLock, Upsert, ReadyToClaim, Demote, Competes, Up
  <2>3. ASSUME NEW q \in Replicas, Boot(q) PROVE UNCHANGED <<vacant, faults>>
    BY <2>3 DEF Boot
  <2>4. Tick => UNCHANGED <<vacant, faults>>
    BY <1>6 DEF Tick
  <2>5. UNCHANGED vars => UNCHANGED <<vacant, faults>>
    BY DEF vars
  <2>6. ASSUME vacant' = vacant, faults' = faults \/ Fault PROVE OnCourse'
    BY <1>1, <2>1, <2>6, FaultStaysOnCourse
  <2> QED BY <1>4, <1>5, <2>1, <2>2, <2>3, <2>4, <2>5, <2>6, ReloadingKeepsRow
          DEF Next, LeaseStep
<1>7. ASSUME NEW r \in Replicas, InTime(r) PROVE OnCourse'
  <2>1. ASSUME NEW q \in Replicas, Attempt(q) PROVE OnCourse'
    BY <1>1, <1>7, <2>1, AttemptStaysOnCourse
  <2>2. ASSUME NEW q \in Replicas, AdvisoryLock(q) PROVE OnCourse'
    BY <1>1, <1>7, <2>2, LockStaysOnCourse
  <2>3. ASSUME NEW q \in Replicas, Upsert(q) PROVE OnCourse'
    BY <1>1, <1>7, <2>3, UpsertStaysOnCourse
  <2>4. ASSUME NEW q \in Replicas, Demote(q) PROVE OnCourse'
    <3>1. /\ UNCHANGED <<vacant, faults, rem, age>>
          /\ step'[r] = step[r] \/ (step[r] = "lost" /\ step'[r] = "wait")
      BY <1>3, <2>4 DEF Demote, rowVars
    <3> QED BY <1>1, <1>7, <3>1, OthersStayOnCourse
  <2>5. ASSUME NEW q \in Replicas, Boot(q) PROVE OnCourse'
    <3>1. UNCHANGED <<vacant, faults, rem>> /\ Competes(r) /\ Competes(r)' /\ q # r
      BY <1>3, <1>7, <2>5 DEF Boot, rowVars, InTime, Competes, Up
    <3>2. age \in [Replicas -> Nat]
      BY <1>1 DEF PaceInv, RowTypes, LeaseTypes
    <3>3. step'[r] = step[r] /\ age'[r] = age[r]
      BY <1>3, <2>5, <3>1, <3>2 DEF Boot
    <3>4. Left(step[r], age[r], rem) \in Nat
      BY <1>1, <3>1, UpIsPaced, LeftBounds
    <3> QED BY <1>1, <1>7, <3>1, <3>3, <3>4, WitnessStaysOnCourse
  <2>6. ASSUME UNCHANGED <<vacant, rem, step, age>>, faults' = faults \/ Fault
        PROVE  OnCourse'
    <3>1. CASE faults' = faults
      BY <1>1, <1>7, <2>6, <3>1, OthersStayOnCourse
    <3>2. CASE Fault
      BY <1>1, <2>6, <3>2, FaultStaysOnCourse
    <3> QED BY <2>6, <3>1, <3>2
  <2>7. CASE Tick
    BY <1>1, <1>7, <2>7, TickStaysOnCourse
  <2>8. UNCHANGED vars => UNCHANGED <<vacant, faults, rem, step, age>>
    BY DEF vars, rowVars
  <2> QED BY <1>4, <1>5, <2>1, <2>2, <2>3, <2>4, <2>5, <2>6, <2>7, <2>8, ReloadingKeepsRow
          DEF Next, LeaseStep
<1>8. OnCourse'
  BY <1>6, <1>7 DEF TakeoverInv, OnCourse
<1> QED BY <1>1, <1>8 DEF TakeoverInv

(* The documented worst case, with its terms spelled out: as long as some  *)
(* replica competes, nobody leads for longer than one takeover and one more   *)
(* for each error or exit.  Only that attempts end before the next is due  *)
(* is assumed; the lease may run out under a leader.                       *)
THEOREM TakeoverInTime ==
  ASSUME Latency <= MaxWait
  PROVE  Spec => []TakeoverBound
<1>1. Init => TakeoverInv
  <2> SUFFICES ASSUME Init PROVE TakeoverInv
    OBVIOUS
  <2>1. RowTypes /\ rem >= Floor
    BY TimesAssumption DEF Init, RowTypes, LeaseTypes, Steps, Floor
  <2>2. AgesBounded /\ LockInv
    BY TimesAssumption DEF Init, AgesBounded, LockInv, Attempting
  <2>3. \A r \in Replicas : ~Competes(r)
    BY DEF Init, Competes, Up
  <2>4. vacant + OneTakeover <= TakeoverTime(faults)
    BY TakeoverTimeGrows, OneTakeoverType DEF Init
  <2> QED BY <2>1, <2>2, <2>3, <2>4 DEF TakeoverInv, PaceInv, OnCourse
<1>2. TakeoverInv => TakeoverBound
  BY VacantBounded DEF TakeoverBound
<1> QED
  BY <1>1, <1>2, TakeoverStepKeeps, PTL DEF Spec
=============================================================================
