------------------------------- MODULE Breaker -------------------------------
(***************************************************************************)
(* The outbound circuit breaker that all workers of one pipeline share     *)
(* (src/internal/pipeline/breaker.go).  Both methods of the Go type take   *)
(* the breaker's mutex for their whole body, so each is one atomic step.   *)
(* What lies between a granted allow() and the matching recordResult() is  *)
(* the send, which runs without the mutex: `admitted' holds the workers in *)
(* that window.  `probes' is a history variable, the admitted workers that *)
(* allow() let through by moving the breaker from open to half-open.       *)
(*                                                                         *)
(* Time: openedAt is kept as `cool', the number of Tick steps until        *)
(* time.Since(openedAt) reaches the cool-down.                             *)
(***************************************************************************)
EXTENDS Integers, FiniteSets

CONSTANTS Workers,      \* goroutines of Executor.Run
          Threshold,    \* consecutive failures that trip the breaker
          Cooldown      \* length of the cool-down, in Ticks

ASSUME WorkersAssumption == IsFiniteSet(Workers) /\ Workers # {}
ASSUME ThresholdAssumption == Threshold \in Nat \ {0}
ASSUME CooldownAssumption == Cooldown \in Nat \ {0}

VARIABLES bstate,       \* breaker.state
          fails,        \* breaker.fails
          cool,         \* Ticks left of the cool-down begun at openedAt
          admitted,     \* workers between allow() = true and its result
          probes        \* of those, the ones that moved open -> half-open

breakerVars == <<bstate, fails, cool, admitted, probes>>

BreakerStates == {"closed", "open", "half-open"}

BreakerTypeOK ==
  /\ bstate \in BreakerStates
  /\ fails \in Nat
  /\ cool \in 0..Cooldown
  /\ admitted \in SUBSET Workers
  /\ probes \in SUBSET admitted

-----------------------------------------------------------------------------
(* newBreaker: a fresh value is closed with no failures.  Executor.Run     *)
(* makes one each time it starts.                                          *)
BreakerInit ==
  /\ bstate = "closed"
  /\ fails = 0
  /\ cool = 0
  /\ admitted = {}
  /\ probes = {}

NewBreaker ==
  /\ bstate' = "closed"
  /\ fails' = 0
  /\ cool' = 0
  /\ admitted' = {}
  /\ probes' = {}

(* allow() = true while closed *)
AllowClosed(w) ==
  /\ w \notin admitted
  /\ bstate = "closed"
  /\ admitted' = admitted \cup {w}
  /\ UNCHANGED <<bstate, fails, cool, probes>>

(* allow() = true when the cool-down has elapsed: the caller is the probe *)
AllowProbe(w) ==
  /\ w \notin admitted
  /\ bstate = "open" /\ cool = 0
  /\ bstate' = "half-open"
  /\ admitted' = admitted \cup {w}
  /\ probes' = probes \cup {w}
  /\ UNCHANGED <<fails, cool>>

Allow(w) == AllowClosed(w) \/ AllowProbe(w)

(* allow() = false: half-open, or open and still cooling down *)
Denied == bstate = "half-open" \/ (bstate = "open" /\ cool > 0)

(* recordResult(true) closes the breaker whatever state it is in *)
RecordSuccess(w) ==
  /\ w \in admitted
  /\ bstate' = "closed"
  /\ fails' = 0
  /\ admitted' = admitted \ {w}
  /\ probes' = probes \ {w}
  /\ UNCHANGED cool

(* mutant: a failed probe is counted as well *)
RecordFailureHalfOpenCounts ==
  /\ bstate = "half-open"
  /\ bstate' = "open"
  /\ cool' = Cooldown
  /\ fails' = fails + 1

(* recordResult(false) while half-open: back to open, fails untouched *)
RecordFailureHalfOpen ==
  /\ bstate = "half-open"
  /\ bstate' = "open"
  /\ cool' = Cooldown
  /\ UNCHANGED fails

(* recordResult(false) in any other state counts, and trips at threshold *)
RecordFailureCounted ==
  /\ bstate # "half-open"
  /\ fails' = fails + 1
  /\ IF fails + 1 >= Threshold
       THEN bstate' = "open" /\ cool' = Cooldown
       ELSE UNCHANGED <<bstate, cool>>

RecordFailure(w) ==
  /\ w \in admitted
  /\ RecordFailureHalfOpen \/ RecordFailureCounted
  /\ admitted' = admitted \ {w}
  /\ probes' = probes \ {w}

(* processOne's early return on a dedup hit: the admitted worker leaves    *)
(* without a recordResult, so the breaker keeps its state.                 *)
Abandon(w) ==
  /\ w \in admitted
  /\ admitted' = admitted \ {w}
  /\ probes' = probes \ {w}
  /\ UNCHANGED <<bstate, fails, cool>>

(* mutant: the cool-down is never seen to elapse *)
TickStalls ==
  /\ bstate = "open" /\ cool > 1
  /\ cool' = cool - 1
  /\ UNCHANGED <<bstate, fails, admitted, probes>>

(* one unit of the wall clock passes during a cool-down *)
Tick ==
  /\ bstate = "open" /\ cool > 0
  /\ cool' = cool - 1
  /\ UNCHANGED <<bstate, fails, admitted, probes>>

BreakerNext ==
  \/ \E w \in Workers : Allow(w)
  \/ \E w \in Workers : RecordSuccess(w)
  \/ \E w \in Workers : RecordFailure(w)
  \/ \E w \in Workers : Abandon(w)
  \/ Tick
  \/ NewBreaker

BreakerSpec == BreakerInit /\ [][BreakerNext]_breakerVars

-----------------------------------------------------------------------------
InHalfOpen == IF bstate = "half-open" THEN 1 ELSE 0

(* The failure counter and the state agree: below the threshold exactly    *)
(* while closed.  (breaker.go recordResult: the half-open failure path     *)
(* does not touch the counter, the success path must reset it.)            *)
CounterMatchesState ==
  (bstate = "closed") <=> (fails < Threshold)

(* While the breaker is not closed the counter still grows, because        *)
(* results of sends admitted earlier keep arriving in the open state.      *)
(* Every such growth uses up an outstanding send that is not the probe, so *)
(* the counter, unlike what recordResult alone suggests, is bounded.       *)
LateFailuresBounded ==
  bstate # "closed" =>
     fails + Cardinality(admitted) - InHalfOpen
        <= Threshold + Cardinality(Workers) - 1

(* breaker.fails never exceeds the threshold by as much as the number of   *)
(* workers, however many outages and probes follow one another.            *)
FailsBounded == fails < Threshold + Cardinality(Workers)

(* What a comment says, and the code does not do *)

(* breaker.go:72-75 says that allow() in half-open "returns true exactly   *)
(* once - the next concurrent caller waits for that probe's recordResult": *)
(* no worker is admitted while another worker's probe is outstanding.      *)
OneProbeAtATime ==
  [][probes # {} => admitted' \subseteq admitted]_breakerVars

=============================================================================
