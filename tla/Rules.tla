------------------------------- MODULE Rules -------------------------------
(***************************************************************************)
(* The sizing rules of decision_gen: what counts as a violation and as     *)
(* comfort (thresholds.py), which rule fires and how far it moves          *)
(* (triggers.py), and the freeze that keeps a proposal from fighting a     *)
(* rollout in flight (direction.py).  All of it is pure in the code and    *)
(* constant-level here.                                                    *)
(*                                                                         *)
(* Rates are in per mille and fractions in percent, so that the code's     *)
(* floating-point ceilings become exact integer ceilings.                  *)
(*                                                                         *)
(* Definitions called Faulty... are plausible mistakes in the definition   *)
(* that follows them; the specification never uses them.  They show that a *)
(* property can fail (PROJECT.json, "mutants").                            *)
(***************************************************************************)
EXTENDS Numbers

CONSTANTS
  None,                \* Python's None: no value, no reading, no bound
  HeadroomPct,         \* SLO_HEADROOM, in percent of the threshold
  RejectionThreshold,  \* REJECTION_THRESHOLD, per mille
  RejectionOkFloor,    \* REJECTION_OK_FLOOR, per mille
  FireGain,            \* SCALE_UP_MULTIPLIER_GAIN
  FireCapPct,          \* SCALE_UP_MULTIPLIER_CAP - 1, percent
  FireCapCleanPct,     \* SCALE_UP_MULTIPLIER_CAP_CLEAN_SLO - 1, percent
  GrowPct,             \* SCALE_UP_STEP_FRAC, percent
  ShedPct,             \* SCALE_DOWN_STEP_FRAC, percent
  MinRejections,       \* R1A_MIN_REJECTIONS_2M
  MinRequests          \* R1B_MIN_REQUESTS_5M

ASSUME RulesAssumption ==
  /\ None \notin Int
  /\ HeadroomPct \in 1..100
  /\ RejectionThreshold \in 1..999
  /\ RejectionOkFloor \in 0..RejectionThreshold
  /\ FireGain \in Nat
  /\ FireCapCleanPct \in Nat
  /\ FireCapPct \in Nat /\ FireCapPct >= FireCapCleanPct
  /\ GrowPct \in Nat
  /\ ShedPct \in Nat
  /\ MinRejections \in Nat
  /\ MinRequests \in Nat

(***************************************************************************)
(* thresholds.py                                                           *)
(***************************************************************************)
MetricDirection == [ttft |-> "ceiling", otps |-> "floor", queue |-> "ceiling"]

Violated(direction, value, threshold) ==
  IF direction = "ceiling" THEN value > threshold ELSE value < threshold

Comfortable(direction, value, threshold) ==
  IF direction = "ceiling" THEN value * 100 < threshold * HeadroomPct
                           ELSE value * HeadroomPct > threshold * 100

Classify(direction, value, threshold) ==
  IF Violated(direction, value, threshold) THEN "violated"
  ELSE IF Comfortable(direction, value, threshold) THEN "comfortable"
  ELSE "grey"

\* A metric without traffic is the deepest comfort; one without a series is
\* no evidence at all.
VerdictOf(direction, reading, threshold) ==
  CASE reading.state = "ok"         -> Classify(direction, reading.value, threshold)
    [] reading.state = "no_traffic" -> "comfortable"
    [] OTHER                        -> "missing"

(***************************************************************************)
(* triggers.py.  "verdicts" is the set of verdicts of the declared         *)
(* metrics: the rules only ask whether any is violated and whether all     *)
(* are comfortable.                                                        *)
(***************************************************************************)
Gates == [up : BOOLEAN, shed : BOOLEAN]

Hold == [rule |-> "hold", replicas |-> 0]

AllComfortable(verdicts) == verdicts # {} /\ verdicts \subseteq {"comfortable"}

Evidence(count, floor) == count # None /\ count >= floor

FireAlarm(rejection, count) ==
  rejection # None /\ rejection >= RejectionThreshold /\ Evidence(count, MinRejections)

\* max(ceil(current * mult), current + 1) with mult = 1 + r/(1-r) * gain, capped.
FaultyFireTargetUncapped(rejection, current, violated) ==
  LET r == Smaller(990, rejection)
  IN  current + Larger(1, CeilDiv(current * FireGain * r, 1000 - r))

FireTarget(rejection, current, violated) ==
  LET r == Smaller(990, rejection)
      byRate == CeilDiv(current * FireGain * r, 1000 - r)
      byCap == CeilDiv(current * (IF violated THEN FireCapPct ELSE FireCapCleanPct), 100)
  IN  current + Larger(1, Smaller(byRate, byCap))

GrowStep(current) == Larger(1, CeilDiv(current * GrowPct, 100))
FaultyShedStepRoundedDown(current) == (current * ShedPct) \div 100
ShedStep(current) == Larger(1, CeilDiv(current * ShedPct, 100))

SteadyGrowth(verdicts, requests) ==
  "violated" \in verdicts /\ Evidence(requests, MinRequests)

QuietShed(verdicts, rejection) ==
  /\ rejection # None
  /\ rejection < RejectionOkFloor
  /\ AllComfortable(verdicts)

\* First match wins, top down.
Evaluate(verdicts, rejection, current, gates, count, requests) ==
  IF FireAlarm(rejection, count)
    THEN [rule |-> "r1a-fire",
          replicas |-> FireTarget(rejection, current, "violated" \in verdicts)]
  ELSE IF gates.up /\ SteadyGrowth(verdicts, requests)
    THEN [rule |-> "r1b-steady", replicas |-> current + GrowStep(current)]
  ELSE IF gates.shed /\ QuietShed(verdicts, rejection)
    THEN [rule |-> "r1c-shed", replicas |-> current - ShedStep(current)]
  ELSE Hold

EvaluateJob(verdicts, current, gates) ==
  IF gates.up /\ "violated" \in verdicts
    THEN [rule |-> "rjob-step-up", replicas |-> current + GrowStep(current)]
  ELSE IF gates.shed /\ AllComfortable(verdicts)
    THEN [rule |-> "rjob-shed", replicas |-> current - ShedStep(current)]
  ELSE Hold

(***************************************************************************)
(* direction.py: the phase is derived from ledger and evidence each time,  *)
(* and a proposal against the phase snaps back to the ledger.              *)
(***************************************************************************)
PhaseOf(committed, physical) ==
  CASE physical < committed -> "ramp-up"
    [] physical > committed -> "in-drain"
    [] OTHER                -> "settled"

FaultyReconcileOneSided(proposed, committed, phase) ==
  IF phase = "ramp-up" /\ proposed < committed THEN committed ELSE proposed

Reconcile(proposed, committed, phase) ==
  IF \/ phase = "in-drain" /\ proposed > committed
     \/ phase = "ramp-up" /\ proposed < committed
    THEN committed
    ELSE proposed
============================================================================
