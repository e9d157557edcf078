------------------------------ MODULE PdEngine ------------------------------
(***************************************************************************)
(* Shapes of prefill and decode engines: pd.py, and the pdengine variants  *)
(* in triggers.py and direction.py.  Constant-level, and without           *)
(* recursion: where pd.py walks one engine at a time the result is given   *)
(* in closed form, and module MCPdLife compares each with the loop.        *)
(*                                                                         *)
(* Ratios are exact here.  The code multiplies by bound / E in floats: it  *)
(* gives the same shape for every slice of up to 26 engines, and beyond    *)
(* that may take the last engine from the other role.                      *)
(*                                                                         *)
(* Definitions called Faulty... are plausible mistakes in the definition   *)
(* that follows them; the specification never uses them.  They show that a *)
(* property can fail (PROJECT.json, "mutants").                            *)
(***************************************************************************)
EXTENDS Rules

Roles == {"prefill", "decode"}
Shapes == [prefill : Nat, decode : Nat]

Shape(p, d) == [prefill |-> p, decode |-> d]
Engines(s) == s.prefill + s.decode

\* Each role is charged at the size of its own engine group.
ShapeGpuCost(s, group) == s.prefill * group.prefill + s.decode * group.decode

(***************************************************************************)
(* Fitting a proposal to the window.  Of a change of p and d engines only  *)
(* "rest" are kept: the larger change gives way first, on a tie decode's.  *)
(***************************************************************************)
Kept(p, d, rest) ==
  LET kp == Smaller(p, rest - Smaller(d, rest \div 2))
  IN  Shape(kp, rest - kp)

TrimGrowthToCap(proposal, committed, cap) ==
  LET over == Engines(proposal) - cap
      gp == proposal.prefill - committed.prefill
      gd == proposal.decode - committed.decode
      kept == Kept(gp, gd, gp + gd - over)
  IN  IF over <= 0 THEN proposal
      ELSE IF gp + gd < over THEN committed
      ELSE Shape(committed.prefill + kept.prefill, committed.decode + kept.decode)

PadShedToFloor(proposal, committed, floor) ==
  LET under == floor - Engines(proposal)
      sp == committed.prefill - proposal.prefill
      sd == committed.decode - proposal.decode
      kept == Kept(sp, sd, sp + sd - under)
  IN  IF under <= 0 THEN proposal
      ELSE IF sp + sd < under THEN committed
      ELSE Shape(committed.prefill - kept.prefill, committed.decode - kept.decode)

(***************************************************************************)
(* Bringing a shape into a window.  Rounding each role's share towards the *)
(* bound, with at least one engine each, misses the bound by one engine at *)
(* most; that one comes from the role further above its share, or goes to  *)
(* the role further below it.                                              *)
(***************************************************************************)
PerSliceWindow(min, max, slices) == [lo |-> CeilDiv(min, slices), hi |-> max \div slices]

Scaled(n, bound, total, shrink) ==
  Larger(1, IF shrink THEN (n * bound) \div total ELSE CeilDiv(n * bound, total))

Landed(shape, bound, p, d) ==
  LET total == Engines(shape)
      \* how far p and d are above their shares, in total-ths of an engine
      aboveP == p * total - shape.prefill * bound
      aboveD == d * total - shape.decode * bound
  IN  IF p + d = bound THEN Shape(p, d)
      ELSE IF p + d < bound THEN IF aboveP <= aboveD THEN Shape(p + 1, d) ELSE Shape(p, d + 1)
      ELSE IF p > 1 /\ (aboveP >= aboveD \/ d <= 1) THEN Shape(p - 1, d)
      ELSE IF d > 1 THEN Shape(p, d - 1)
      ELSE None

CorrectToBounds(shape, min, max) ==
  LET total == Engines(shape)
      shrink == total > max
      bound == IF shrink THEN max ELSE min
  IN  IF min = 0 /\ max = 0 THEN Shape(0, 0)
      ELSE IF total = 0 THEN None
      ELSE IF min <= total /\ total <= max THEN shape
      ELSE Landed(shape, bound, Scaled(shape.prefill, bound, total, shrink),
                                Scaled(shape.decode, bound, total, shrink))

(***************************************************************************)
(* Margins: how deep in comfort a role's metric is.  A fraction [num, den];*)
(* without traffic (or at zero latency) it is infinite, 1 / 0; None is the *)
(* margin of a role without a metric, below every other.                   *)
(***************************************************************************)
Infinite == [num |-> 1, den |-> 0]

Margin(direction, reading, threshold) ==
  CASE reading.state = "no_traffic" -> Infinite
    [] reading.state # "ok"         -> None
    [] direction = "floor"          -> [num |-> reading.value * HeadroomPct, den |-> threshold * 100]
    [] reading.value > 0            -> [num |-> threshold * HeadroomPct, den |-> reading.value * 100]
    [] OTHER                        -> Infinite

MarginOf(metric, readings, thresholds) ==
  IF metric \in DOMAIN thresholds
    THEN Margin(MetricDirection[metric], readings[metric], thresholds[metric])
    ELSE None

RoleMargins(readings, thresholds) ==
  [prefill |-> MarginOf("ttft", readings, thresholds),
   decode  |-> MarginOf("otps", readings, thresholds)]

Wider(a, b) == a # None /\ (b = None \/ a.num * b.den > b.num * a.den)

\* The role that gives engines up; None when neither has one to spare.
PickShedRole(s, margins) ==
  IF s.prefill <= 1 /\ s.decode <= 1 THEN None
  ELSE IF s.prefill <= 1 THEN "decode"
  ELSE IF s.decode <= 1 THEN "prefill"
  ELSE IF Wider(margins.prefill, margins.decode) THEN "prefill"
  ELSE IF Wider(margins.decode, margins.prefill) THEN "decode"
  ELSE IF s.prefill > s.decode THEN "prefill"
  ELSE "decode"

(***************************************************************************)
(* evaluate_pd.  "verdicts" is a function on the declared metrics.         *)
(***************************************************************************)
VerdictSet(verdicts) == {verdicts[m] : m \in DOMAIN verdicts}

MetricViolated(metric, verdicts) ==
  metric \in DOMAIN verdicts /\ verdicts[metric] = "violated"

FirePd(current, rejection, violated) ==
  [r \in Roles |-> FireTarget(rejection, current[r], violated)]

GrowPd(current, verdicts) ==
  LET step == GrowStep(Engines(current))
  IN  Shape(current.prefill + (IF MetricViolated("ttft", verdicts) THEN step ELSE 0),
            current.decode + (IF MetricViolated("otps", verdicts) THEN step ELSE 0))

FaultyShedPdWholeStep(current, role) ==
  [current EXCEPT ![role] = @ - Smaller(@, ShedStep(Engines(current)))]

ShedPd(current, role) ==
  [current EXCEPT ![role] = @ - Smaller(@ - 1, ShedStep(Engines(current)))]

\* First match wins; None when no rule fires.
EvaluatePd(verdicts, margins, rejection, current, gates, count, requests) ==
  LET seen == VerdictSet(verdicts)
      role == PickShedRole(current, margins)
  IN  IF FireAlarm(rejection, count)
        THEN FirePd(current, rejection, "violated" \in seen)
      ELSE IF gates.up /\ "violated" \in seen
        THEN IF SteadyGrowth(seen, requests) THEN GrowPd(current, verdicts) ELSE None
      ELSE IF gates.shed /\ QuietShed(seen, rejection) /\ role # None
        THEN ShedPd(current, role)
      ELSE None

(***************************************************************************)
(* direction.py for two roles: each has its own phase and its own freeze.  *)
(***************************************************************************)
PhaseOfPd(committed, physical) ==
  [r \in Roles |-> PhaseOf(committed[r], physical[r])]

FaultyReconcilePdOnePhase(proposed, committed, phases) ==
  [r \in Roles |-> Reconcile(proposed[r], committed[r], phases.decode)]

ReconcilePd(proposed, committed, phases) ==
  [r \in Roles |-> Reconcile(proposed[r], committed[r], phases[r])]
============================================================================
