---------------------------- MODULE ServiceView ----------------------------
(***************************************************************************)
(* The per-service ledger of serviceview.py, as operators on a view: the   *)
(* record of what the service is committed to, how long ago that last      *)
(* changed, and how long its metrics have been comfortable.  Replica and   *)
(* job services; a pdengine CR takes the other branch of "step".           *)
(*                                                                         *)
(* The code keeps two absolute times, last_change_at and                   *)
(* comfortable_since, and only ever compares their ages with a threshold.  *)
(* A view keeps the ages, counted up to the largest threshold.             *)
(*                                                                         *)
(* Definitions called Faulty... are plausible mistakes in the definition   *)
(* that follows them; the specification never uses them.  They show that a *)
(* property can fail (PROJECT.json, "mutants").                            *)
(***************************************************************************)
EXTENDS Rules

CONSTANTS
  UpCooldown,      \* SCALE_UP_COOLDOWN_S
  DownCooldown,    \* SCALE_DOWN_COOLDOWN_S
  ComfortSustain   \* SCALE_DOWN_COMFORT_S

ASSUME CooldownAssumption ==
  UpCooldown \in Nat /\ DownCooldown \in Nat /\ ComfortSustain \in Nat

AgeCap == Larger(UpCooldown, DownCooldown)

View == [committed : Nat \cup {None},
         since     : 0..AgeCap,
         comfort   : 0..ComfortSustain \cup {None}]

\* __init__: last_change_at = 0.0 is long ago.
FreshView == [committed |-> None, since |-> AgeCap, comfort |-> None]

\* One unit of time passes.
Aged(view) ==
  [view EXCEPT !.since = Smaller(@ + 1, AgeCap),
               !.comfort = IF @ = None THEN None ELSE Smaller(@ + 1, ComfortSustain)]

(***************************************************************************)
(* A CR's bounds.  No maximum is an opt-out; no minimum is 1; a minimum    *)
(* above the maximum raises the maximum.                                   *)
(***************************************************************************)
OptedOut(cr) == cr.max = None

Bounds(cr) ==
  LET lo == IF cr.min = None THEN 1 ELSE cr.min
  IN  [lo |-> lo, hi |-> Larger(lo, cr.max)]

Clamp(n, bounds) == Larger(bounds.lo, Smaller(bounds.hi, n))

(***************************************************************************)
(* The mutation path.                                                      *)
(***************************************************************************)
FaultyCommitAlwaysStamps(view, n) ==
  [committed |-> n, since |-> 0, comfort |-> None]

Commit(view, n) ==
  IF view.committed = n THEN view
  ELSE [committed |-> n, since |-> 0, comfort |-> None]

EnsureSeeded(view, bounds, specReplicas) ==
  IF view.committed # None THEN view ELSE Commit(view, Clamp(specReplicas, bounds))

FaultyMaxShrinkUnstamped(view, bounds) ==
  IF view.committed > bounds.hi THEN [view EXCEPT !.committed = bounds.hi] ELSE view

MaxShrink(view, bounds) ==
  IF view.committed > bounds.hi THEN Commit(view, bounds.hi) ELSE view

(***************************************************************************)
(* Evidence.  An observation holds what the tick reads for the service:    *)
(* a reading per metric, the rejection rate (per mille) and the two sample *)
(* counts.  The job path compares the queue's total with the depth that    *)
(* "physical" replicas may have.                                           *)
(***************************************************************************)
LlmVerdicts(cr, obs) ==
  {VerdictOf(MetricDirection[m], obs.slo[m], cr.threshold[m]) : m \in DOMAIN cr.threshold}

JobVerdicts(cr, obs, physical) ==
  IF cr.depth <= 0 THEN {"missing"}
  ELSE {VerdictOf(MetricDirection.queue, obs.queue, cr.depth * Larger(physical, 1))}

Verdicts(cr, obs, physical) ==
  IF cr.kind = "job" THEN JobVerdicts(cr, obs, physical) ELSE LlmVerdicts(cr, obs)

AllComfy(cr, obs, verdicts) ==
  /\ AllComfortable(verdicts)
  /\ cr.kind = "job" \/ obs.rejection # None

FaultyStreakNeverReset(view, comfy) ==
  [view EXCEPT !.comfort = IF comfy /\ @ = None THEN 0 ELSE @]

FaultyStreakFromLastChange(view, comfy) ==
  [view EXCEPT !.comfort = IF ~comfy THEN None ELSE IF @ = None THEN view.since ELSE @]

Streak(view, comfy) ==
  [view EXCEPT !.comfort = IF ~comfy THEN None ELSE IF @ = None THEN 0 ELSE @]

FaultyGatesUpAlwaysOpen(view) ==
  [up   |-> TRUE,
   shed |-> /\ view.since >= DownCooldown
            /\ view.comfort # None
            /\ view.comfort >= ComfortSustain]

GatesOf(view) ==
  [up   |-> view.since >= UpCooldown,
   shed |-> /\ view.since >= DownCooldown
            /\ view.comfort # None
            /\ view.comfort >= ComfortSustain]

(***************************************************************************)
(* step, in the code's order: seed, skip without a replica count, shrink   *)
(* to a lowered maximum, judge, keep the streak, open the gates, hold on a *)
(* missing metric, propose, clamp, freeze.  The caller commits.            *)
(***************************************************************************)
Proposal(cr, obs, verdicts, physical, gates) ==
  IF cr.kind = "job" THEN EvaluateJob(verdicts, physical, gates)
  ELSE Evaluate(verdicts, obs.rejection, physical, gates, obs.rejections, obs.requests)

Estimate(view, bounds, proposal) ==
  IF proposal.rule = "hold" THEN view.committed ELSE Clamp(proposal.replicas, bounds)

Judged(view, cr, obs, physical) ==
  LET bounds == Bounds(cr)
      shrunk == MaxShrink(view, bounds)
      verdicts == Verdicts(cr, obs, physical)
      judged == Streak(shrunk, AllComfy(cr, obs, verdicts))
      est == Estimate(judged, bounds, Proposal(cr, obs, verdicts, physical, GatesOf(judged)))
  IN  [view |-> judged,
       skip |-> FALSE,
       want |-> IF "missing" \in verdicts THEN judged.committed
                ELSE Reconcile(est, judged.committed,
                               PhaseOf(judged.committed, physical))]

NoEvidence(physical) == physical = None \/ physical = 0

Step(view, cr, obs, physical, specReplicas) ==
  LET seeded == EnsureSeeded(view, Bounds(cr), specReplicas)
  IN  IF NoEvidence(physical)
        THEN [view |-> seeded, skip |-> TRUE, want |-> seeded.committed]
        ELSE Judged(seeded, cr, obs, physical)
============================================================================
