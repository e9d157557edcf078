------------------------- MODULE ServiceViewProofs -------------------------
(***************************************************************************)
(* What the rules and a step of a view return, for every value of the      *)
(* constants: lemmas for ServiceLifeProofs.                                *)
(***************************************************************************)
EXTENDS ServiceView, TLAPS

\* A CR that is not opted out, as far as the bounds go.
WindowOK(cr) ==
  /\ cr.min \in Nat \cup {None}
  /\ cr.max \in Nat

\* math.ceil of a quotient by a positive number is an integer.
LEMMA CeilDivType ==
  ASSUME NEW a \in Int, NEW b \in Nat \ {0}
  PROVE  CeilDiv(a, b) \in Int
BY DEF CeilDiv

\* Ceilings by the same divisor keep the order.
LEMMA CeilPercentMonotone ==
  ASSUME NEW n \in Nat, NEW x \in Nat, NEW y \in Nat, x <= y
  PROVE  CeilDiv(n * x, 100) <= CeilDiv(n * y, 100)
<1>1. n * x <= n * y /\ n * x \in Nat /\ n * y \in Nat
  OBVIOUS
<1>2. ASSUME NEW a \in Nat, NEW b \in Nat, a <= b
      PROVE  CeilDiv(a, 100) <= CeilDiv(b, 100)
  BY <1>2 DEF CeilDiv
<1> QED BY <1>1, <1>2

\* _bounds: a window is never empty.
LEMMA BoundsType ==
  ASSUME NEW cr, WindowOK(cr)
  PROVE  /\ Bounds(cr).lo \in Nat
         /\ Bounds(cr).hi \in Nat
         /\ Bounds(cr).lo <= Bounds(cr).hi
BY DEF WindowOK, Bounds, Larger

\* The clamp stays in the window, leaves what is inside alone, and pulls what
\* is outside to the nearer end.
LEMMA ClampFacts ==
  ASSUME NEW n \in Int, NEW b, b.lo \in Nat, b.hi \in Nat, b.lo <= b.hi
  PROVE  /\ Clamp(n, b) \in b.lo .. b.hi
         /\ n \in b.lo .. b.hi => Clamp(n, b) = n
         /\ n > b.hi => Clamp(n, b) = b.hi
         /\ n < b.lo => Clamp(n, b) = b.lo
BY DEF Clamp, Larger, Smaller

\* One capped fire above the replicas that are there.
FireReach(n) == n + Larger(1, CeilDiv(n * FireCapPct, 100))

\* r1a moves up by at least one replica, and by no more than the larger cap.
LEMMA FireTargetFacts ==
  ASSUME NEW rejection \in 0..1000, NEW n \in Nat, NEW verdicts
  PROVE  LET target == FireTarget(rejection, n, "violated" \in verdicts)
         IN  target \in Int /\ target > n /\ target <= FireReach(n)
<1> DEFINE r == Smaller(990, rejection)
           pct == IF "violated" \in verdicts THEN FireCapPct ELSE FireCapCleanPct
           byRate == CeilDiv(n * FireGain * r, 1000 - r)
           byCap == CeilDiv(n * pct, 100)
<1>1. r \in Nat /\ 1000 - r \in Nat \ {0}
  BY DEF Smaller
<1>2. byRate \in Int
  <2>1. n * FireGain * r \in Int
    BY <1>1, RulesAssumption
  <2> HIDE DEF r
  <2> QED BY <2>1, <1>1, CeilDivType
<1>3. pct \in Nat /\ pct <= FireCapPct /\ FireCapPct \in Nat
  BY RulesAssumption
<1>4. byCap \in Int /\ CeilDiv(n * FireCapPct, 100) \in Int
  <2>1. n * pct \in Int /\ n * FireCapPct \in Int
    BY <1>3
  <2> QED BY <2>1, CeilDivType
<1>5. byCap <= CeilDiv(n * FireCapPct, 100)
  BY <1>3, CeilPercentMonotone, ZenonT(60)
<1>6. FireTarget(rejection, n, "violated" \in verdicts) =
           n + Larger(1, Smaller(byRate, byCap))
  BY DEF FireTarget
<1> HIDE DEF byRate, byCap
<1> QED BY <1>2, <1>4, <1>5, <1>6 DEF FireReach, Larger, Smaller

\* A growth step moves up and a shed step down, by at least one replica.
LEMMA StepFacts ==
  ASSUME NEW n \in Nat
  PROVE  /\ GrowStep(n) \in Nat /\ GrowStep(n) >= 1
         /\ ShedStep(n) \in Nat /\ ShedStep(n) >= 1
<1>1. n * GrowPct \in Int /\ n * ShedPct \in Int
  BY RulesAssumption
<1>2. CeilDiv(n * GrowPct, 100) \in Int /\ CeilDiv(n * ShedPct, 100) \in Int
  BY <1>1, CeilDivType
<1> QED BY <1>2 DEF GrowStep, ShedStep, Larger

(***************************************************************************)
(* A proposal moves the way its rule says, and only with that rule's leave. *)
(***************************************************************************)

\* The furthest a judged tick can reach above the replicas that are there.
Reach(n) == n + Larger(GrowStep(n), Larger(1, CeilDiv(n * FireCapPct, 100)))

LEMMA ReachType ==
  ASSUME NEW n \in Nat
  PROVE  Reach(n) \in Int
<1>1. n * FireCapPct \in Int
  BY RulesAssumption
<1>2. CeilDiv(n * FireCapPct, 100) \in Int
  BY <1>1, CeilDivType
<1> QED BY <1>2, StepFacts DEF Reach, Larger

ObsOK(obs) == obs.rejection \in 0..1000 \cup {None}

OnFire(cr, obs) == cr.kind # "job" /\ FireAlarm(obs.rejection, obs.rejections)

LEMMA ProposalFacts ==
  ASSUME NEW cr, NEW obs, ObsOK(obs), NEW verdicts, NEW n \in Nat, NEW gates
  PROVE  LET p == Proposal(cr, obs, verdicts, n, gates)
         IN  /\ p.replicas \in Int
             /\ \/ p.rule = "hold"
                \/ /\ p.replicas > n /\ p.replicas <= Reach(n)
                   /\ OnFire(cr, obs) \/ gates.up
                \/ p.replicas < n /\ gates.shed
<1> DEFINE p == Proposal(cr, obs, verdicts, n, gates)
           target == FireTarget(obs.rejection, n, "violated" \in verdicts)
<1>1. CeilDiv(n * FireCapPct, 100) \in Int
  <2>1. n * FireCapPct \in Int
    BY RulesAssumption
  <2> QED BY <2>1, CeilDivType
<1>2. /\ n + GrowStep(n) \in Int /\ n + GrowStep(n) > n /\ n + GrowStep(n) <= Reach(n)
      /\ n - ShedStep(n) \in Int /\ n - ShedStep(n) < n
  BY <1>1, StepFacts DEF Reach, Larger
<1>3. CASE cr.kind = "job"
  BY <1>2, <1>3 DEF Proposal, EvaluateJob, Hold
<1>4. CASE cr.kind # "job"
  <2>1. p = Evaluate(verdicts, obs.rejection, n, gates, obs.rejections, obs.requests)
    BY <1>4 DEF Proposal
  <2>2. CASE FireAlarm(obs.rejection, obs.rejections)
    <3>1. obs.rejection \in 0..1000
      BY <2>2 DEF FireAlarm, ObsOK
    <3>2. target \in Int /\ target > n /\ target <= FireReach(n)
      BY <3>1, FireTargetFacts, ZenonT(60)
    <3>3. FireReach(n) <= Reach(n) /\ FireReach(n) \in Int /\ Reach(n) \in Int
      BY <1>1, StepFacts DEF FireReach, Reach, Larger
    <3>4. p.rule = "r1a-fire" /\ p.replicas = target
      BY <2>1, <2>2 DEF Evaluate
    <3> HIDE DEF p, target
    <3> QED BY <1>4, <2>2, <3>2, <3>3, <3>4 DEF OnFire, p
  <2>3. CASE ~FireAlarm(obs.rejection, obs.rejections)
    BY <1>2, <2>1, <2>3 DEF Evaluate, Hold
  <2> QED BY <2>2, <2>3
<1> QED BY <1>3, <1>4

(***************************************************************************)
(* step on a service whose replica count was read.                         *)
(***************************************************************************)

\* The lowered maximum of the CR compresses the ledger through commit.
LEMMA MaxShrinkFacts ==
  ASSUME NEW view \in View, view.committed \in Nat,
         NEW b, b.lo \in Nat, b.hi \in Nat, b.lo <= b.hi
  PROVE  LET v == MaxShrink(view, b)
         IN  /\ v \in View /\ v.committed \in Nat
             /\ v.committed = Smaller(view.committed, b.hi)
             /\ v = view \/ (v.committed # view.committed /\ v.since = 0 /\ v.comfort = None)
<1>1. 0 \in 0..AgeCap
  BY CooldownAssumption DEF AgeCap, Larger
<1> QED BY <1>1 DEF MaxShrink, Commit, View, Smaller

\* The streak is the only thing judging changes before it proposes.
LEMMA StreakFacts ==
  ASSUME NEW view \in View, NEW comfy
  PROVE  LET v == Streak(view, comfy)
         IN  /\ v \in View
             /\ v.committed = view.committed /\ v.since = view.since
             /\ v.comfort # None => comfy /\ v.comfort \in {view.comfort, 0}
<1>1. 0 \in 0..ComfortSustain
  BY CooldownAssumption
<1> QED BY <1>1 DEF Streak, View

\* The freeze: a want above the ledger needs a fleet that is not draining, and
\* one below it a fleet that is not ramping.
LEMMA FreezeFacts ==
  ASSUME NEW est \in Int, NEW c \in Nat, NEW n \in Nat
  PROVE  LET want == Reconcile(est, c, PhaseOf(c, n))
         IN  /\ want = c \/ want = est
             /\ want > c => n <= c
             /\ want < c => n >= c
BY DEF Reconcile, PhaseOf

\* What a judged step j of a seeded view returns: the ledger compressed to the
\* window, and a want that leaves it only towards the floor, by a rule that may
\* grow on a fleet that is not draining, or by a shed on one that is not ramping.
JudgedOK(view, cr, obs, n, j) ==
  LET b == Bounds(cr)
      c == j.view.committed
      g == GatesOf(j.view)
  IN  /\ j.view \in View /\ c \in Nat /\ j.want \in Nat /\ j.skip = FALSE
      /\ c = Smaller(view.committed, b.hi)
      /\ c = view.committed => j.view.since = view.since
      /\ c # view.committed => j.view.since = 0
      /\ j.view.comfort # None =>
           /\ AllComfy(cr, obs, Verdicts(cr, obs, n))
           /\ j.view.comfort = 0 \/ (c = view.committed /\ j.view.comfort = view.comfort)
      /\ j.want > c =>
           /\ n <= c
           /\ j.want = b.lo \/ (j.want <= Reach(n) /\ (OnFire(cr, obs) \/ g.up))
      /\ j.want < c => n >= c /\ g.shed

LEMMA JudgedFacts ==
  ASSUME NEW view \in View, view.committed \in Nat,
         NEW cr, WindowOK(cr), NEW obs, ObsOK(obs), NEW n \in Nat
  PROVE  JudgedOK(view, cr, obs, n, Judged(view, cr, obs, n))
<1> DEFINE j == Judged(view, cr, obs, n)
           b == Bounds(cr)
           shrunk == MaxShrink(view, b)
           verdicts == Verdicts(cr, obs, n)
           comfy == AllComfy(cr, obs, verdicts)
           v == Streak(shrunk, comfy)
           c == v.committed
           g == GatesOf(v)
           p == Proposal(cr, obs, verdicts, n, g)
           est == Estimate(v, b, p)
           frozen == Reconcile(est, c, PhaseOf(c, n))
<1>1. b.lo \in Nat /\ b.hi \in Nat /\ b.lo <= b.hi
  BY BoundsType
<1>2. /\ shrunk \in View /\ shrunk.committed \in Nat
      /\ shrunk.committed = Smaller(view.committed, b.hi)
      /\ shrunk = view \/ (/\ shrunk.committed # view.committed
                           /\ shrunk.since = 0 /\ shrunk.comfort = None)
  BY <1>1, MaxShrinkFacts
<1>3. /\ v \in View /\ c = shrunk.committed /\ v.since = shrunk.since
      /\ v.comfort # None => comfy /\ v.comfort \in {shrunk.comfort, 0}
  BY <1>2, StreakFacts
<1>4. /\ p.replicas \in Int
      /\ \/ p.rule = "hold"
         \/ p.replicas > n /\ p.replicas <= Reach(n) /\ (OnFire(cr, obs) \/ g.up)
         \/ p.replicas < n /\ g.shed
  BY ProposalFacts
<1>5. /\ j.view = v /\ j.skip = FALSE
      /\ j.want = IF "missing" \in verdicts THEN c ELSE frozen
  BY DEF Judged
<1>6. c \in Nat /\ c <= b.hi
  BY <1>1, <1>2, <1>3 DEF Smaller
<1>7. /\ est \in Nat
      /\ \/ est = c
         \/ /\ p.rule # "hold"
            /\ est \in b.lo .. b.hi
            /\ p.replicas \in b.lo .. b.hi => est = p.replicas
            /\ p.replicas > b.hi => est = b.hi
            /\ p.replicas < b.lo => est = b.lo
  BY <1>1, <1>4, <1>6, ClampFacts DEF Estimate
<1>8. /\ frozen = c \/ frozen = est
      /\ frozen > c => n <= c
      /\ frozen < c => n >= c
  BY <1>6, <1>7, FreezeFacts
<1>9. j.want \in Nat /\ (j.want = c \/ j.want = frozen)
  BY <1>5, <1>6, <1>7, <1>8
<1>10. Reach(n) \in Int
  BY ReachType
<1>11. ASSUME j.want > c
       PROVE  n <= c /\ (j.want = b.lo \/ (j.want <= Reach(n) /\ (OnFire(cr, obs) \/ g.up)))
  <2> HIDE DEF j, b, c, p, est, frozen, g
  <2> QED BY <1>1, <1>4, <1>6, <1>7, <1>8, <1>9, <1>10, <1>11
<1>12. ASSUME j.want < c
       PROVE  n >= c /\ g.shed
  <2> HIDE DEF j, b, c, p, est, frozen, g
  <2> QED BY <1>1, <1>4, <1>6, <1>7, <1>8, <1>9, <1>12
<1> HIDE DEF j, b, c, p, est, frozen, g, v, shrunk, comfy
<1>13. /\ j.view \in View /\ c \in Nat /\ j.want \in Nat /\ j.skip = FALSE
       /\ c = Smaller(view.committed, b.hi)
  BY <1>2, <1>3, <1>5, <1>6, <1>9
<1>14. /\ c = view.committed => v.since = view.since
       /\ c # view.committed => v.since = 0
       /\ v.comfort # None => comfy /\ (v.comfort = 0 \/ (c = view.committed /\ v.comfort = view.comfort))
  BY <1>2, <1>3
<1> QED BY <1>5, <1>11, <1>12, <1>13, <1>14 DEF JudgedOK, j, b, c, g, v, comfy
=============================================================================
