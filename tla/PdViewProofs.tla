---------------------------- MODULE PdViewProofs ----------------------------
(***************************************************************************)
(* What the pdengine rules and a step of either branch return, for every   *)
(* value of the constants: lemmas for PdLifeProofs.                        *)
(***************************************************************************)
EXTENDS PdView, ServiceViewProofs

\* One shape has no more engines than another in either role.
Below(a, b) == a.prefill <= b.prefill /\ a.decode <= b.decode

IsWindow(b) == b.lo \in Nat /\ b.hi \in Nat /\ b.lo <= b.hi

LEMMA ShapeType ==
  ASSUME NEW p \in Nat, NEW d \in Nat
  PROVE  /\ Shape(p, d) \in Shapes /\ Shape(p, d).prefill = p /\ Shape(p, d).decode = d
         /\ Engines(Shape(p, d)) = p + d
BY DEF Shape, Shapes, Engines

\* A function on the roles is a shape when its values are numbers.
LEMMA RolesType ==
  ASSUME NEW f, f = [r \in Roles |-> f[r]], \A r \in Roles : f[r] \in Nat
  PROVE  f \in Shapes
BY DEF Roles, Shapes

\* A set with one slice has the window of its CR.
LEMMA WindowIsBounds ==
  ASSUME NEW cr, WindowOK(cr), NEW ds, ds.slices = 1
  PROVE  Window(cr, ds) = Bounds(cr) /\ IsWindow(Bounds(cr))
<1>1. IsWindow(Bounds(cr))
  BY BoundsType DEF IsWindow
<1>2. CeilDiv(Bounds(cr).lo, 1) = Bounds(cr).lo /\ Bounds(cr).hi \div 1 = Bounds(cr).hi
  BY <1>1 DEF CeilDiv, IsWindow
<1> QED BY <1>1, <1>2 DEF Window, PerSliceWindow, Bounds

(***************************************************************************)
(* The clamp.                                                              *)
(***************************************************************************)

\* What is kept of a change is part of it, in both roles.
LEMMA KeptFacts ==
  ASSUME NEW p \in Nat, NEW d \in Nat, NEW rest \in 0..(p + d)
  PROVE  LET k == Kept(p, d, rest)
         IN  /\ k.prefill \in 0..p /\ k.decode \in 0..d
             /\ k.prefill + k.decode = rest
<1> DEFINE half == rest \div 2
           kp == Smaller(p, rest - Smaller(d, half))
<1>1. half \in Nat /\ half <= rest /\ rest <= half + half + 1
  OBVIOUS
<1>2. Kept(p, d, rest).prefill = kp /\ Kept(p, d, rest).decode = rest - kp
  BY DEF Kept, Shape
<1> HIDE DEF half
<1> QED BY <1>1, <1>2 DEF Smaller

\* A trimmed growth lies between the ledger and the proposal, at the cap.
LEMMA TrimFacts ==
  ASSUME NEW c \in Shapes, NEW p \in Shapes, Below(c, p), NEW cap \in Nat,
         Engines(c) <= cap, Engines(p) > cap
  PROVE  LET e == TrimGrowthToCap(p, c, cap)
         IN  e \in Shapes /\ Below(c, e) /\ Below(e, p) /\ Engines(e) = cap
<1> DEFINE over == Engines(p) - cap
           gp == p.prefill - c.prefill
           gd == p.decode - c.decode
           kept == Kept(gp, gd, gp + gd - over)
           e == Shape(c.prefill + kept.prefill, c.decode + kept.decode)
<1>1. /\ c.prefill \in Nat /\ c.decode \in Nat /\ p.prefill \in Nat /\ p.decode \in Nat
      /\ gp \in Nat /\ gd \in Nat /\ gp + gd - over \in 0..(gp + gd) /\ over > 0
      /\ gp + gd - over = cap - Engines(c)
  BY DEF Shapes, Below, Engines
<1>2. TrimGrowthToCap(p, c, cap) =
        IF over <= 0 THEN p ELSE IF gp + gd < over THEN c ELSE e
  BY DEF TrimGrowthToCap
<1>3. p.prefill = c.prefill + gp /\ p.decode = c.decode + gd /\ over \in Int
  BY <1>1 DEF Engines
<1> HIDE DEF gp, gd, over, e
<1>4. kept.prefill \in 0..gp /\ kept.decode \in 0..gd
      /\ kept.prefill + kept.decode = gp + gd - over
  BY <1>1, KeptFacts, ZenonT(60)
<1>5. TrimGrowthToCap(p, c, cap) = e
  <2>1. ~ (over <= 0) /\ ~ (gp + gd < over)
    BY <1>1, <1>3
  <2> QED BY <1>2, <2>1
<1> HIDE DEF kept
<1>6. /\ c.prefill + kept.prefill \in Nat /\ c.decode + kept.decode \in Nat
      /\ (c.prefill + kept.prefill) + (c.decode + kept.decode) = cap
  BY <1>1, <1>4 DEF Engines
<1>7. /\ e \in Shapes /\ Engines(e) = cap
      /\ e.prefill = c.prefill + kept.prefill /\ e.decode = c.decode + kept.decode
  BY <1>6, ShapeType, ZenonT(60) DEF e
<1> QED BY <1>1, <1>3, <1>4, <1>5, <1>7 DEF Below

\* A padded shed lies between the proposal and the ledger, at the floor.
LEMMA PadFacts ==
  ASSUME NEW c \in Shapes, NEW p \in Shapes, Below(p, c), NEW floor \in Nat,
         Engines(c) >= floor, Engines(p) < floor
  PROVE  LET e == PadShedToFloor(p, c, floor)
         IN  e \in Shapes /\ Below(e, c) /\ Below(p, e) /\ Engines(e) = floor
<1> DEFINE under == floor - Engines(p)
           sp == c.prefill - p.prefill
           sd == c.decode - p.decode
           kept == Kept(sp, sd, sp + sd - under)
           e == Shape(c.prefill - kept.prefill, c.decode - kept.decode)
<1>1. /\ c.prefill \in Nat /\ c.decode \in Nat /\ p.prefill \in Nat /\ p.decode \in Nat
      /\ sp \in Nat /\ sd \in Nat /\ sp + sd - under \in 0..(sp + sd) /\ under > 0
      /\ sp + sd - under = Engines(c) - floor
  BY DEF Shapes, Below, Engines
<1>2. PadShedToFloor(p, c, floor) =
        IF under <= 0 THEN p ELSE IF sp + sd < under THEN c ELSE e
  BY DEF PadShedToFloor
<1>3. p.prefill = c.prefill - sp /\ p.decode = c.decode - sd /\ under \in Int
  BY <1>1 DEF Engines
<1> HIDE DEF sp, sd, under, e
<1>4. kept.prefill \in 0..sp /\ kept.decode \in 0..sd
      /\ kept.prefill + kept.decode = sp + sd - under
  BY <1>1, KeptFacts, ZenonT(60)
<1>5. PadShedToFloor(p, c, floor) = e
  <2>1. ~ (under <= 0) /\ ~ (sp + sd < under)
    BY <1>1, <1>3
  <2> QED BY <1>2, <2>1
<1> HIDE DEF kept
<1>6. /\ c.prefill - kept.prefill \in Nat /\ c.decode - kept.decode \in Nat
      /\ (c.prefill - kept.prefill) + (c.decode - kept.decode) = floor
  BY <1>1, <1>3, <1>4 DEF Engines, Shapes
<1>7. /\ e \in Shapes /\ Engines(e) = floor
      /\ e.prefill = c.prefill - kept.prefill /\ e.decode = c.decode - kept.decode
  BY <1>6, ShapeType, ZenonT(60) DEF e
<1> QED BY <1>1, <1>3, <1>4, <1>5, <1>7 DEF Below

\* A shape e on the way from the ledger c to a proposal p, in a window that the
\* ledger does not exceed.
OnTheWay(c, p, e, b) ==
  /\ e \in Shapes
  /\ Below(c, p) => Below(c, e) /\ Below(e, p)
  /\ Below(p, c) => Below(e, c) /\ Below(p, e)
  /\ Engines(e) <= b.hi
  /\ Engines(c) >= b.lo => Engines(e) >= b.lo

LEMMA ClampPdFacts ==
  ASSUME NEW c \in Shapes, NEW p \in Shapes, Below(c, p) \/ Below(p, c),
         NEW b, IsWindow(b), Engines(c) <= b.hi
  PROVE  OnTheWay(c, p, ClampPd(p, c, b), b)
<1>1. /\ c.prefill \in Nat /\ c.decode \in Nat /\ p.prefill \in Nat /\ p.decode \in Nat
      /\ Engines(c) = c.prefill + c.decode /\ Engines(p) = p.prefill + p.decode
      /\ b.lo \in Nat /\ b.hi \in Nat /\ b.lo <= b.hi
  BY DEF Shapes, Engines, IsWindow
<1>2. CASE Engines(p) > b.hi
  <2>1. Below(c, p) /\ ~Below(p, c)
    BY <1>1, <1>2 DEF Below
  <2>2. ClampPd(p, c, b) = TrimGrowthToCap(p, c, b.hi)
    BY <1>2 DEF ClampPd
  <2> QED BY <1>1, <1>2, <2>1, <2>2, TrimFacts DEF OnTheWay
<1>3. CASE Engines(p) < b.lo
  <2>1. ClampPd(p, c, b) = PadShedToFloor(p, c, b.lo)
    BY <1>1, <1>3 DEF ClampPd
  <2>2. CASE Engines(c) >= b.lo
    <3>1. Below(p, c) /\ ~Below(c, p)
      BY <1>1, <1>3, <2>2 DEF Below
    <3> QED BY <1>1, <1>3, <2>1, <2>2, <3>1, PadFacts DEF OnTheWay
  <2>3. CASE Engines(c) < b.lo
    <3>1. PadShedToFloor(p, c, b.lo) = c
      BY <1>1, <1>3, <2>3 DEF PadShedToFloor
    <3> QED BY <1>1, <2>1, <2>3, <3>1 DEF OnTheWay, Below
  <2> QED BY <1>1, <2>2, <2>3
<1>4. CASE Engines(p) <= b.hi /\ Engines(p) >= b.lo
  <2>1. ClampPd(p, c, b) = p
    BY <1>1, <1>4 DEF ClampPd
  <2> QED BY <1>1, <1>4, <2>1 DEF OnTheWay, Below
<1> QED BY <1>1, <1>2, <1>3, <1>4

(***************************************************************************)
(* evaluate_pd.                                                            *)
(***************************************************************************)

\* The role that sheds has an engine to spare.
LEMMA PickShedFacts ==
  ASSUME NEW c \in Shapes, NEW margins, PickShedRole(c, margins) # None
  PROVE  /\ PickShedRole(c, margins) \in Roles
         /\ c[PickShedRole(c, margins)] >= 2
BY DEF PickShedRole, Shapes, Roles

\* What a proposal may be, and by whose leave.
GrowsFrom(c, p) == p \in Shapes /\ Below(c, p)
ShedsFrom(c, p) == p \in Shapes /\ Below(p, c) /\ \A r \in Roles : c[r] >= 1 => p[r] >= 1

LEMMA FirePdFacts ==
  ASSUME NEW c \in Shapes, NEW rejection \in 0..1000, NEW verdicts
  PROVE  GrowsFrom(c, FirePd(c, rejection, "violated" \in verdicts))
<1> DEFINE p == FirePd(c, rejection, "violated" \in verdicts)
<1>1. ASSUME NEW r \in Roles
      PROVE  p[r] \in Nat /\ c[r] <= p[r]
  <2>1. c[r] \in Nat
    BY DEF Shapes, Roles
  <2>2. p[r] = FireTarget(rejection, c[r], "violated" \in verdicts)
    BY DEF FirePd
  <2> HIDE DEF p
  <2>3. p[r] \in Int /\ p[r] > c[r]
    <3>1. /\ FireTarget(rejection, c[r], "violated" \in verdicts) \in Int
          /\ FireTarget(rejection, c[r], "violated" \in verdicts) > c[r]
      BY <2>1, FireTargetFacts, ZenonT(60)
    <3> QED BY <2>2, <3>1
  <2> QED BY <2>1, <2>3
<1>2. p = [r \in Roles |-> p[r]]
  BY DEF FirePd
<1> HIDE DEF p
<1>3. p \in Shapes
  BY <1>1, <1>2, RolesType
<1>4. GrowsFrom(c, p)
  BY <1>1, <1>3 DEF GrowsFrom, Below, Roles
<1> QED BY <1>4 DEF p

LEMMA GrowPdFacts ==
  ASSUME NEW c \in Shapes, NEW verdicts
  PROVE  GrowsFrom(c, GrowPd(c, verdicts))
<1> DEFINE step == GrowStep(Engines(c))
<1>1. c.prefill \in Nat /\ c.decode \in Nat /\ step \in Nat
  BY StepFacts DEF Shapes, Engines
<1> HIDE DEF step
<1>2. \A p, d \in {0, step} : GrowsFrom(c, Shape(c.prefill + p, c.decode + d))
  BY <1>1 DEF GrowsFrom, Below, Shape, Shapes
<1>3. \E p, d \in {0, step} : GrowPd(c, verdicts) = Shape(c.prefill + p, c.decode + d)
  BY DEF GrowPd, step
<1> QED BY <1>2, <1>3

LEMMA ShedPdFacts ==
  ASSUME NEW c \in Shapes, NEW role \in Roles, c[role] >= 2
  PROVE  ShedsFrom(c, ShedPd(c, role))
<1> DEFINE step == ShedStep(Engines(c))
           p == ShedPd(c, role)
<1>1. c.prefill \in Nat /\ c.decode \in Nat /\ c[role] \in Nat /\ step \in Nat
  BY StepFacts DEF Shapes, Engines, Roles
<1>2. p = [c EXCEPT ![role] = c[role] - Smaller(c[role] - 1, step)]
  BY DEF ShedPd
<1> HIDE DEF step, p
<1>3. c[role] - Smaller(c[role] - 1, step) \in 1..c[role]
  BY <1>1 DEF Smaller
<1>4. ShedsFrom(c, p)
  BY <1>1, <1>2, <1>3 DEF ShedsFrom, Below, Shapes, Roles
<1> QED BY <1>4 DEF p

LEMMA EvaluatePdFacts ==
  ASSUME NEW verdicts, NEW margins, NEW rejection \in 0..1000 \cup {None}, NEW c \in Shapes,
         NEW gates, NEW count, NEW requests
  PROVE  LET p == EvaluatePd(verdicts, margins, rejection, c, gates, count, requests)
         IN  \/ p = None
             \/ GrowsFrom(c, p) /\ (FireAlarm(rejection, count) \/ gates.up)
             \/ ShedsFrom(c, p) /\ gates.shed
<1>1. FireAlarm(rejection, count) =>
        GrowsFrom(c, FirePd(c, rejection, "violated" \in VerdictSet(verdicts)))
  BY FirePdFacts DEF FireAlarm
<1>2. PickShedRole(c, margins) # None => ShedsFrom(c, ShedPd(c, PickShedRole(c, margins)))
  BY PickShedFacts, ShedPdFacts
<1> QED BY <1>1, <1>2, GrowPdFacts DEF EvaluatePd

(***************************************************************************)
(* The want of a judged tick: from a ledger c that does not exceed the     *)
(* window, one direction for both roles, frozen role by role.              *)
(***************************************************************************)
WantOK(view, obs, b, roles, w) ==
  LET c == view.committed
      g == GatesOf(view)
  IN  /\ w \in Shapes
      /\ Below(c, w) \/ Below(w, c)
      /\ Engines(w) <= b.hi
      /\ Engines(c) >= b.lo => Engines(w) >= b.lo
      /\ \A r \in Roles :
           /\ c[r] >= 1 => w[r] >= 1
           /\ w[r] > c[r] => /\ roles # None /\ roles[r] <= c[r]
                             /\ FireAlarm(obs.rejection, obs.rejections) \/ g.up
           /\ w[r] < c[r] => roles # None /\ roles[r] >= c[r] /\ g.shed

LEMMA FrozenOnTheWay ==
  ASSUME NEW c \in Shapes, NEW p, NEW e, NEW b, IsWindow(b), Engines(c) <= b.hi,
         OnTheWay(c, p, e, b), Below(c, p) \/ Below(p, c), NEW roles \in Shapes
  PROVE  LET w == ReconcilePd(e, c, PhaseOfPd(c, roles))
         IN  /\ OnTheWay(c, p, w, b)
             /\ \A r \in Roles : /\ w[r] \in Nat /\ w[r] \in {c[r], e[r]}
                                 /\ w[r] > c[r] => roles[r] <= c[r]
                                 /\ w[r] < c[r] => roles[r] >= c[r]
<1> DEFINE w == ReconcilePd(e, c, PhaseOfPd(c, roles))
<1>1. e \in Shapes
  BY DEF OnTheWay
<1>2. ASSUME NEW r \in Roles
      PROVE  /\ w[r] \in Nat /\ w[r] \in {c[r], e[r]}
             /\ w[r] > c[r] => roles[r] <= c[r]
             /\ w[r] < c[r] => roles[r] >= c[r]
  <2>1. c[r] \in Nat /\ e[r] \in Nat /\ roles[r] \in Nat
    BY <1>1 DEF Shapes, Roles
  <2>2. w[r] = Reconcile(e[r], c[r], PhaseOf(c[r], roles[r]))
    BY DEF ReconcilePd, PhaseOfPd
  <2> HIDE DEF w
  <2> QED BY <2>1, <2>2, FreezeFacts
<1>3. w = [r \in Roles |-> w[r]]
  BY DEF ReconcilePd
<1> HIDE DEF w
<1>4. w \in Shapes
  BY <1>2, <1>3, RolesType
<1>5. w.prefill \in {c.prefill, e.prefill} /\ w.decode \in {c.decode, e.decode}
  BY <1>2 DEF Roles
<1>6. /\ c.prefill \in Nat /\ c.decode \in Nat /\ e.prefill \in Nat /\ e.decode \in Nat
      /\ b.lo \in Nat /\ b.hi \in Nat /\ w.prefill \in Nat /\ w.decode \in Nat
  BY <1>1, <1>4 DEF Shapes, IsWindow
<1>7. /\ Below(c, p) => p.prefill >= e.prefill /\ p.decode >= e.decode
                        /\ e.prefill >= c.prefill /\ e.decode >= c.decode
      /\ Below(p, c) => p.prefill <= e.prefill /\ p.decode <= e.decode
                        /\ e.prefill <= c.prefill /\ e.decode <= c.decode
  BY <1>6 DEF OnTheWay, Below
<1>8. Engines(w) <= b.hi /\ (Engines(c) >= b.lo => Engines(w) >= b.lo)
  BY <1>5, <1>6, <1>7 DEF OnTheWay, Engines
<1>9. /\ Below(c, p) => Below(c, w) /\ Below(w, p)
      /\ Below(p, c) => Below(w, c) /\ Below(p, w)
  BY <1>5, <1>6, <1>7 DEF Below
<1>10. OnTheWay(c, p, w, b)
  BY <1>4, <1>8, <1>9 DEF OnTheWay
<1> QED BY <1>2, <1>10 DEF w

LEMMA WantPdFacts ==
  ASSUME NEW view, view.committed \in Shapes, NEW cr, NEW obs, ObsOK(obs),
         NEW b, IsWindow(b), Engines(view.committed) <= b.hi, NEW roles \in Shapes \cup {None}
  PROVE  WantOK(view, obs, b, roles, WantPd(view, cr, obs, b, roles))
<1> DEFINE c == view.committed
           g == GatesOf(view)
           verdicts == PdVerdicts(cr, obs)
           p == EvaluatePd(verdicts, RoleMargins(obs.slo, cr.threshold), obs.rejection,
                           c, g, obs.rejections, obs.requests)
           est == EstimatePd(c, p, b)
           frozen == ReconcilePd(est, c, PhaseOfPd(c, roles))
           w == WantPd(view, cr, obs, b, roles)
<1>1. w = IF roles = None \/ "missing" \in VerdictSet(verdicts) THEN c ELSE frozen
  BY DEF WantPd
<1>2. \/ p = None
      \/ GrowsFrom(c, p) /\ (FireAlarm(obs.rejection, obs.rejections) \/ g.up)
      \/ ShedsFrom(c, p) /\ g.shed
  <2>1. obs.rejection \in 0..1000 \cup {None} /\ c \in Shapes
    BY DEF ObsOK
  <2> HIDE DEF c, g, verdicts
  <2>2. ASSUME NEW margins, NEW count, NEW requests
        PROVE  LET q == EvaluatePd(verdicts, margins, obs.rejection, c, g, count, requests)
               IN  \/ q = None
                   \/ GrowsFrom(c, q) /\ (FireAlarm(obs.rejection, count) \/ g.up)
                   \/ ShedsFrom(c, q) /\ g.shed
    BY <2>1, EvaluatePdFacts, ZenonT(60)
  <2> QED BY <2>2
<1>3. est = IF p = None THEN c ELSE ClampPd(p, c, b)
  BY DEF EstimatePd
<1> HIDE DEF w, est, p, g, verdicts
<1>4. c \in Shapes /\ \A r \in Roles : c[r] \in Nat
  BY DEF Shapes, Roles
<1>5. CASE w = c
  <2>1. Below(c, c)
    BY <1>4 DEF Below, Shapes
  <2>2. \A r \in Roles : ~(c[r] > c[r]) /\ ~(c[r] < c[r])
    BY <1>4
  <2>3. WantOK(view, obs, b, roles, c)
    BY <1>4, <2>1, <2>2 DEF WantOK
  <2> QED BY <1>5, <2>3 DEF w
<1>6. CASE w # c
  <2>1. w = frozen /\ roles \in Shapes /\ roles # None
    BY <1>1, <1>6
  <2>2. p # None
    <3> SUFFICES ASSUME p = None PROVE FALSE
      OBVIOUS
    <3>1. est = c
      BY <1>3
    <3>2. frozen = [r \in Roles |-> c[r]]
      BY <3>1 DEF ReconcilePd, Reconcile
    <3>3. c = [r \in Roles |-> c[r]]
      BY <1>4 DEF Shapes, Roles
    <3> QED BY <1>6, <2>1, <3>2, <3>3
  <2>3. p \in Shapes /\ (Below(c, p) \/ Below(p, c))
    BY <1>2, <2>2 DEF GrowsFrom, ShedsFrom
  <2>4. OnTheWay(c, p, est, b)
    BY <1>3, <1>4, <2>2, <2>3, ClampPdFacts
  <2>5. /\ OnTheWay(c, p, w, b)
        /\ \A r \in Roles : /\ w[r] \in Nat /\ w[r] \in {c[r], est[r]}
                            /\ w[r] > c[r] => roles[r] <= c[r]
                            /\ w[r] < c[r] => roles[r] >= c[r]
    <3> HIDE DEF frozen, c
    <3> QED BY <1>4, <2>1, <2>3, <2>4, FrozenOnTheWay DEF frozen, c
  <2>6. CASE GrowsFrom(c, p) /\ (FireAlarm(obs.rejection, obs.rejections) \/ g.up)
    <3>1. Below(c, w) /\ w \in Shapes
      BY <2>5, <2>6 DEF OnTheWay, GrowsFrom
    <3>2. \A r \in Roles : c[r] <= w[r]
      BY <3>1 DEF Below, Roles
    <3>3. WantOK(view, obs, b, roles, w)
      BY <1>4, <2>1, <2>5, <2>6, <3>1, <3>2 DEF WantOK, OnTheWay, g
    <3> QED BY <3>3 DEF w
  <2>7. CASE ShedsFrom(c, p) /\ g.shed
    <3>1. Below(w, c) /\ Below(p, w) /\ w \in Shapes
      BY <2>5, <2>7 DEF OnTheWay, ShedsFrom
    <3>2. \A r \in Roles : w[r] <= c[r] /\ p[r] <= w[r] /\ p[r] \in Nat
      BY <2>3, <3>1 DEF Below, Roles, Shapes
    <3>3. \A r \in Roles : c[r] >= 1 => w[r] >= 1
      BY <1>4, <2>5, <2>7, <3>2 DEF ShedsFrom
    <3>4. WantOK(view, obs, b, roles, w)
      BY <1>4, <2>1, <2>5, <2>7, <3>1, <3>2, <3>3 DEF WantOK, OnTheWay, g
    <3> QED BY <3>4 DEF w
  <2> QED BY <1>2, <2>2, <2>6, <2>7
<1> QED BY <1>5, <1>6

(***************************************************************************)
(* The correction of a shape that is outside the window.                   *)
(***************************************************************************)
LEMMA ProductOrder ==
  ASSUME NEW t \in Nat, NEW x \in Int, NEW y \in Int, x <= y
  PROVE  t * x <= t * y
OBVIOUS

\* The quotients of two parts of t * b miss b by one at most.
LEMMA QuotientsOfParts ==
  ASSUME NEW t \in Nat \ {0}, NEW x \in Int, NEW y \in Int, NEW b \in Int, x + y = t * b
  PROVE  x \div t + y \div t \in {b - 1, b}
<1> DEFINE q == x \div t
           u == y \div t
           z == (q + u) - b
<1>1. /\ q \in Int /\ u \in Int
      /\ t * q <= x /\ x < t * q + t /\ t * u <= y /\ y < t * u + t
  OBVIOUS
<1> HIDE DEF q, u
<1>2. z \in Int /\ t * z = (t * q + t * u) - t * b
  BY <1>1
<1>3. t * z <= 0 /\ t * z > -(2 * t) /\ t * z \in Int
  BY <1>1, <1>2
<1> HIDE DEF z
<1>4. ~ (z >= 1)
  <2> SUFFICES ASSUME z >= 1 PROVE FALSE
    OBVIOUS
  <2>1. t * 1 <= t * z
    BY <1>2, ProductOrder
  <2> QED BY <1>3, <2>1
<1>5. ~ (z <= -2)
  <2> SUFFICES ASSUME z <= -2 PROVE FALSE
    OBVIOUS
  <2>1. t * z <= t * (-2)
    BY <1>2, ProductOrder
  <2> QED BY <1>3, <2>1
<1>6. z \in {-1, 0}
  BY <1>2, <1>4, <1>5
<1> QED BY <1>1, <1>6 DEF z, q, u

\* A part's quotient is no more than the whole's.
LEMMA QuotientOfPart ==
  ASSUME NEW t \in Nat \ {0}, NEW x \in Int, NEW b \in Int
  PROVE  /\ 0 <= x => 0 <= x \div t
         /\ x <= t * b => x \div t <= b
         /\ t * b <= x => b <= x \div t
<1> DEFINE q == x \div t
<1>1. q \in Int /\ t * q <= x /\ x < t * q + t
  OBVIOUS
<1> HIDE DEF q
<1>2. t * (q + 1) = t * q + t /\ t * (b + 1) = t * b + t /\ t * b \in Int /\ t * q \in Int
      /\ t * 0 = 0
  BY <1>1
<1>3. ASSUME 0 <= x, q <= -1 PROVE FALSE
  <2>1. t * (q + 1) <= t * 0
    BY <1>1, <1>3, ProductOrder
  <2> QED BY <1>1, <1>2, <1>3, <2>1
<1>4. ASSUME x <= t * b, q >= b + 1 PROVE FALSE
  <2>1. t * (b + 1) <= t * q
    BY <1>1, <1>4, ProductOrder
  <2> QED BY <1>1, <1>2, <1>4, <2>1
<1>5. ASSUME t * b <= x, q + 1 <= b PROVE FALSE
  <2>1. t * (q + 1) <= t * b
    BY <1>1, <1>5, ProductOrder
  <2> QED BY <1>1, <1>2, <1>5, <2>1
<1> QED BY <1>1, <1>3, <1>4, <1>5 DEF q

\* Rounding each role's share down (up), with at least one engine each, misses
\* the bound by one at most (is over it by one at most).
LEMMA ScaledFacts ==
  ASSUME NEW m \in Nat, NEW n \in Nat, NEW t, t = m + n, t >= 1,
         NEW bound \in Nat \ {0}, NEW shrink \in BOOLEAN
  PROVE  LET p == Scaled(m, bound, t, shrink)
             d == Scaled(n, bound, t, shrink)
         IN  /\ p \in Nat /\ d \in Nat /\ p >= 1 /\ d >= 1
             /\ p + d \in {bound - 1, bound, bound + 1}
<1>1. t \in Nat \ {0} /\ m * bound \in Nat /\ n * bound \in Nat
      /\ m * bound + n * bound = t * bound
  OBVIOUS
<1>2. m * bound <= t * bound /\ n * bound <= t * bound
  BY <1>1
<1>3. CASE shrink
  <2> DEFINE p == (m * bound) \div t
             d == (n * bound) \div t
  <2>1. p \in Int /\ d \in Int /\ p >= 0 /\ d >= 0 /\ p + d \in {bound - 1, bound}
    BY <1>1, QuotientsOfParts, QuotientOfPart
  <2>2. Scaled(m, bound, t, shrink) = Larger(1, p) /\ Scaled(n, bound, t, shrink) = Larger(1, d)
    BY <1>3 DEF Scaled
  <2> HIDE DEF p, d
  <2> QED BY <2>1, <2>2 DEF Larger
<1>4. CASE ~shrink
  <2> DEFINE p == (-(m * bound)) \div t
             d == (-(n * bound)) \div t
  <2>1. (-(m * bound)) + (-(n * bound)) = t * (-bound)
    BY <1>1
  <2>2. -(m * bound) >= t * (-bound) /\ -(n * bound) >= t * (-bound)
        /\ t * 0 = 0 /\ -(m * bound) <= t * 0 /\ -(n * bound) <= t * 0
    BY <1>1, <1>2
  <2>3. p \in Int /\ d \in Int /\ p >= -bound /\ d >= -bound /\ p <= 0 /\ d <= 0
        /\ p + d \in {-bound - 1, -bound}
    BY <1>1, <2>1, <2>2, QuotientsOfParts, QuotientOfPart
  <2>4. /\ Scaled(m, bound, t, shrink) = Larger(1, -p)
        /\ Scaled(n, bound, t, shrink) = Larger(1, -d)
    BY <1>4 DEF Scaled, CeilDiv
  <2> HIDE DEF p, d
  <2> QED BY <2>3, <2>4 DEF Larger
<1> QED BY <1>3, <1>4

\* The engine that is missing or too many is found, but for a bound of one.
LEMMA LandedFacts ==
  ASSUME NEW shape \in Shapes, NEW bound \in Nat \ {0}, NEW p \in Nat, NEW d \in Nat,
         p >= 1, d >= 1, p + d \in {bound - 1, bound, bound + 1}
  PROVE  \/ Landed(shape, bound, p, d) = None /\ bound = 1
         \/ /\ Landed(shape, bound, p, d) \in Shapes /\ Engines(Landed(shape, bound, p, d)) = bound
            /\ Landed(shape, bound, p, d).prefill >= 1 /\ Landed(shape, bound, p, d).decode >= 1
<1>1. p + 1 \in Nat /\ d + 1 \in Nat /\ p - 1 \in Nat /\ d - 1 \in Nat
  OBVIOUS
<1>2. \E fewer, more \in BOOLEAN :
        Landed(shape, bound, p, d) =
          IF p + d = bound THEN Shape(p, d)
          ELSE IF p + d < bound THEN IF fewer THEN Shape(p + 1, d) ELSE Shape(p, d + 1)
          ELSE IF p > 1 /\ (more \/ d <= 1) THEN Shape(p - 1, d)
          ELSE IF d > 1 THEN Shape(p, d - 1)
          ELSE None
  <2> DEFINE fewer == p * Engines(shape) - shape.prefill * bound
                        <= d * Engines(shape) - shape.decode * bound
             more == p * Engines(shape) - shape.prefill * bound
                        >= d * Engines(shape) - shape.decode * bound
  <2>1. Landed(shape, bound, p, d) =
          IF p + d = bound THEN Shape(p, d)
          ELSE IF p + d < bound THEN IF fewer THEN Shape(p + 1, d) ELSE Shape(p, d + 1)
          ELSE IF p > 1 /\ (more \/ d <= 1) THEN Shape(p - 1, d)
          ELSE IF d > 1 THEN Shape(p, d - 1)
          ELSE None
    BY DEF Landed
  <2>2. fewer \in BOOLEAN /\ more \in BOOLEAN
    OBVIOUS
  <2> HIDE DEF fewer, more
  <2> QED BY <2>1, <2>2
<1> DEFINE x == Landed(shape, bound, p, d)
<1>3. \/ p + d = bound /\ x = Shape(p, d)
      \/ (p + 1) + d = bound /\ x = Shape(p + 1, d)
      \/ p + (d + 1) = bound /\ x = Shape(p, d + 1)
      \/ p > 1 /\ (p - 1) + d = bound /\ x = Shape(p - 1, d)
      \/ d > 1 /\ p + (d - 1) = bound /\ x = Shape(p, d - 1)
      \/ p = 1 /\ d = 1 /\ bound = 1 /\ x = None
  BY <1>2
<1> HIDE DEF x
<1>4. \/ x = None /\ bound = 1
      \/ \E i, j \in Nat : i >= 1 /\ j >= 1 /\ i + j = bound /\ x = Shape(i, j)
  BY <1>1, <1>3
<1>5. \/ x = None /\ bound = 1
      \/ /\ x \in Shapes /\ Engines(x) = bound
         /\ x.prefill >= 1 /\ x.decode >= 1
  <2>1. CASE x = None /\ bound = 1
    BY <2>1
  <2>2. ASSUME NEW i \in Nat, NEW j \in Nat,
               i >= 1, j >= 1, i + j = bound, x = Shape(i, j)
        PROVE  x \in Shapes /\ Engines(x) = bound /\ x.prefill >= 1 /\ x.decode >= 1
    BY <2>2, ShapeType
  <2> QED BY <1>4, <2>1, <2>2
<1> QED BY <1>5 DEF x

\* Where a ledger that has left the window is moved.
LEMMA CorrectedFacts ==
  ASSUME NEW ds, ds.shape \in Shapes, NEW b, IsWindow(b), None \notin Shapes,
         Corrected(ds, b) # None
  PROVE  LET x == Corrected(ds, b)
         IN  /\ x \in Shapes /\ Engines(x) <= b.hi
             /\ \/ Engines(x) >= b.lo
                \/ Engines(ds.shape) = 0 /\ x = Shape(1, 1)
             /\ \A r \in Roles : x[r] = 0 => b.hi = 0 \/ ds.shape[r] = 0
<1> DEFINE s == ds.shape
           x == CorrectToBounds(s, b.lo, b.hi)
           total == Engines(s)
           shrink == total > b.hi
           bound == IF shrink THEN b.hi ELSE b.lo
           p == Scaled(s.prefill, bound, total, shrink)
           d == Scaled(s.decode, bound, total, shrink)
<1>1. /\ s.prefill \in Nat /\ s.decode \in Nat /\ total = s.prefill + s.decode /\ total \in Nat
      /\ b.lo \in Nat /\ b.hi \in Nat /\ b.lo <= b.hi
      /\ s["prefill"] \in Nat /\ s["decode"] \in Nat
  BY DEF Shapes, Engines, IsWindow
<1>2. /\ Shape(0, 0) \in Shapes /\ Engines(Shape(0, 0)) = 0
      /\ Shape(1, 1) \in Shapes /\ Engines(Shape(1, 1)) = 2
      /\ \A r \in Roles : Shape(1, 1)[r] = 1
  BY ShapeType DEF Shape, Roles
<1>3. CASE b.lo = 0 /\ b.hi = 0
  <2>1. Corrected(ds, b) = Shape(0, 0)
    BY <1>1, <1>2, <1>3 DEF Corrected, CorrectToBounds
  <2> QED BY <1>2, <1>3, <2>1
<1>4. CASE ~ (b.lo = 0 /\ b.hi = 0) /\ total = 0
  <2>1. Corrected(ds, b) = Shape(1, 1) /\ b.hi >= 2
    BY <1>1, <1>4 DEF Corrected, CorrectToBounds
  <2> QED BY <1>2, <1>4, <2>1
<1>5. CASE ~ (b.lo = 0 /\ b.hi = 0) /\ total # 0 /\ b.lo <= total /\ total <= b.hi
  <2>1. Corrected(ds, b) = s
    BY <1>1, <1>5 DEF Corrected, CorrectToBounds
  <2> QED BY <1>5, <2>1
<1>6. CASE ~ (b.lo = 0 /\ b.hi = 0) /\ total # 0 /\ ~ (b.lo <= total /\ total <= b.hi)
  <2>1. x = Landed(s, bound, p, d)
    BY <1>1, <1>6 DEF CorrectToBounds
  <2>2. bound \in Nat \ {0} /\ shrink \in BOOLEAN /\ bound \in {b.lo, b.hi}
        /\ s.prefill + s.decode >= 1
    BY <1>1, <1>6
  <2> HIDE DEF bound, shrink
  <2>3. p \in Nat /\ d \in Nat /\ p >= 1 /\ d >= 1 /\ p + d \in {bound - 1, bound, bound + 1}
    <3> HIDE DEF total, s
    <3> QED BY <1>1, <2>2, ScaledFacts
  <2>8. s \in Shapes
    OBVIOUS
  <2> HIDE DEF p, d, x, s, total
  <2>4. \/ x = None /\ bound = 1
        \/ /\ x \in Shapes /\ Engines(x) = bound
           /\ x.prefill >= 1 /\ x.decode >= 1
    <3>1. \/ Landed(s, bound, p, d) = None /\ bound = 1
          \/ /\ Landed(s, bound, p, d) \in Shapes /\ Engines(Landed(s, bound, p, d)) = bound
             /\ Landed(s, bound, p, d).prefill >= 1 /\ Landed(s, bound, p, d).decode >= 1
      BY <2>2, <2>3, <2>8, LandedFacts, Zenon
    <3> QED BY <2>1, <3>1
  <2>5. Corrected(ds, b) = IF x = None /\ b.hi >= 2 THEN Shape(1, 1) ELSE x
    BY DEF Corrected, x, s
  <2>6. CASE x = None
    <3>1. Corrected(ds, b) = Shape(1, 1) /\ b.hi >= 2 /\ bound = 1
      BY <2>4, <2>5, <2>6
    <3>2. b.lo <= 2
      BY <1>1, <2>2, <3>1
    <3> QED BY <1>1, <1>2, <3>1, <3>2
  <2>7. CASE x # None
    <3>1. Corrected(ds, b) = x /\ x \in Shapes /\ Engines(x) = bound
          /\ \A r \in Roles : x[r] # 0
      BY <2>4, <2>5, <2>7 DEF Roles
    <3> QED BY <1>1, <2>2, <3>1
  <2> QED BY <2>6, <2>7
<1> QED BY <1>3, <1>4, <1>5, <1>6

(***************************************************************************)
(* The clock.  A view w continues v when whatever moved the ledger on the  *)
(* way restarted the age of its last change, and no streak grew.           *)
(***************************************************************************)
Continues(v, w) ==
  /\ w.since \in {v.since, 0}
  /\ w.committed # v.committed => w.since = 0
  /\ w.comfort # None => w.comfort \in {v.comfort, 0}

LEMMA ContinuesFacts ==
  /\ \A v : Continues(v, v)
  /\ \A v, x : Continues(v, Commit(v, x)) /\ (Continues(v, v) => Continues(v, Commit(v, x)))
  /\ \A u, v, w : Continues(u, v) /\ Continues(v, w) => Continues(u, w)
BY DEF Continues, Commit

(***************************************************************************)
(* A step of the replica branch.                                           *)
(***************************************************************************)
Held == [committed : Ledgers \cup {None}, since : Int, comfort : Int \cup {None}]

HeldCount == [committed : Nat \cup {None}, since : Int, comfort : Int \cup {None}]

\* A new view is held, and has been quiet for long.
LEMMA FreshHeld == FreshView \in Held /\ FreshView.committed = None /\ FreshView.comfort = None
BY CooldownAssumption DEF FreshView, Held, AgeCap, Larger

LEMMA CommitHeld ==
  /\ \A v \in HeldCount, n \in Nat : Commit(v, n) \in HeldCount /\ Commit(v, n).committed = n
  /\ \A v \in Held, x \in Ledgers : Commit(v, x) \in Held /\ Commit(v, x).committed = x
BY DEF Commit, HeldCount, Held

LEMMA StreakHeld ==
  ASSUME NEW v, v \in Held \/ v \in HeldCount, NEW comfy
  PROVE  LET w == Streak(v, comfy)
         IN  /\ v \in Held => w \in Held
             /\ v \in HeldCount => w \in HeldCount
             /\ w.committed = v.committed /\ w.since = v.since
             /\ Continues(v, w)
             /\ w.comfort # None => comfy
BY DEF Streak, Held, HeldCount, Continues

LEMMA CountStep ==
  ASSUME NEW v \in HeldCount, NEW cr, WindowOK(cr), NEW obs, NEW physical, NEW spec \in Nat
  PROVE  LET t == Step(v, cr, obs, physical, spec)
         IN  /\ t.view \in HeldCount /\ t.view.committed \in Nat /\ Continues(v, t.view)
             /\ t.view.comfort # None /\ ~t.skip => AllComfy(cr, obs, Verdicts(cr, obs, physical))
<1> DEFINE b == Bounds(cr)
           seeded == EnsureSeeded(v, b, spec)
           shrunk == MaxShrink(seeded, b)
           comfy == AllComfy(cr, obs, Verdicts(cr, obs, physical))
           j == Judged(seeded, cr, obs, physical)
<1>1. b.lo \in Nat /\ b.hi \in Nat /\ Clamp(spec, b) \in Nat
  <2>1. b.lo \in Nat /\ b.hi \in Nat /\ b.lo <= b.hi
    BY BoundsType
  <2> HIDE DEF b
  <2> QED BY <2>1, ClampFacts
<1> HIDE DEF b
<1>2. seeded \in HeldCount /\ seeded.committed \in Nat /\ Continues(v, seeded)
  BY <1>1, CommitHeld, ContinuesFacts DEF EnsureSeeded, HeldCount
<1> HIDE DEF seeded
<1>3. shrunk \in HeldCount /\ shrunk.committed \in Nat /\ Continues(v, shrunk)
  BY <1>1, <1>2, CommitHeld, ContinuesFacts DEF MaxShrink
<1>4. j.view = Streak(shrunk, comfy) /\ j.skip = FALSE
  BY DEF Judged, b
<1> HIDE DEF shrunk, comfy, j
<1>5. /\ j.view \in HeldCount /\ j.view.committed \in Nat /\ Continues(v, j.view)
      /\ j.view.comfort # None => comfy
  BY <1>3, <1>4, StreakHeld, ContinuesFacts
<1>6. Step(v, cr, obs, physical, spec) =
        IF NoEvidence(physical)
          THEN [view |-> seeded, skip |-> TRUE, want |-> seeded.committed]
          ELSE j
  BY DEF Step, seeded, b, j
<1> QED BY <1>2, <1>4, <1>5, <1>6 DEF comfy

LEMMA StepReplicasFacts ==
  ASSUME NEW view \in Held, None \notin Ledgers, view.committed = None => view.comfort = None,
         NEW cr, WindowOK(cr), NEW obs, NEW physical, NEW spec \in Nat
  PROVE  LET t == StepReplicas(view, cr, obs, physical, spec)
         IN  /\ t.view \in Held /\ t.view.committed \in Ledgers /\ Continues(view, t.view)
             /\ t.view.comfort # None /\ ~t.skip => AllComfy(cr, obs, Verdicts(cr, obs, physical))
<1> DEFINE own == IF HasShape(view) THEN ResetCommitted(view) ELSE view
           bare == Bare(own)
           u == Step(bare, cr, obs, physical, spec)
           w == Counted(u.view)
           t == StepReplicas(view, cr, obs, physical, spec)
<1>1. /\ bare \in HeldCount /\ bare.since = view.since
      /\ \/ HasShape(view) /\ bare.committed = None /\ bare.comfort = None
         \/ view.committed = None /\ bare.committed = None /\ bare.comfort = None
         \/ /\ bare.committed \in Nat /\ view.committed = [replicas |-> bare.committed]
            /\ bare.comfort = view.comfort
  <2>1. CASE HasShape(view)
    BY <2>1 DEF ResetCommitted, Bare, Held, HeldCount
  <2>2. CASE view.committed = None
    BY <2>2 DEF HasShape, Bare, Held, HeldCount
  <2>3. CASE view.committed # None /\ ~HasShape(view)
    <3>1. view.committed \in [replicas : Nat]
      BY <2>3 DEF HasShape, Held, Ledgers, Shapes
    <3>2. view.committed.replicas \in Nat
          /\ view.committed = [replicas |-> view.committed.replicas]
      BY <3>1
    <3>3. bare = [view EXCEPT !.committed = view.committed.replicas]
      BY <2>3 DEF Bare
    <3> HIDE DEF bare
    <3> QED BY <3>2, <3>3 DEF Held, HeldCount
  <2> QED BY <2>1, <2>2, <2>3
<1> HIDE DEF own, bare
<1>2. /\ u.view \in HeldCount /\ u.view.committed \in Nat /\ Continues(bare, u.view)
      /\ u.view.comfort # None /\ ~u.skip => AllComfy(cr, obs, Verdicts(cr, obs, physical))
  BY <1>1, CountStep
<1>3. "view" \in DOMAIN u
  BY DEF u, Step, Judged
<1>4. t.view = w /\ t.skip = u.skip
  BY <1>3 DEF StepReplicas, own, bare
<1> HIDE DEF u, t
<1>5. /\ w.committed = [replicas |-> u.view.committed]
      /\ w.since = u.view.since /\ w.comfort = u.view.comfort
      /\ w \in Held /\ w.committed \in Ledgers
  <2>1. None \notin Nat
    BY RulesAssumption
  <2>2. w = [u.view EXCEPT !.committed = [replicas |-> u.view.committed]]
    BY <1>2, <2>1 DEF Counted
  <2>3. [replicas |-> u.view.committed] \in Ledgers
    BY <1>2 DEF Ledgers
  <2> HIDE DEF w
  <2> QED BY <1>2, <2>2, <2>3 DEF Held, HeldCount
<1> HIDE DEF w
<1>6. Continues(view, w)
  <2>1. None \notin Nat
    BY RulesAssumption
  <2>2. CASE bare.committed = None /\ bare.comfort = None
    BY <1>1, <1>2, <1>5, <2>1, <2>2 DEF Continues
  <2>3. CASE view.committed = [replicas |-> bare.committed] /\ bare.comfort = view.comfort
    BY <1>1, <1>2, <1>5, <2>3 DEF Continues
  <2> QED BY <1>1, <2>2, <2>3
<1> QED BY <1>2, <1>4, <1>5, <1>6 DEF t

(***************************************************************************)
(* A step of the pdengine branch: the view is forgotten, or the tick skips *)
(* the service with the ledger it has or is seeded with, or it is judged.  *)
(***************************************************************************)
IsSet(ds) == ds \in [slices : Nat \ {0}, shape : Shapes]

Forgotten(t) == t.skip /\ t.view = FreshView

SkippedOK(view, t) ==
  /\ t.skip /\ t.view \in Held /\ t.view.committed \in Shapes /\ Continues(view, t.view)
  /\ HasShape(view) => t.view.committed = view.committed

JudgedPdOK(view, cr, obs, ds, roles, t) ==
  LET c == t.view.committed
      b == Bounds(cr)
  IN  /\ ~t.skip /\ t.view \in Held /\ c \in Shapes /\ Continues(view, t.view)
      /\ t.view.comfort # None => AllComfy(cr, obs, LlmVerdicts(cr, obs))
      /\ Engines(c) <= b.hi
      /\ Engines(c) >= b.lo \/ (Engines(ds.shape) = 0 /\ c = Shape(1, 1))
      /\ WantOK(t.view, obs, b, roles, t.want)
      /\ HasShape(view) /\ Within(view.committed, b) => c = view.committed
      /\ HasShape(view) =>
           \/ c = view.committed
           \/ \A r \in Roles : c[r] = 0 => b.hi = 0 \/ ds.shape[r] = 0

LEMMA SeedShapeFacts ==
  ASSUME NEW view \in Held, None \notin Ledgers, NEW ds, IsSet(ds)
  PROVE  LET v == SeedShape(view, ds)
         IN  /\ v \in Held /\ v.committed \in Shapes /\ Continues(view, v)
             /\ HasShape(view) => v = view
<1> DEFINE own == IF HasCount(view) THEN ResetCommitted(view) ELSE view
           v == SeedShape(view, ds)
<1>1. ds.shape \in Shapes /\ ds.shape \in Ledgers
  BY DEF IsSet, Ledgers
<1>2. CASE HasCount(view)
  <2>1. own \in Held /\ own.committed = None /\ own.comfort = None
    BY <1>2 DEF ResetCommitted, Held
  <2>2. v = Commit(own, ds.shape) /\ ds.shape # None
    BY <1>1, <2>1 DEF SeedShape
  <2>3. v = [committed |-> ds.shape, since |-> 0, comfort |-> None]
    BY <2>1, <2>2 DEF Commit
  <2>4. ~HasShape(view)
    BY <1>2 DEF HasCount, HasShape, Held, Ledgers, Shapes
  <2> HIDE DEF v
  <2>5. v \in Held /\ v.committed \in Shapes /\ Continues(view, v)
    BY <1>1, <2>3 DEF Held, Continues
  <2> QED BY <2>4, <2>5 DEF v
<1>3. CASE view.committed = None
  <2>1. v = Commit(view, ds.shape)
    BY <1>3 DEF SeedShape, HasCount
  <2> QED BY <1>1, <1>3, <2>1, CommitHeld, ContinuesFacts DEF HasShape
<1>4. CASE ~HasCount(view) /\ view.committed # None
  <2>1. v = view
    BY <1>4 DEF SeedShape
  <2>2. view.committed \in Shapes
    BY <1>4 DEF HasCount, Held, Ledgers
  <2> QED BY <2>1, <2>2, ContinuesFacts
<1> QED BY <1>2, <1>3, <1>4

\* The two views of a CR's verdicts are the same set.
LEMMA VerdictSets == \A cr, obs : VerdictSet(PdVerdicts(cr, obs)) = LlmVerdicts(cr, obs)
BY DEF VerdictSet, PdVerdicts, LlmVerdicts

\* What judging makes of a seeded view.
JudgedFrom(view, cr, obs, ds, roles, t) ==
  LET c == t.view.committed
      b == Bounds(cr)
  IN  /\ t.skip = FALSE /\ t.view \in Held /\ c \in Shapes /\ Continues(view, t.view)
      /\ t.view.comfort # None => AllComfy(cr, obs, LlmVerdicts(cr, obs))
      /\ Engines(c) <= b.hi
      /\ Engines(c) >= b.lo \/ (Engines(ds.shape) = 0 /\ c = Shape(1, 1))
      /\ WantOK(t.view, obs, b, roles, t.want)
      /\ Within(view.committed, b) => c = view.committed
      /\ \/ c = view.committed
         \/ \A r \in Roles : c[r] = 0 => b.hi = 0 \/ ds.shape[r] = 0

LEMMA JudgedPdFacts ==
  ASSUME NEW view \in Held, view.committed \in Shapes, None \notin Ledgers,
         NEW cr, WindowOK(cr), NEW obs, ObsOK(obs), NEW ds, IsSet(ds), ds.slices = 1,
         ~Inexpressible(view, ds, Window(cr, ds)), NEW roles \in Shapes \cup {None}
  PROVE  JudgedFrom(view, cr, obs, ds, roles, JudgedPd(view, cr, obs, ds, roles))
<1> DEFINE b == Bounds(cr)
           fixed == BoundsFix(view, ds, b)
           comfy == AllComfy(cr, obs, LlmVerdicts(cr, obs))
           v == Streak(fixed, comfy)
           t == JudgedPd(view, cr, obs, ds, roles)
<1>1. IsWindow(b) /\ Window(cr, ds) = b
  BY WindowIsBounds
<1> HIDE DEF b
<1>2. ds.shape \in Shapes /\ None \notin Shapes /\ Shapes \subseteq Ledgers
  BY DEF IsSet, Ledgers
<1>3. /\ fixed \in Held /\ fixed.committed \in Shapes /\ Continues(view, fixed)
      /\ Engines(fixed.committed) <= b.hi
      /\ \/ Engines(fixed.committed) >= b.lo
         \/ Engines(ds.shape) = 0 /\ fixed.committed = Shape(1, 1)
      /\ Within(view.committed, b) => fixed.committed = view.committed
      /\ \/ fixed.committed = view.committed
         \/ \A r \in Roles : fixed.committed[r] = 0 => b.hi = 0 \/ ds.shape[r] = 0
  <2>1. CASE Within(view.committed, b)
    BY <1>1, <2>1, ContinuesFacts DEF BoundsFix, Within, IsWindow, Engines, Shapes
  <2>2. CASE ~Within(view.committed, b)
    <3> DEFINE x == Corrected(ds, b)
    <3>1. x # None
      BY <1>1, <2>2 DEF Inexpressible
    <3>2. /\ x \in Shapes /\ Engines(x) <= b.hi
          /\ \/ Engines(x) >= b.lo
             \/ Engines(ds.shape) = 0 /\ x = Shape(1, 1)
          /\ \A r \in Roles : x[r] = 0 => b.hi = 0 \/ ds.shape[r] = 0
      BY <1>1, <1>2, <3>1, CorrectedFacts
    <3>3. fixed = Commit(view, x)
      BY <2>2 DEF BoundsFix
    <3> HIDE DEF x, fixed
    <3>4. fixed \in Held /\ fixed.committed = x /\ Continues(view, fixed)
      BY <1>2, <3>2, <3>3, CommitHeld, ContinuesFacts
    <3> QED BY <2>2, <3>2, <3>4
  <2> QED BY <2>1, <2>2
<1> HIDE DEF fixed
<1>4. /\ v \in Held /\ v.committed = fixed.committed /\ Continues(fixed, v)
      /\ v.comfort # None => comfy
  BY <1>3, StreakHeld
<1>5. t.view = v /\ t.skip = FALSE /\ t.want = WantPd(v, cr, obs, b, roles)
  BY <1>1, VerdictSets DEF JudgedPd, fixed
<1> HIDE DEF v, comfy, t
<1>6. WantOK(v, obs, b, roles, t.want)
  BY <1>1, <1>3, <1>4, <1>5, WantPdFacts
<1>7. Continues(view, v)
  BY <1>3, <1>4, ContinuesFacts
<1>8. JudgedFrom(view, cr, obs, ds, roles, t)
  BY <1>3, <1>4, <1>5, <1>6, <1>7 DEF JudgedFrom, comfy, b
<1> QED BY <1>8 DEF t

LEMMA StepPdFacts ==
  ASSUME NEW view \in Held, None \notin Ledgers,
         NEW cr, WindowOK(cr), NEW obs, ObsOK(obs), NEW physical,
         NEW ds, ds = None \/ IsSet(ds), NEW roles \in Shapes \cup {None}
  PROVE  LET t == StepPd(view, cr, obs, physical, ds, roles)
         IN  \/ Forgotten(t)
             \/ SkippedOK(view, t)
             \/ JudgedPdOK(view, cr, obs, ds, roles, t)
<1> DEFINE seeded == SeedShape(view, ds)
           t == StepPd(view, cr, obs, physical, ds, roles)
           j == JudgedPd(seeded, cr, obs, ds, roles)
<1>1. CASE Structural(ds) \/ (~NoEvidence(physical) /\ Inexpressible(seeded, ds, Window(cr, ds)))
  BY <1>1 DEF StepPd, DroppedPd, Forgotten, SkippedOK
<1>2. CASE ~Structural(ds) /\ NoEvidence(physical)
  <2>1. t.view = seeded /\ t.skip
    BY <1>2 DEF StepPd
  <2>2. IsSet(ds)
    BY <1>2 DEF Structural
  <2> QED BY <2>1, <2>2, SeedShapeFacts DEF SkippedOK
<1>3. CASE ~Structural(ds) /\ ~NoEvidence(physical) /\ ~Inexpressible(seeded, ds, Window(cr, ds))
  <2>1. t = j
    BY <1>3 DEF StepPd
  <2>2. IsSet(ds) /\ ds.slices = 1
    BY <1>3 DEF Structural
  <2>3. /\ seeded \in Held /\ seeded.committed \in Shapes /\ Continues(view, seeded)
        /\ HasShape(view) => seeded = view
    BY <2>2, SeedShapeFacts
  <2> HIDE DEF seeded, t
  <2>4. JudgedFrom(seeded, cr, obs, ds, roles, j)
    BY <1>3, <2>2, <2>3, JudgedPdFacts
  <2> HIDE DEF j
  <2>5. Continues(view, j.view)
    BY <2>3, <2>4, ContinuesFacts DEF JudgedFrom
  <2>6. JudgedPdOK(view, cr, obs, ds, roles, j)
    BY <2>3, <2>4, <2>5 DEF JudgedFrom, JudgedPdOK
  <2> QED BY <2>1, <2>6 DEF t
<1> QED BY <1>1, <1>2, <1>3
=============================================================================
