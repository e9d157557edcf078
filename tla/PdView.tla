------------------------------- MODULE PdView -------------------------------
(***************************************************************************)
(* The pdengine branch of ServiceView.step, and the dispatch between the   *)
(* two branches.  A CR whose type flips changes the currency of the        *)
(* ledger: a number of replicas here is [replicas |-> n], a shape is       *)
(* [prefill |-> p, decode |-> d].                                          *)
(*                                                                         *)
(* Definitions called Faulty... are plausible mistakes in the definition   *)
(* that follows them; the specification never uses them.  They show that a *)
(* property can fail (PROJECT.json, "mutants").                            *)
(***************************************************************************)
EXTENDS ServiceView, PdEngine

Ledgers == [replicas : Nat] \cup Shapes

HasShape(view) == view.committed # None /\ "prefill" \in DOMAIN view.committed
HasCount(view) == view.committed # None /\ "replicas" \in DOMAIN view.committed

ResetCommitted(view) == [view EXCEPT !.committed = None, !.comfort = None]

(***************************************************************************)
(* The replica branch is ServiceView's Step on the bare number.            *)
(***************************************************************************)
Bare(view) ==
  [view EXCEPT !.committed = IF @ = None THEN None ELSE @.replicas]

Counted(view) ==
  [view EXCEPT !.committed = IF @ = None THEN None ELSE [replicas |-> @]]

StepReplicas(view, cr, obs, physical, specReplicas) ==
  LET own == IF HasShape(view) THEN ResetCommitted(view) ELSE view
      t == Step(Bare(own), cr, obs, physical, specReplicas)
  IN  [t EXCEPT !.view = Counted(@)]

(***************************************************************************)
(* The pdengine branch.  "ds" is what the placement says of the            *)
(* DisaggregatedSet: None without a prefill and decode pair, else its      *)
(* slices and the shape of its spec.  "roles" are the ready engines of     *)
(* each role, None when either series is missing.                          *)
(*                                                                         *)
(* "drop" is a structural skip: the controller forgets the view.           *)
(***************************************************************************)
Window(cr, ds) == PerSliceWindow(Bounds(cr).lo, Bounds(cr).hi, ds.slices)

Within(shape, window) == window.lo <= Engines(shape) /\ Engines(shape) <= window.hi

SeedShape(view, ds) ==
  LET own == IF HasCount(view) THEN ResetCommitted(view) ELSE view
  IN  IF own.committed # None THEN own ELSE Commit(own, ds.shape)

\* The shape the ledger is moved to when it has left the window; None when
\* not even one engine of each role fits.
Corrected(ds, window) ==
  LET shape == CorrectToBounds(ds.shape, window.lo, window.hi)
  IN  IF shape = None /\ window.hi >= 2 THEN Shape(1, 1) ELSE shape

FaultyBoundsFixUnstamped(view, ds, window) ==
  IF Within(view.committed, window) THEN view
  ELSE [view EXCEPT !.committed = Corrected(ds, window)]

BoundsFix(view, ds, window) ==
  IF Within(view.committed, window) THEN view ELSE Commit(view, Corrected(ds, window))

Inexpressible(view, ds, window) ==
  ~Within(view.committed, window) /\ Corrected(ds, window) = None

PdVerdicts(cr, obs) ==
  [m \in DOMAIN cr.threshold |-> VerdictOf(MetricDirection[m], obs.slo[m], cr.threshold[m])]

FaultyClampUnclamped(est, committed, window) == est

ClampPd(est, committed, window) ==
  IF Engines(est) > window.hi THEN TrimGrowthToCap(est, committed, window.hi)
  ELSE IF Engines(est) < window.lo THEN PadShedToFloor(est, committed, window.lo)
  ELSE est

EstimatePd(committed, proposal, window) ==
  IF proposal = None THEN committed ELSE ClampPd(proposal, committed, window)

WantPd(view, cr, obs, window, roles) ==
  LET verdicts == PdVerdicts(cr, obs)
      proposal == EvaluatePd(verdicts, RoleMargins(obs.slo, cr.threshold), obs.rejection,
                             view.committed, GatesOf(view), obs.rejections, obs.requests)
  IN  IF roles = None \/ "missing" \in VerdictSet(verdicts) THEN view.committed
      ELSE ReconcilePd(EstimatePd(view.committed, proposal, window), view.committed,
                       PhaseOfPd(view.committed, roles))

JudgedPd(view, cr, obs, ds, roles) ==
  LET window == Window(cr, ds)
      fixed == BoundsFix(view, ds, window)
      judged == Streak(fixed, AllComfy(cr, obs, VerdictSet(PdVerdicts(cr, obs))))
  IN  [view |-> judged, skip |-> FALSE, drop |-> FALSE,
       want |-> WantPd(judged, cr, obs, window, roles)]

Structural(ds) == ds = None \/ ds.slices # 1

DroppedPd == [view |-> FreshView, skip |-> TRUE, drop |-> TRUE, want |-> None]

\* step for a pdengine CR, up to and including the controller's
\* _drop_pd_view.
StepPd(view, cr, obs, physical, ds, roles) ==
  LET seeded == SeedShape(view, ds)
  IN  IF Structural(ds) THEN DroppedPd
      ELSE IF NoEvidence(physical)
        THEN [view |-> seeded, skip |-> TRUE, drop |-> FALSE, want |-> seeded.committed]
      ELSE IF Inexpressible(seeded, ds, Window(cr, ds)) THEN DroppedPd
      ELSE JudgedPd(seeded, cr, obs, ds, roles)
============================================================================
