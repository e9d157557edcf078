---------------------------- MODULE ServiceLife ----------------------------
(***************************************************************************)
(* The life of one service under the controller: its CR is written, edited *)
(* and deleted, its ready replicas come and go, time passes, and each tick *)
(* steps its view and commits what the planner allots.                     *)
(*                                                                         *)
(* The planner is represented by what it may answer (module Planner): a    *)
(* service that is not preempted gets something from its baseline to its   *)
(* clamped want, and a preempted one something from its floor to below its *)
(* baseline.                                                               *)
(***************************************************************************)
EXTENDS ServiceView

CONSTANTS
  CRs,            \* the CRs an author may write, opt-outs included
  Observations,   \* what a tick may read (ServiceView, "Evidence")
  MaxReady        \* bound on replicas: ready ones and spec.replicas

VARIABLES
  cr,      \* the CR in the store, or None
  ready,   \* replicas that are ready in the cluster
  view,    \* the controller's ServiceView; FreshView when it has none
  hist     \* history, kept apart from the view:
           \*   moved  - age of the ledger's last change
           \*   uneasy - age of the last judged tick that saw less than comfort
           \*   step   - what the last step was
           \*   alarm  - whether it judged a fire alarm

vars == <<cr, ready, view, hist>>

ASSUME LifeAssumption ==
  /\ MaxReady \in Nat
  /\ None \notin CRs
  /\ \A c \in CRs :
       /\ c.kind \in {"llm", "job"}
       /\ c.min \in Nat \cup {None}
       /\ c.max \in Nat \cup {None}
  /\ \A o \in Observations : o.rejection \in 0..1000 \cup {None}

History ==
  [moved : 0..AgeCap, uneasy : 0..ComfortSustain,
   step : {"other", "skipped", "aborted", "granted", "preempted"}, alarm : BOOLEAN]

\* The type invariant: a seeded ledger is a number of replicas, and the ages of
\* the view and of the history stay within the thresholds they are compared with.
TypeOK ==
  /\ cr \in CRs \cup {None}
  /\ ready \in 0..MaxReady
  /\ view \in View
  /\ hist \in History

Init ==
  /\ cr \in CRs
  /\ ready \in 0..MaxReady
  /\ view = FreshView
  /\ hist = [moved |-> 0, uneasy |-> 0, step |-> "other", alarm |-> FALSE]

Idle == [hist EXCEPT !.step = "other", !.alarm = FALSE]

(***************************************************************************)
(* The environment.                                                        *)
(***************************************************************************)
EditCR(c) ==
  /\ c # cr
  /\ cr' = c
  /\ hist' = Idle
  /\ UNCHANGED <<ready, view>>

Disturb(n) ==
  /\ n # ready
  /\ ready' = n
  /\ hist' = Idle
  /\ UNCHANGED <<cr, view>>

\* The operator applies the decision: one replica more or less is ready.
Converge ==
  /\ view.committed # None /\ view.committed # ready
  /\ ready' = IF ready < view.committed THEN ready + 1 ELSE ready - 1
  /\ ready' <= MaxReady
  /\ hist' = Idle
  /\ UNCHANGED <<cr, view>>

Pass ==
  /\ view' = Aged(view)
  /\ hist' = [Idle EXCEPT !.moved = Smaller(@ + 1, AgeCap),
                          !.uneasy = Smaller(@ + 1, ComfortSustain)]
  /\ UNCHANGED <<cr, ready>>

(***************************************************************************)
(* The tick.                                                               *)
(***************************************************************************)
Managed == cr # None /\ ~OptedOut(cr)

Alarm(obs) == cr.kind = "llm" /\ FireAlarm(obs.rejection, obs.rejections)

Remember(step, obs) ==
  LET judged == step # "skipped"
  IN  hist' =
        [moved  |-> IF view'.committed # view.committed THEN 0 ELSE hist.moved,
         uneasy |-> IF judged /\ ~AllComfy(cr, obs, Verdicts(cr, obs, ready))
                      THEN 0 ELSE hist.uneasy,
         step   |-> step,
         alarm  |-> judged /\ Alarm(obs)]

\* A deleted or opted-out CR frees the ledger entry.
TickUnmanaged ==
  /\ ~Managed
  /\ view' = FreshView
  /\ hist' = [Idle EXCEPT !.moved = IF view.committed # None THEN 0 ELSE @]
  /\ UNCHANGED <<cr, ready>>

\* spec.replicas is read at the seed only.
SpecReplicas == IF view.committed = None THEN 0..MaxReady ELSE {0}

\* No replica count, or a count of zero: the service only gets its seed.
TickSkipped(obs, physical, spec) ==
  LET t == Step(view, cr, obs, physical, spec)
  IN  /\ t.skip
      /\ view' = t.view
      /\ Remember("skipped", obs)
      /\ UNCHANGED <<cr, ready>>

\* A read of another service fails later in the tick: this one is stepped, and
\* nothing is committed.
TickAborted(obs, spec) ==
  LET t == Step(view, cr, obs, ready, spec)
  IN  /\ ~t.skip
      /\ view' = t.view
      /\ Remember("aborted", obs)
      /\ UNCHANGED <<cr, ready>>

Baseline(committed, want, bounds) ==
  Larger(bounds.lo, Smaller(Clamp(want, bounds), committed))

TickJudged(obs, spec) ==
  LET t == Step(view, cr, obs, ready, spec)
      bounds == Bounds(cr)
      baseline == Baseline(t.view.committed, t.want, bounds)
  IN  /\ ~t.skip
      /\ \E n \in bounds.lo .. Clamp(t.want, bounds) :
           /\ view' = Commit(t.view, n)
           /\ Remember(IF n < baseline THEN "preempted" ELSE "granted", obs)
      /\ UNCHANGED <<cr, ready>>

TickManaged ==
  /\ Managed
  /\ \E obs \in Observations, spec \in SpecReplicas :
       \/ \E physical \in {None, ready} : TickSkipped(obs, physical, spec)
       \/ TickAborted(obs, spec)
       \/ TickJudged(obs, spec)

Next ==
  \/ \E c \in CRs \cup {None} : EditCR(c)
  \/ \E n \in 0..MaxReady : Disturb(n)
  \/ Converge
  \/ Pass
  \/ TickUnmanaged
  \/ TickManaged

Spec == Init /\ [][Next]_vars

(***************************************************************************)
(* Safety.                                                                 *)
(***************************************************************************)

\* The cooldown clock and the comfort streak never claim more than happened:
\* whatever path moved the ledger also restarted the clock (commit() is the
\* sole mutation path), and comfort is never older than the last judged tick
\* that saw anything less.
ClockIsHonest ==
  view.committed # None =>
    /\ view.since = hist.moved
    /\ view.comfort # None => view.comfort <= hist.uneasy

Ledger == view.committed
Seeded == Ledger # None /\ Ledger' # None
Grew == Seeded /\ Ledger' > Ledger
Shrank == Seeded /\ Ledger' < Ledger

Granted == hist'.step = "granted"
Committed == hist'.step \in {"granted", "preempted"}

\* A tick that sheds on its own judgement (not preempted, not compressed to
\* a lowered maximum) comes after DOWN_COOLDOWN_S without a change and
\* COMFORT_SUSTAIN_S in which no judged tick saw less than comfort.
ShedIsEarned ==
  [][ Granted /\ Shrank /\ Ledger <= Bounds(cr).hi =>
        hist.moved >= DownCooldown /\ hist'.uneasy >= ComfortSustain ]_vars

\* Growth that is neither the fire alarm nor a raised floor comes at least
\* UP_COOLDOWN_S after the last change of the ledger, in either direction.
GrowthIsSpaced ==
  [][ Granted /\ Grew /\ Ledger >= Bounds(cr).lo /\ ~hist'.alarm =>
        hist.moved >= UpCooldown ]_vars

\* The ledger never turns against a rollout in flight: a draining service
\* grows only up to a raised floor, and a ramping one shrinks only by
\* preemption or to a lowered maximum (the I4 incident of direction.py).
NoReversal ==
  [][ /\ Committed /\ Grew /\ ready > Ledger => Ledger < Bounds(cr).lo
      /\ Granted /\ Shrank /\ ready < Ledger => Ledger > Bounds(cr).hi ]_vars

\* Absolute targets do not compound: however often a rule fires before the
\* cluster has moved, the ledger grows to at most one capped fire (or one
\* step) above the replicas that are really there, or to the CR's floor.
GrowthFollowsEvidence ==
  [][ Committed /\ Grew =>
        \/ Ledger' = Bounds(cr).lo
        \/ Ledger' <= ready + Larger(GrowStep(ready),
                                     Larger(1, CeilDiv(ready * FireCapPct, 100))) ]_vars
============================================================================
