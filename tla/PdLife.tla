------------------------------- MODULE PdLife -------------------------------
(***************************************************************************)
(* The life of one disaggregated service under the controller: its CR is   *)
(* written, flipped between the types replica and pdengine, opted out and  *)
(* deleted, its DisaggregatedSet is edited, its ready engines come and go, *)
(* time passes and the wall clock is set back, and each tick steps its     *)
(* view and commits what it is granted.                                    *)
(*                                                                         *)
(* The rest of the fleet is represented by what it may answer: any number  *)
(* from the floor to the want for a replica ledger (module Planner), and   *)
(* all of the want or nothing of it for a shape (module Controller).       *)
(***************************************************************************)
EXTENDS PdView

CONSTANTS
  CRs,            \* the CRs an author may write, opt-outs included
  Sets,           \* what the placement may say of the DisaggregatedSet
  Observations,   \* what a tick may read
  Counts,         \* replicas_ready of the service: None and numbers
  Seeds,          \* spec.replicas, for a ledger of replicas
  Readies,        \* ready engines of the two roles
  MaxSetBack      \* bound on how far behind a change the clock may be set

ASSUME PdLifeAssumption ==
  /\ Readies \subseteq Shapes /\ MaxSetBack \in Nat
  /\ Counts \subseteq Nat \cup {None} /\ Seeds \subseteq Nat
  /\ None \notin CRs /\ None \notin Ledgers
  /\ \A o \in Observations : o.rejection \in 0..1000 \cup {None}
  /\ \A c \in CRs :
       /\ c.kind = "llm" /\ c.type \in {"replica", "pdengine"}
       /\ c.min \in Nat \cup {None}
       /\ c.max \in Nat \cup {None}
  /\ \A d \in Sets : d = None \/ d \in [slices : Nat \ {0}, shape : Shapes]

VARIABLES
  cr,      \* the CR in the store, or None
  ds,      \* the DisaggregatedSet, as the placement shows it
  ready,   \* ready engines of each role
  view,    \* the controller's ServiceView; FreshView when it has none
  hist     \* history, kept apart from the view and by a clock that is never
           \* set back:
           \*   moved  - age of the ledger's last change
           \*   uneasy - age of the last judged tick that saw less than comfort
           \*   step   - what the last step was
           \*   alarm  - whether it judged a fire alarm

vars == <<cr, ds, ready, view, hist>>

PdAges(cap) == -MaxSetBack .. cap

\* The type invariant.
TypeOK ==
  /\ cr \in CRs \cup {None}
  /\ ds \in Sets
  /\ ready \in Readies
  /\ view \in [committed : Ledgers \cup {None},
               since     : PdAges(AgeCap),
               comfort   : PdAges(ComfortSustain) \cup {None}]
  /\ hist \in [moved : 0..AgeCap, uneasy : 0..ComfortSustain,
               step : {"other", "skipped", "aborted", "granted", "denied"},
               alarm : BOOLEAN]

Init ==
  /\ cr \in CRs
  /\ ds \in Sets
  /\ ready \in Readies
  /\ view = FreshView
  /\ hist = [moved |-> 0, uneasy |-> 0, step |-> "other", alarm |-> FALSE]

Idle == [hist EXCEPT !.step = "other", !.alarm = FALSE]

(***************************************************************************)
(* The environment.                                                        *)
(***************************************************************************)
EditCR(c) ==
  /\ c # cr
  /\ cr' = c /\ hist' = Idle
  /\ UNCHANGED <<ds, ready, view>>

\* The operator applies a decision, or somebody else edits the set.
EditSet(d) ==
  /\ d # ds
  /\ ds' = d /\ hist' = Idle
  /\ UNCHANGED <<cr, ready, view>>

Disturb(n) ==
  /\ n # ready
  /\ ready' = n /\ hist' = Idle
  /\ UNCHANGED <<cr, ds, view>>

Pass ==
  /\ view' = Aged(view)
  /\ hist' = [Idle EXCEPT !.moved = Smaller(@ + 1, AgeCap),
                          !.uneasy = Smaller(@ + 1, ComfortSustain)]
  /\ UNCHANGED <<cr, ds, ready>>

\* The wall clock is set back by a unit: every age is less by one.  An age at
\* its cap may have been larger and still be there.
Younger(age, cap) == {age - 1} \cup {a \in {age} : a = cap}

SetBack ==
  /\ \E since \in Younger(view.since, AgeCap) :
       /\ since >= -MaxSetBack
       /\ \E comfort \in IF view.comfort = None THEN {None}
                         ELSE Younger(view.comfort, ComfortSustain) :
            /\ comfort # None => comfort >= -MaxSetBack
            /\ view' = [view EXCEPT !.since = since, !.comfort = comfort]
  /\ hist' = Idle
  /\ UNCHANGED <<cr, ds, ready>>

(***************************************************************************)
(* The tick.                                                               *)
(***************************************************************************)
Managed == cr # None /\ ~OptedOut(cr)

Remember(step, obs) ==
  LET judged == step # "skipped"
  IN  hist' =
        [moved  |-> IF view'.committed # view.committed THEN 0 ELSE hist.moved,
         uneasy |-> IF judged /\ ~AllComfy(cr, obs, LlmVerdicts(cr, obs))
                      THEN 0 ELSE hist.uneasy,
         step   |-> step,
         alarm  |-> judged /\ FireAlarm(obs.rejection, obs.rejections)]

Enter(t, committed, step, obs) ==
  /\ view' = Commit(t.view, committed)
  /\ Remember(step, obs)
  /\ UNCHANGED <<cr, ds, ready>>

\* A deleted or opted-out CR frees the ledger entry.
TickUnmanaged ==
  /\ ~Managed
  /\ view' = FreshView
  /\ hist' = [Idle EXCEPT !.moved = IF view.committed # None THEN 0 ELSE @]
  /\ UNCHANGED <<cr, ds, ready>>

PdTick(obs, physical, roles) == StepPd(view, cr, obs, physical, ds, roles)

\* Skipped, or forgotten until the configuration heals.
PdSkipped(t, obs) == t.skip /\ Enter(t, t.view.committed, "skipped", obs)

\* A read of another service fails later in the tick.
PdAborted(t, obs) == ~t.skip /\ Enter(t, t.view.committed, "aborted", obs)

PdGranted(t, obs) == ~t.skip /\ Enter(t, t.want, "granted", obs)

PdDenied(t, obs) ==
  /\ ~t.skip /\ t.want # t.view.committed
  /\ Enter(t, t.view.committed, "denied", obs)

TickPd ==
  /\ Managed /\ cr.type = "pdengine"
  /\ \E obs \in Observations, physical \in Counts, roles \in {None, ready} :
       LET t == PdTick(obs, physical, roles)
       IN  PdSkipped(t, obs) \/ PdAborted(t, obs) \/ PdGranted(t, obs) \/ PdDenied(t, obs)

TickReplicas ==
  /\ Managed /\ cr.type = "replica"
  /\ \E obs \in Observations, physical \in Counts, spec \in Seeds :
       LET t == StepReplicas(view, cr, obs, physical, spec)
       IN  \/ t.skip /\ Enter(t, t.view.committed, "skipped", obs)
           \/ ~t.skip /\ Enter(t, t.view.committed, "aborted", obs)
           \/ /\ ~t.skip
              /\ \E n \in Bounds(cr).lo .. Clamp(t.want, Bounds(cr)) :
                   Enter(t, [replicas |-> n], "granted", obs)

Next ==
  \/ \E c \in CRs \cup {None} : EditCR(c)
  \/ \E d \in Sets : EditSet(d)
  \/ \E n \in Readies : Disturb(n)
  \/ Pass \/ SetBack
  \/ TickUnmanaged \/ TickPd \/ TickReplicas

Spec == Init /\ [][Next]_vars

(***************************************************************************)
(* Properties.                                                             *)
(***************************************************************************)

\* Whatever moved the ledger (seed, bounds fix, grant, a flip of the CR's type
\* in either direction) restarted the clock and the streak: neither ever
\* claims more than really happened, with the wall clock set back as well.
\* A clock set forward (controller.py:139 reads time.time()) ages both at once;
\* it is not modelled, and neither this nor the two properties that rest on it
\* hold for it.
ClockNeverOverclaims ==
  view.committed # None =>
    /\ view.since <= hist.moved
    /\ view.comfort # None => view.comfort <= hist.uneasy

Ledger == view.committed
Shaped == HasShape(view) /\ HasShape(view)'
PdManaged == Managed /\ cr.type = "pdengine"
PdWindow == Bounds(cr)

\* A shape the CR's window allows: what moves it is the rules, not the bounds.
Settled == Shaped /\ PdManaged /\ Within(Ledger, PdWindow)
Rose(r) == Ledger'[r] > Ledger[r]
Fell(r) == Ledger'[r] < Ledger[r]

\* Neither role gives up an engine before DOWN_COOLDOWN_S without a change of
\* either role and COMFORT_SUSTAIN_S in which no judged tick saw less than
\* comfort, even when the wall clock was set back meanwhile.
PdShedIsEarned ==
  [][ Settled /\ (\E r \in Roles : Fell(r)) =>
        hist.moved >= DownCooldown /\ hist'.uneasy >= ComfortSustain ]_vars

\* Growth of either role that is not the fire alarm's comes at least
\* UP_COOLDOWN_S after the last change of either, the wall clock set back
\* meanwhile or not.
PdGrowthIsSpaced ==
  [][ Settled /\ (\E r \in Roles : Rose(r)) /\ ~hist'.alarm =>
        hist.moved >= UpCooldown ]_vars

\* No role is moved against its own rollout, trimmed and padded proposals
\* included, and no tick grows one role at the other's expense: the clamp
\* must "never reshuffle the sibling role's existing engines".
RolesMoveApart ==
  [][ Settled =>
        /\ \A r \in Roles : /\ Rose(r) => ready[r] <= Ledger[r]
                            /\ Fell(r) => ready[r] >= Ledger[r]
        /\ (\E r \in Roles : Rose(r)) => ~\E r \in Roles : Fell(r) ]_vars

\* Trim, pad and two independent freezes together keep a judged shape inside
\* the CR's window.  The one way out is down, of a pair, while the set's spec
\* is 0p0d: a ledger that has left the window is then compressed to 1p1d, and
\* what it grows to from there may be half frozen.
WindowIsKept ==
  [][ PdManaged /\ hist'.step \in {"aborted", "granted", "denied"} =>
        \/ Within(Ledger', PdWindow)
        \/ /\ Engines(Ledger') <= PdWindow.hi
           /\ Engines(ds.shape) = 0 /\ \A r \in Roles : Ledger'[r] >= 1 ]_vars

\* A pair stays a pair: a role loses its last engine only when the CR's
\* maximum is zero, or when the set itself has none of that role.
PairIsKept ==
  [][ PdManaged /\ Shaped =>
        \A r \in Roles : Ledger[r] >= 1 /\ Ledger'[r] = 0 =>
          PdWindow.hi = 0 \/ ds.shape[r] = 0 ]_vars
============================================================================
