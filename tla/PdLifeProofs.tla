---------------------------- MODULE PdLifeProofs ----------------------------
(***************************************************************************)
(* The safety of one disaggregated service's ledger, for every CR, set,    *)
(* observation, window and cooldown, with a wall clock that is set back.   *)
(* The inductive invariant is TypeOK with ClockNeverOverclaims, and that a *)
(* view without a ledger has no streak.                                    *)
(***************************************************************************)
EXTENDS PdLife, PdViewProofs

IInv ==
  /\ TypeOK
  /\ ClockNeverOverclaims
  /\ view.committed = None => view.comfort = None

LEMMA PdAgesType ==
  /\ AgeCap \in Nat /\ ComfortSustain \in Nat /\ MaxSetBack \in Nat
  /\ UpCooldown \in Nat /\ DownCooldown \in Nat
  /\ 0 \in PdAges(AgeCap) /\ 0 \in PdAges(ComfortSustain) /\ AgeCap \in PdAges(AgeCap)
BY CooldownAssumption, PdLifeAssumption DEF AgeCap, Larger, PdAges

LEMMA HeldView == TypeOK => view \in Held
BY DEF TypeOK, Held, PdAges

LEMMA ManagedWindow ==
  ASSUME TypeOK, Managed
  PROVE  WindowOK(cr) /\ cr.kind = "llm" /\ IsWindow(Bounds(cr))
<1>1. WindowOK(cr) /\ cr.kind = "llm"
  BY PdLifeAssumption DEF TypeOK, Managed, OptedOut, WindowOK
<1> QED BY <1>1, BoundsType DEF IsWindow

LEMMA InitIInv == Init => IInv
<1> SUFFICES ASSUME Init PROVE IInv
  OBVIOUS
<1>1. TypeOK
  BY PdAgesType DEF Init, TypeOK, FreshView
<1> QED BY <1>1 DEF Init, IInv, ClockNeverOverclaims, FreshView

(***************************************************************************)
(* Entering the outcome of a step in the ledger.                           *)
(***************************************************************************)
LEMMA EnterKeeps ==
  ASSUME IInv, NEW t, t.view \in Held, Continues(view, t.view), t.view.committed # None,
         NEW x, x \in Ledgers, None \notin Ledgers,
         NEW obs, NEW step \in {"skipped", "aborted", "granted", "denied"},
         step # "skipped" /\ t.view.comfort # None => AllComfy(cr, obs, LlmVerdicts(cr, obs)),
         Enter(t, x, step, obs)
  PROVE  IInv'
<1> DEFINE w == t.view
           comfy == AllComfy(cr, obs, LlmVerdicts(cr, obs))
<1>1. /\ view \in Held /\ hist.moved \in 0..AgeCap /\ hist.uneasy \in 0..ComfortSustain
      /\ view.since \in PdAges(AgeCap) /\ view.comfort \in PdAges(ComfortSustain) \cup {None}
      /\ None \notin Int
  BY HeldView, RulesAssumption DEF IInv, TypeOK
<1>2. /\ view' \in Held /\ view'.committed = x
      /\ w.committed = x => view' = w
      /\ w.committed # x => view'.since = 0 /\ view'.comfort = None
  BY CommitHeld DEF Enter, Commit
<1>3. /\ hist'.moved = IF x # view.committed THEN 0 ELSE hist.moved
      /\ hist'.uneasy = IF step # "skipped" /\ ~comfy THEN 0 ELSE hist.uneasy
      /\ hist' = [moved |-> hist'.moved, uneasy |-> hist'.uneasy,
                  step |-> step, alarm |-> hist'.alarm]
      /\ hist'.alarm \in BOOLEAN
  BY <1>2 DEF Enter, Remember, FireAlarm, Evidence
<1>4. /\ view'.since \in {view.since, 0}
      /\ x # view.committed => view'.since = 0
      /\ view'.comfort # None => view'.comfort \in {view.comfort, 0} /\ view'.comfort = w.comfort
  BY <1>2 DEF Continues
<1> HIDE DEF w, comfy
<1>5. TypeOK'
  <2>1. view' \in [committed : Ledgers \cup {None}, since : PdAges(AgeCap),
                   comfort : PdAges(ComfortSustain) \cup {None}]
    BY <1>1, <1>2, <1>4, PdAgesType DEF Held
  <2>2. hist' \in [moved : 0..AgeCap, uneasy : 0..ComfortSustain,
                   step : {"other", "skipped", "aborted", "granted", "denied"},
                   alarm : BOOLEAN]
    <3>1. hist'.moved \in 0..AgeCap /\ hist'.uneasy \in 0..ComfortSustain
      BY <1>1, <1>3, PdAgesType
    <3> QED BY <1>3, <3>1
  <2> QED BY <2>1, <2>2 DEF Enter, IInv, TypeOK
<1>6. view'.since <= hist'.moved
  <2>1. view.committed # None => view.since <= hist.moved
    BY DEF IInv, ClockNeverOverclaims
  <2> QED BY <1>1, <1>3, <1>4, <2>1
<1>7. view'.comfort # None => view'.comfort <= hist'.uneasy
  <2>1. view.comfort # None => view.comfort <= hist.uneasy
    BY DEF IInv, ClockNeverOverclaims
  <2> SUFFICES ASSUME view'.comfort # None PROVE view'.comfort <= hist'.uneasy
    OBVIOUS
  <2>2. hist'.uneasy = hist.uneasy
    BY <1>3, <1>4 DEF w, comfy
  <2> QED BY <1>1, <1>4, <2>1, <2>2
<1> QED BY <1>2, <1>5, <1>6, <1>7 DEF IInv, ClockNeverOverclaims

(***************************************************************************)
(* The two branches.                                                       *)
(***************************************************************************)

\* What a tick of the pdengine branch reads, and the outcome of its step.
PdOutcome(obs, physical, roles, t) ==
  /\ t = PdTick(obs, physical, roles)
  /\ ObsOK(obs) /\ roles \in {None, ready}
  /\ \/ Forgotten(t) \/ SkippedOK(view, t) \/ JudgedPdOK(view, cr, obs, ds, roles, t)
  /\ PdSkipped(t, obs) \/ PdAborted(t, obs) \/ PdGranted(t, obs) \/ PdDenied(t, obs)

LEMMA TickPdOutcome ==
  ASSUME IInv, TickPd
  PROVE  \E obs, physical, roles, t : PdOutcome(obs, physical, roles, t)
<1>1. PICK obs \in Observations, physical \in Counts, roles \in {None, ready} :
        LET t == PdTick(obs, physical, roles)
        IN  PdSkipped(t, obs) \/ PdAborted(t, obs) \/ PdGranted(t, obs) \/ PdDenied(t, obs)
  BY DEF TickPd
<1> DEFINE t == PdTick(obs, physical, roles)
<1>2. /\ view \in Held /\ WindowOK(cr) /\ ObsOK(obs) /\ None \notin Ledgers
      /\ ds = None \/ IsSet(ds)
      /\ roles \in Shapes \cup {None}
  BY HeldView, ManagedWindow, PdLifeAssumption DEF TickPd, IInv, TypeOK, ObsOK, IsSet
<1>3. Forgotten(t) \/ SkippedOK(view, t) \/ JudgedPdOK(view, cr, obs, ds, roles, t)
  BY <1>2, StepPdFacts DEF PdTick
<1>4. PdOutcome(obs, physical, roles, t)
  BY <1>1, <1>2, <1>3 DEF PdOutcome
<1> QED BY <1>4

LEMMA TickPdKeeps ==
  ASSUME IInv, TickPd
  PROVE  IInv'
<1>1. PICK obs, physical, roles, t : PdOutcome(obs, physical, roles, t)
  BY TickPdOutcome
<1>2. None \notin Ledgers /\ Shapes \subseteq Ledgers
  BY PdLifeAssumption DEF Ledgers
<1>3. CASE Forgotten(t)
  <2>1. Enter(t, None, "skipped", obs) /\ t.view = FreshView
    BY <1>1, <1>3, FreshHeld DEF PdOutcome, Forgotten, PdSkipped, PdAborted, PdGranted, PdDenied
  <2>2. view' = FreshView
    BY <2>1 DEF Enter, Commit, FreshView
  <2>3. /\ hist.moved \in 0..AgeCap /\ hist.uneasy \in 0..ComfortSustain
        /\ 0 \in 0..AgeCap
    BY PdAgesType DEF IInv, TypeOK
  <2>4. hist' = [moved |-> IF view'.committed # view.committed THEN 0 ELSE hist.moved,
                 uneasy |-> hist.uneasy, step |-> "skipped", alarm |-> FALSE]
    BY <2>1 DEF Enter, Remember
  <2>5. hist' \in [moved : 0..AgeCap, uneasy : 0..ComfortSustain,
                   step : {"other", "skipped", "aborted", "granted", "denied"},
                   alarm : BOOLEAN]
    BY <2>3, <2>4
  <2>6. view' \in [committed : Ledgers \cup {None}, since : PdAges(AgeCap),
                   comfort : PdAges(ComfortSustain) \cup {None}]
    BY <2>2, PdAgesType DEF FreshView
  <2>7. TypeOK'
    BY <2>1, <2>5, <2>6 DEF Enter, IInv, TypeOK
  <2> QED BY <2>2, <2>7, FreshHeld DEF IInv, ClockNeverOverclaims
<1>4. CASE SkippedOK(view, t)
  <2>1. Enter(t, t.view.committed, "skipped", obs)
    BY <1>1, <1>4 DEF PdOutcome, SkippedOK, PdSkipped, PdAborted, PdGranted, PdDenied
  <2>2. t.view \in Held /\ t.view.committed \in Ledgers /\ Continues(view, t.view)
    BY <1>2, <1>4 DEF SkippedOK
  <2> QED BY <1>2, <2>1, <2>2, EnterKeeps
<1>5. CASE JudgedPdOK(view, cr, obs, ds, roles, t)
  <2>1. PICK x \in {t.view.committed, t.want}, step \in {"aborted", "granted", "denied"} :
          Enter(t, x, step, obs)
    BY <1>1, <1>5 DEF PdOutcome, JudgedPdOK, PdSkipped, PdAborted, PdGranted, PdDenied
  <2>2. /\ t.view \in Held /\ t.view.committed \in Ledgers /\ Continues(view, t.view)
        /\ t.want \in Ledgers
        /\ t.view.comfort # None => AllComfy(cr, obs, LlmVerdicts(cr, obs))
    BY <1>2, <1>5 DEF JudgedPdOK, WantOK
  <2> QED BY <1>2, <2>1, <2>2, EnterKeeps
<1> QED BY <1>1, <1>3, <1>4, <1>5 DEF PdOutcome

LEMMA TickReplicasKeeps ==
  ASSUME IInv, TickReplicas
  PROVE  IInv'
<1>1. PICK obs \in Observations, physical \in Counts, spec \in Seeds :
        LET t == StepReplicas(view, cr, obs, physical, spec)
        IN  \/ t.skip /\ Enter(t, t.view.committed, "skipped", obs)
            \/ ~t.skip /\ Enter(t, t.view.committed, "aborted", obs)
            \/ /\ ~t.skip
               /\ \E n \in Bounds(cr).lo .. Clamp(t.want, Bounds(cr)) :
                    Enter(t, [replicas |-> n], "granted", obs)
  BY DEF TickReplicas
<1> DEFINE t == StepReplicas(view, cr, obs, physical, spec)
<1>2. /\ view \in Held /\ WindowOK(cr) /\ None \notin Ledgers /\ spec \in Nat
      /\ cr.kind = "llm" /\ Bounds(cr).lo \in Nat
      /\ view.committed = None => view.comfort = None
  BY HeldView, ManagedWindow, PdLifeAssumption DEF TickReplicas, IInv, IsWindow
<1>3. /\ t.view \in Held /\ t.view.committed \in Ledgers /\ Continues(view, t.view)
      /\ t.view.comfort # None /\ ~t.skip => AllComfy(cr, obs, Verdicts(cr, obs, physical))
  BY <1>2, StepReplicasFacts
<1>4. Verdicts(cr, obs, physical) = LlmVerdicts(cr, obs)
  BY <1>2 DEF Verdicts
<1>5. PICK x \in Ledgers, step \in {"skipped", "aborted", "granted", "denied"} :
        /\ Enter(t, x, step, obs)
        /\ step # "skipped" => ~t.skip
  <2>1. CASE t.skip /\ Enter(t, t.view.committed, "skipped", obs)
    BY <1>3, <2>1
  <2>2. CASE ~t.skip /\ Enter(t, t.view.committed, "aborted", obs)
    BY <1>3, <2>2
  <2>3. ASSUME ~t.skip, NEW n \in Bounds(cr).lo .. Clamp(t.want, Bounds(cr)),
               Enter(t, [replicas |-> n], "granted", obs)
        PROVE  \E x \in Ledgers, step \in {"skipped", "aborted", "granted", "denied"} :
                 /\ Enter(t, x, step, obs)
                 /\ step # "skipped" => ~t.skip
    <3>1. [replicas |-> n] \in Ledgers
      BY <1>2 DEF Ledgers
    <3> QED BY <2>3, <3>1
  <2> QED BY <1>1, <2>1, <2>2, <2>3
<1> HIDE DEF t
<1> QED BY <1>2, <1>3, <1>4, <1>5, EnterKeeps

(***************************************************************************)
(* The invariant.                                                          *)
(***************************************************************************)
LEMMA NextIInv == IInv /\ [Next]_vars => IInv'
<1> SUFFICES ASSUME IInv, [Next]_vars PROVE IInv'
  OBVIOUS
<1>1. /\ hist.moved \in 0..AgeCap /\ hist.uneasy \in 0..ComfortSustain
      /\ view \in [committed : Ledgers \cup {None}, since : PdAges(AgeCap),
                   comfort : PdAges(ComfortSustain) \cup {None}]
      /\ hist \in [moved : 0..AgeCap, uneasy : 0..ComfortSustain,
                   step : {"other", "skipped", "aborted", "granted", "denied"},
                   alarm : BOOLEAN]
      /\ None \notin Int
  BY RulesAssumption DEF IInv, TypeOK
<1>2. ASSUME NEW c \in CRs \cup {None}, EditCR(c) PROVE IInv'
  BY <1>2 DEF EditCR, Idle, IInv, TypeOK, ClockNeverOverclaims
<1>3. ASSUME NEW d \in Sets, EditSet(d) PROVE IInv'
  BY <1>3 DEF EditSet, Idle, IInv, TypeOK, ClockNeverOverclaims
<1>4. ASSUME NEW n \in Readies, Disturb(n) PROVE IInv'
  BY <1>4 DEF Disturb, Idle, IInv, TypeOK, ClockNeverOverclaims
<1>5. CASE Pass
  <2>1. /\ view'.committed = view.committed
        /\ view'.since = Smaller(view.since + 1, AgeCap)
        /\ view'.comfort = IF view.comfort = None THEN None
                           ELSE Smaller(view.comfort + 1, ComfortSustain)
        /\ view' = [committed |-> view'.committed, since |-> view'.since,
                    comfort |-> view'.comfort]
    BY <1>1, <1>5 DEF Pass, Aged
  <2>2. /\ hist'.moved = Smaller(hist.moved + 1, AgeCap)
        /\ hist'.uneasy = Smaller(hist.uneasy + 1, ComfortSustain)
        /\ hist' = [moved |-> hist'.moved, uneasy |-> hist'.uneasy,
                    step |-> "other", alarm |-> FALSE]
    BY <1>1, <1>5 DEF Pass, Idle
  <2>3. /\ view'.since \in PdAges(AgeCap)
        /\ view'.comfort \in PdAges(ComfortSustain) \cup {None}
        /\ hist'.moved \in 0..AgeCap /\ hist'.uneasy \in 0..ComfortSustain
    BY <1>1, <2>1, <2>2, PdAgesType DEF PdAges, Smaller
  <2>4. TypeOK'
    BY <1>1, <1>5, <2>1, <2>2, <2>3 DEF Pass, IInv, TypeOK
  <2>5. ClockNeverOverclaims'
    BY <1>1, <2>1, <2>2, PdAgesType DEF IInv, ClockNeverOverclaims, PdAges, Smaller
  <2> QED BY <2>1, <2>4, <2>5 DEF IInv
<1>6. CASE SetBack
  <2>1. PICK since \in Younger(view.since, AgeCap),
             comfort \in IF view.comfort = None THEN {None}
                         ELSE Younger(view.comfort, ComfortSustain) :
          /\ since >= -MaxSetBack /\ (comfort # None => comfort >= -MaxSetBack)
          /\ view' = [view EXCEPT !.since = since, !.comfort = comfort]
    BY <1>6 DEF SetBack
  <2>2. /\ since \in PdAges(AgeCap) /\ since <= view.since
        /\ view.comfort = None => comfort = None
        /\ view.comfort # None => comfort \in PdAges(ComfortSustain) /\ comfort <= view.comfort
    BY <1>1, <2>1, PdAgesType DEF Younger, PdAges
  <2>3. /\ view'.committed = view.committed /\ view'.since = since /\ view'.comfort = comfort
        /\ view' = [committed |-> view'.committed, since |-> since, comfort |-> comfort]
    BY <1>1, <2>1
  <2>4. /\ hist'.moved = hist.moved /\ hist'.uneasy = hist.uneasy
        /\ hist' = [moved |-> hist.moved, uneasy |-> hist.uneasy,
                    step |-> "other", alarm |-> FALSE]
    BY <1>1, <1>6 DEF SetBack, Idle
  <2>5. TypeOK'
    BY <1>1, <1>6, <2>2, <2>3, <2>4 DEF SetBack, IInv, TypeOK
  <2>6. ClockNeverOverclaims'
    BY <1>1, <2>2, <2>3, <2>4 DEF IInv, ClockNeverOverclaims, PdAges
  <2> QED BY <2>2, <2>3, <2>5, <2>6 DEF IInv
<1>7. CASE TickUnmanaged
  <2>1. /\ view' = FreshView /\ cr' = cr /\ ds' = ds /\ ready' = ready
        /\ hist' = [moved |-> IF view.committed # None THEN 0 ELSE hist.moved,
                    uneasy |-> hist.uneasy, step |-> "other", alarm |-> FALSE]
    BY <1>1, <1>7 DEF TickUnmanaged, Idle
  <2>2. 0 \in 0..AgeCap
    BY PdAgesType
  <2>3. hist' \in [moved : 0..AgeCap, uneasy : 0..ComfortSustain,
                   step : {"other", "skipped", "aborted", "granted", "denied"},
                   alarm : BOOLEAN]
    BY <1>1, <2>1, <2>2
  <2>4. view' \in [committed : Ledgers \cup {None}, since : PdAges(AgeCap),
                   comfort : PdAges(ComfortSustain) \cup {None}]
    BY <2>1, PdAgesType DEF FreshView
  <2>5. TypeOK'
    BY <2>1, <2>3, <2>4 DEF IInv, TypeOK
  <2> QED BY <2>1, <2>5, FreshHeld DEF IInv, ClockNeverOverclaims
<1>8. CASE UNCHANGED vars
  BY <1>8 DEF vars, IInv, TypeOK, ClockNeverOverclaims
<1> QED
  BY <1>2, <1>3, <1>4, <1>5, <1>6, <1>7, <1>8, TickPdKeeps, TickReplicasKeeps DEF Next

\* Whatever the author of the CR, the set and the engines do, and with the
\* wall clock set back, no age in the view is above what really passed
\* (serviceview.py:149-175, :332-333 and :346-350).
THEOREM AgesAreHonest == Spec => []ClockNeverOverclaims
<1>1. IInv => ClockNeverOverclaims
  BY DEF IInv
<1> QED BY <1>1, InitIInv, NextIInv, PTL DEF Spec

\* The view stays a view: no step leaves a shape that is none, a count below
\* zero or an age outside what the clock allows.
THEOREM PdLifeTyped == Spec => []TypeOK
<1>1. IInv => TypeOK
  BY DEF IInv
<1> QED BY <1>1, InitIInv, NextIInv, PTL DEF Spec

(***************************************************************************)
(* What a step may do to the shape of a managed CR.                        *)
(***************************************************************************)
JudgedSteps == {"aborted", "granted", "denied"}

\* A judged tick of the pdengine branch, and what it leaves.
Judging(obs, roles, t) ==
  /\ JudgedPdOK(view, cr, obs, ds, roles, t) /\ roles \in {None, ready}
  /\ view'.committed \in {t.view.committed, t.want}
  /\ hist'.alarm = FireAlarm(obs.rejection, obs.rejections)
  /\ hist'.uneasy = IF AllComfy(cr, obs, LlmVerdicts(cr, obs)) THEN hist.uneasy ELSE 0

\* A step that judged nothing leaves a shape alone or forgets it.
Unjudged ==
  /\ hist'.step \notin JudgedSteps
  /\ HasShape(view) => view'.committed = view.committed \/ view'.committed = None

LEMMA TickPdMoves ==
  ASSUME IInv, TickPd
  PROVE  Unjudged \/ \E obs, roles, t : Judging(obs, roles, t)
<1>1. PICK obs, physical, roles, t : PdOutcome(obs, physical, roles, t)
  BY TickPdOutcome
<1>2. None \notin Ledgers /\ Shapes \subseteq Ledgers /\ view \in Held
  BY HeldView, PdLifeAssumption DEF Ledgers, IInv
<1>3. CASE Forgotten(t)
  <2>1. Enter(t, None, "skipped", obs) /\ t.view = FreshView
    BY <1>1, <1>3, FreshHeld DEF PdOutcome, Forgotten, PdSkipped, PdAborted, PdGranted, PdDenied
  <2> QED BY <2>1 DEF Enter, Commit, Remember, FreshView, Unjudged, JudgedSteps
<1>4. CASE SkippedOK(view, t)
  <2>1. Enter(t, t.view.committed, "skipped", obs)
    BY <1>1, <1>4 DEF PdOutcome, SkippedOK, PdSkipped, PdAborted, PdGranted, PdDenied
  <2>2. view' = t.view /\ hist'.step = "skipped"
    BY <2>1 DEF Enter, Commit, Remember
  <2> QED BY <1>4, <2>2 DEF SkippedOK, Unjudged, JudgedSteps
<1>5. CASE JudgedPdOK(view, cr, obs, ds, roles, t)
  <2>1. PICK x \in {t.view.committed, t.want}, step \in JudgedSteps : Enter(t, x, step, obs)
    BY <1>1, <1>5
    DEF PdOutcome, JudgedPdOK, PdSkipped, PdAborted, PdGranted, PdDenied, JudgedSteps
  <2>2. view'.committed = x
    BY <2>1 DEF Enter, Commit
  <2>3. step # "skipped"
    BY DEF JudgedSteps
  <2>4. /\ hist'.alarm = FireAlarm(obs.rejection, obs.rejections)
        /\ hist'.uneasy = IF AllComfy(cr, obs, LlmVerdicts(cr, obs)) THEN hist.uneasy ELSE 0
    <3> DEFINE comfy == AllComfy(cr, obs, LlmVerdicts(cr, obs))
               alarm == FireAlarm(obs.rejection, obs.rejections)
    <3>1. alarm \in BOOLEAN
      BY DEF FireAlarm, Evidence
    <3>2. hist' = [moved |-> IF view'.committed # view.committed THEN 0 ELSE hist.moved,
                   uneasy |-> IF (step # "skipped") /\ ~comfy THEN 0 ELSE hist.uneasy,
                   step |-> step, alarm |-> (step # "skipped") /\ alarm]
      BY <2>1 DEF Enter, Remember
    <3> HIDE DEF comfy, alarm
    <3> QED BY <2>3, <3>1, <3>2 DEF comfy, alarm
  <2>5. Judging(obs, roles, t)
    BY <1>1, <1>5, <2>2, <2>4 DEF Judging, PdOutcome
  <2> QED BY <2>5
<1> QED BY <1>1, <1>3, <1>4, <1>5 DEF PdOutcome

LEMMA PdMoves ==
  ASSUME IInv, Next, PdManaged
  PROVE  Unjudged \/ \E obs, roles, t : Judging(obs, roles, t)
<1>1. /\ hist \in [moved : 0..AgeCap, uneasy : 0..ComfortSustain,
                   step : {"other", "skipped", "aborted", "granted", "denied"},
                   alarm : BOOLEAN]
      /\ view \in Held
  BY HeldView DEF IInv, TypeOK
<1>2. CASE \E c \in CRs \cup {None} : EditCR(c)
  BY <1>1, <1>2 DEF EditCR, Idle, Unjudged, JudgedSteps
<1>3. CASE \E d \in Sets : EditSet(d)
  BY <1>1, <1>3 DEF EditSet, Idle, Unjudged, JudgedSteps
<1>4. CASE \E n \in Readies : Disturb(n)
  BY <1>1, <1>4 DEF Disturb, Idle, Unjudged, JudgedSteps
<1>5. CASE Pass
  BY <1>1, <1>5 DEF Pass, Aged, Idle, Unjudged, JudgedSteps, Held
<1>6. CASE SetBack
  BY <1>1, <1>6 DEF SetBack, Idle, Unjudged, JudgedSteps, Held
<1>7. CASE TickUnmanaged
  BY <1>7 DEF TickUnmanaged, PdManaged
<1>8. CASE TickReplicas
  BY <1>8 DEF TickReplicas, PdManaged
<1> QED BY <1>2, <1>3, <1>4, <1>5, <1>6, <1>7, <1>8, TickPdMoves DEF Next

\* Neither a shape nor a number: the ledgers of the two branches differ.
LEMMA ShapeHeld ==
  ASSUME IInv, PdManaged
  PROVE  /\ HasShape(view) => view.committed \in Shapes
         /\ \A s \in Shapes : s # None /\ \A r \in Roles : s[r] \in Nat
         /\ IsWindow(PdWindow)
<1>1. HasShape(view) => view.committed \in Shapes
  BY HeldView DEF IInv, HasShape, Held, Ledgers
<1>2. None \notin Shapes
  BY PdLifeAssumption DEF Ledgers
<1>3. IsWindow(PdWindow)
  BY ManagedWindow DEF IInv, PdManaged, PdWindow
<1> QED BY <1>1, <1>2, <1>3 DEF Shapes, Roles

\* A step of a settled ledger that moves it is a judged one, from the ledger as
\* it stood, and every role it moves was frozen or gated as WantOK says.
LEMMA SettledMoves ==
  ASSUME IInv, Next, Settled
  PROVE  \/ Ledger' = Ledger
         \/ \E obs, roles, t :
              /\ Judging(obs, roles, t) /\ t.view.committed = Ledger /\ Ledger' = t.want
<1>1. /\ PdManaged /\ HasShape(view) /\ HasShape(view)' /\ Within(Ledger, PdWindow)
      /\ Ledger' # None
  BY DEF Settled, Shaped, HasShape, Ledger
<1>2. CASE Unjudged
  BY <1>1, <1>2 DEF Unjudged, Ledger
<1>3. ASSUME NEW obs, NEW roles, NEW t, Judging(obs, roles, t)
      PROVE  t.view.committed = Ledger /\ Ledger' \in {Ledger, t.want}
  BY <1>1, <1>3 DEF Judging, JudgedPdOK, Ledger, PdWindow
<1> QED BY <1>1, <1>2, <1>3, PdMoves

\* What the gates of a judged view say of the history.
LEMMA GatesEarned ==
  ASSUME IInv, NEW obs, NEW roles, NEW t, Judging(obs, roles, t), t.view.committed = Ledger,
         Ledger # None
  PROVE  /\ GatesOf(t.view).up => hist.moved >= UpCooldown
         /\ GatesOf(t.view).shed => hist.moved >= DownCooldown /\ hist'.uneasy >= ComfortSustain
<1>1. /\ t.view \in Held /\ Continues(view, t.view)
      /\ t.view.comfort # None => hist'.uneasy = hist.uneasy
  BY DEF Judging, JudgedPdOK
<1>2. /\ view.since <= hist.moved
      /\ view.comfort # None => view.comfort <= hist.uneasy
      /\ view.since \in Int /\ view.comfort \in Int \cup {None} /\ None \notin Int
      /\ hist.moved \in Nat /\ hist.uneasy \in Nat
  BY HeldView, RulesAssumption, PdAgesType
  DEF IInv, ClockNeverOverclaims, Ledger, Held, TypeOK
<1>3. t.view.since <= hist.moved /\ t.view.since \in Int
  BY <1>1, <1>2 DEF Continues
<1>4. t.view.comfort # None => t.view.comfort <= hist'.uneasy /\ t.view.comfort \in Int
                              /\ hist'.uneasy \in Nat
  <2>1. view.comfort = None => t.view.comfort \in {None, 0}
    BY <1>1 DEF Continues
  <2>2. view.comfort # None /\ t.view.comfort # None => t.view.comfort \in {view.comfort, 0}
    BY <1>1 DEF Continues
  <2> QED BY <1>1, <1>2, <2>1, <2>2
<1>5. /\ GatesOf(t.view).up => t.view.since >= UpCooldown
      /\ GatesOf(t.view).shed => /\ t.view.since >= DownCooldown
                                 /\ t.view.comfort # None /\ t.view.comfort >= ComfortSustain
  BY DEF GatesOf
<1>6. UpCooldown \in Nat /\ DownCooldown \in Nat /\ ComfortSustain \in Nat
  BY CooldownAssumption
<1> QED BY <1>2, <1>3, <1>4, <1>5, <1>6

(***************************************************************************)
(* The properties of the steps.                                            *)
(***************************************************************************)

\* No role of a settled ledger moves against its own rollout, and no tick
\* grows one role while it shrinks the other (pd.py:42-96,
\* serviceview.py:412-444 and direction.py:71-85).
THEOREM RolesApart == Spec => RolesMoveApart
<1> DEFINE P == Settled =>
      /\ \A r \in Roles : /\ Rose(r) => ready[r] <= Ledger[r]
                          /\ Fell(r) => ready[r] >= Ledger[r]
      /\ (\E r \in Roles : Rose(r)) => ~\E r \in Roles : Fell(r)
<1>1. IInv /\ [Next]_vars => [P]_vars
  <2> SUFFICES ASSUME IInv, Next, Settled
               PROVE  /\ \A r \in Roles : /\ Rose(r) => ready[r] <= Ledger[r]
                                          /\ Fell(r) => ready[r] >= Ledger[r]
                      /\ (\E r \in Roles : Rose(r)) => ~\E r \in Roles : Fell(r)
    OBVIOUS
  <2>1. /\ Ledger \in Shapes /\ \A r \in Roles : Ledger[r] \in Nat
        /\ \A s \in Shapes : \A r \in Roles : s[r] \in Nat
    BY ShapeHeld DEF Settled, Shaped, Ledger
  <2>2. CASE Ledger' = Ledger
    BY <2>1, <2>2 DEF Rose, Fell
  <2>3. ASSUME NEW obs, NEW roles, NEW t, Judging(obs, roles, t),
               t.view.committed = Ledger, Ledger' = t.want
        PROVE  /\ \A r \in Roles : /\ Rose(r) => ready[r] <= Ledger[r]
                                   /\ Fell(r) => ready[r] >= Ledger[r]
               /\ (\E r \in Roles : Rose(r)) => ~\E r \in Roles : Fell(r)
    <3>1. /\ Ledger' \in Shapes
          /\ Below(Ledger, Ledger') \/ Below(Ledger', Ledger)
          /\ \A r \in Roles : /\ Ledger'[r] > Ledger[r] => roles # None /\ roles[r] <= Ledger[r]
                              /\ Ledger'[r] < Ledger[r] => roles # None /\ roles[r] >= Ledger[r]
          /\ roles \in {None, ready}
      BY <2>3 DEF Judging, JudgedPdOK, WantOK
    <3>2. /\ Ledger.prefill \in Nat /\ Ledger.decode \in Nat
          /\ Ledger'.prefill \in Nat /\ Ledger'.decode \in Nat
      BY <2>1, <3>1 DEF Roles
    <3> QED BY <2>1, <3>1, <3>2 DEF Rose, Fell, Below, Roles
  <2> QED BY <2>2, <2>3, SettledMoves
<1> QED BY <1>1, InitIInv, NextIInv, PTL DEF Spec, RolesMoveApart

\* Neither role gives up an engine before its cooldown and the streak of
\* comfort have really passed (serviceview.py:346-360).
THEOREM PdShedsAreEarned == Spec => PdShedIsEarned
<1> DEFINE P == Settled /\ (\E r \in Roles : Fell(r)) =>
                  hist.moved >= DownCooldown /\ hist'.uneasy >= ComfortSustain
<1>1. IInv /\ [Next]_vars => [P]_vars
  <2> SUFFICES ASSUME IInv, Next, Settled, NEW r \in Roles, Fell(r)
               PROVE  hist.moved >= DownCooldown /\ hist'.uneasy >= ComfortSustain
    OBVIOUS
  <2>1. Ledger \in Shapes /\ Ledger[r] \in Nat /\ Ledger # None
    BY ShapeHeld DEF Settled, Shaped, Ledger
  <2>2. PICK obs, roles, t : Judging(obs, roles, t) /\ t.view.committed = Ledger
                             /\ Ledger' = t.want
    BY <2>1, SettledMoves DEF Fell
  <2>3. GatesOf(t.view).shed
    BY <2>2 DEF Judging, JudgedPdOK, WantOK, Fell
  <2> QED BY <2>1, <2>2, <2>3, GatesEarned
<1> QED BY <1>1, InitIInv, NextIInv, PTL DEF Spec, PdShedIsEarned

\* Growth of a settled ledger without a fire alarm waits UP_COOLDOWN_S from
\* the last change of either role (serviceview.py:352-360).
THEOREM PdGrowthSpaced == Spec => PdGrowthIsSpaced
<1> DEFINE P == Settled /\ (\E r \in Roles : Rose(r)) /\ ~hist'.alarm =>
                  hist.moved >= UpCooldown
<1>1. IInv /\ [Next]_vars => [P]_vars
  <2> SUFFICES ASSUME IInv, Next, Settled, NEW r \in Roles, Rose(r), ~hist'.alarm
               PROVE  hist.moved >= UpCooldown
    OBVIOUS
  <2>1. Ledger \in Shapes /\ Ledger[r] \in Nat /\ Ledger # None
    BY ShapeHeld DEF Settled, Shaped, Ledger
  <2>2. PICK obs, roles, t : Judging(obs, roles, t) /\ t.view.committed = Ledger
                             /\ Ledger' = t.want
    BY <2>1, SettledMoves DEF Rose
  <2>3. GatesOf(t.view).up
    BY <2>2 DEF Judging, JudgedPdOK, WantOK, Rose
  <2> QED BY <2>1, <2>2, <2>3, GatesEarned
<1> QED BY <1>1, InitIInv, NextIInv, PTL DEF Spec, PdGrowthIsSpaced

\* A judged shape leaves the window only downwards, as a pair, and only while
\* the set's spec is 0p0d (serviceview.py:295-333 and :412-444).
THEOREM WindowKept == Spec => WindowIsKept
<1> DEFINE P == PdManaged /\ hist'.step \in {"aborted", "granted", "denied"} =>
                  \/ Within(Ledger', PdWindow)
                  \/ /\ Engines(Ledger') <= PdWindow.hi
                     /\ Engines(ds.shape) = 0 /\ \A r \in Roles : Ledger'[r] >= 1
<1>1. IInv /\ [Next]_vars => [P]_vars
  <2> SUFFICES ASSUME IInv, Next, PdManaged, hist'.step \in JudgedSteps
               PROVE  \/ Within(Ledger', PdWindow)
                      \/ /\ Engines(Ledger') <= PdWindow.hi
                         /\ Engines(ds.shape) = 0 /\ \A r \in Roles : Ledger'[r] >= 1
    BY DEF JudgedSteps
  <2>1. PICK obs, roles, t : Judging(obs, roles, t)
    BY PdMoves DEF Unjudged
  <2> DEFINE c == t.view.committed
             w == Ledger'
  <2>2. /\ c \in Shapes /\ w \in Shapes
        /\ Engines(c) <= PdWindow.hi /\ Engines(w) <= PdWindow.hi
        /\ Engines(c) >= PdWindow.lo => Engines(w) >= PdWindow.lo
        /\ \A r \in Roles : c[r] >= 1 => w[r] >= 1
        /\ Engines(c) >= PdWindow.lo \/ (Engines(ds.shape) = 0 /\ c = Shape(1, 1))
    <3>1. w \in {c, t.want}
      BY <2>1 DEF Judging, Ledger
    <3> HIDE DEF w, c
    <3>2. /\ c \in Shapes /\ t.want \in Shapes
          /\ Engines(c) <= PdWindow.hi /\ Engines(t.want) <= PdWindow.hi
          /\ Engines(c) >= PdWindow.lo => Engines(t.want) >= PdWindow.lo
          /\ \A r \in Roles : c[r] >= 1 => t.want[r] >= 1
          /\ Engines(c) >= PdWindow.lo \/ (Engines(ds.shape) = 0 /\ c = Shape(1, 1))
      BY <2>1 DEF Judging, JudgedPdOK, WantOK, PdWindow, c
    <3> QED BY <3>1, <3>2
  <2> HIDE DEF c, w
  <2>3. CASE Engines(c) >= PdWindow.lo
    BY <2>2, <2>3 DEF Within, w
  <2>4. CASE Engines(ds.shape) = 0 /\ c = Shape(1, 1)
    <3>1. \A r \in Roles : c[r] = 1
      BY <2>4 DEF Shape, Roles
    <3> QED BY <2>2, <2>4, <3>1 DEF w
  <2> QED BY <2>2, <2>3, <2>4
<1> QED BY <1>1, InitIInv, NextIInv, PTL DEF Spec, WindowIsKept

\* A pair stays a pair unless the maximum is zero or the set itself has lost
\* the role (pd.py:121-187 and :225-250).
THEOREM PairsAreKept == Spec => PairIsKept
<1> DEFINE P == PdManaged /\ Shaped =>
                  \A r \in Roles : Ledger[r] >= 1 /\ Ledger'[r] = 0 =>
                    PdWindow.hi = 0 \/ ds.shape[r] = 0
<1>1. IInv /\ [Next]_vars => [P]_vars
  <2> SUFFICES ASSUME IInv, Next, PdManaged, Shaped, NEW r \in Roles,
                      Ledger[r] >= 1, Ledger'[r] = 0
               PROVE  PdWindow.hi = 0 \/ ds.shape[r] = 0
    OBVIOUS
  <2>1. Ledger \in Shapes /\ Ledger[r] \in Nat /\ Ledger' # Ledger
    BY ShapeHeld DEF Shaped, Ledger
  <2>2. PICK obs, roles, t : Judging(obs, roles, t)
    BY <2>1, PdMoves DEF Unjudged, Shaped, HasShape, Ledger
  <2> DEFINE c == t.view.committed
  <2>3. /\ c \in Shapes /\ Ledger' \in {c, t.want}
        /\ c[r] >= 1 => t.want[r] >= 1
        /\ c = Ledger \/ (c[r] = 0 => PdWindow.hi = 0 \/ ds.shape[r] = 0)
    BY <2>2 DEF Judging, JudgedPdOK, WantOK, PdWindow, Ledger, Shaped
  <2>4. c[r] \in Nat
    BY <2>3, ShapeHeld
  <2> HIDE DEF c
  <2>5. c[r] = 0
    BY <2>3, <2>4
  <2> QED BY <2>3, <2>5
<1> QED BY <1>1, InitIInv, NextIInv, PTL DEF Spec, PairIsKept
=============================================================================
