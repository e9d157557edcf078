------------------------- MODULE ServiceLifeProofs -------------------------
(***************************************************************************)
(* The safety of one service's ledger, for every CR, every observation,    *)
(* every cooldown and every setting of the rules.  The inductive invariant *)
(* is TypeOK with ClockIsHonest: the gates of a tick look at the ages in   *)
(* the view, and the properties speak of what happened.                    *)
(***************************************************************************)
EXTENDS ServiceLife, ServiceViewProofs

IInv == TypeOK /\ ClockIsHonest

LEMMA AgesType ==
  /\ AgeCap \in Nat /\ ComfortSustain \in Nat
  /\ UpCooldown \in Nat /\ DownCooldown \in Nat
  /\ UpCooldown <= AgeCap /\ DownCooldown <= AgeCap
BY CooldownAssumption DEF AgeCap, Larger

\* A managed CR has the window the lemmas on views ask for.
LEMMA ManagedWindow ==
  ASSUME TypeOK, Managed
  PROVE  /\ WindowOK(cr) /\ cr.kind \in {"llm", "job"}
         /\ Bounds(cr).lo \in Nat /\ Bounds(cr).hi \in Nat
         /\ Bounds(cr).lo <= Bounds(cr).hi
<1>1. WindowOK(cr) /\ cr.kind \in {"llm", "job"}
  BY LifeAssumption, RulesAssumption DEF TypeOK, Managed, OptedOut, WindowOK
<1> QED BY <1>1, BoundsType

\* The seed lands in the window and starts the clock; a seeded view stays.
LEMMA SeedFacts ==
  ASSUME TypeOK, Managed, NEW spec \in SpecReplicas
  PROVE  LET v == EnsureSeeded(view, Bounds(cr), spec)
         IN  /\ v \in View /\ v.committed \in Nat
             /\ view.committed # None => v = view
             /\ view.committed = None => v.since = 0 /\ v.comfort = None
<1>1. spec \in Int
  BY LifeAssumption DEF SpecReplicas
<1>2. Clamp(spec, Bounds(cr)) \in Nat
  BY <1>1, ManagedWindow, ClampFacts
<1>3. 0 \in 0..AgeCap /\ None \notin Nat
  BY AgesType, RulesAssumption
<1> QED BY <1>2, <1>3 DEF EnsureSeeded, Commit, View, TypeOK

(***************************************************************************)
(* What a judged tick does.                                                *)
(***************************************************************************)

\* Growth goes to the floor, or as far as the evidence reaches on a fleet that
\* is not draining, after the cooldown or under the alarm.
GrowthOK ==
  view.committed # None /\ view'.committed > view.committed =>
    \/ view'.committed = Bounds(cr).lo
    \/ /\ ready <= view.committed
       /\ view'.committed <= Reach(ready)
       /\ hist'.alarm \/ hist.moved >= UpCooldown

\* A shed that is no preemption follows a lowered maximum, or it was earned on
\* a fleet that is not ramping.
ShedOK ==
  /\ hist'.step = "granted"
  /\ view.committed # None
  /\ view'.committed < view.committed
  => \/ view.committed > Bounds(cr).hi
     \/ /\ ready >= view.committed
        /\ hist.moved >= DownCooldown
        /\ hist'.uneasy >= ComfortSustain

LEMMA JudgedTick ==
  ASSUME IInv, Managed,
         NEW obs \in Observations, NEW spec \in SpecReplicas, TickJudged(obs, spec)
  PROVE  IInv' /\ GrowthOK /\ ShedOK
<1> DEFINE seeded == EnsureSeeded(view, Bounds(cr), spec)
           b == Bounds(cr)
           j == Judged(seeded, cr, obs, ready)
           c == j.view.committed
           comfy == AllComfy(cr, obs, Verdicts(cr, obs, ready))
           g == GatesOf(j.view)
           top == Clamp(j.want, b)
           baseline == Baseline(c, j.want, b)
<1>1. /\ seeded \in View /\ seeded.committed \in Nat
      /\ view.committed # None => seeded = view
      /\ view.committed = None => seeded.since = 0 /\ seeded.comfort = None
  BY SeedFacts DEF IInv
<1> HIDE DEF seeded
<1>2. WindowOK(cr) /\ cr.kind \in {"llm", "job"} /\ b.lo \in Nat /\ b.hi \in Nat /\ b.lo <= b.hi
  BY ManagedWindow DEF IInv
<1>3. ObsOK(obs) /\ ready \in Nat /\ None \notin Nat
  BY LifeAssumption, RulesAssumption DEF ObsOK, IInv, TypeOK
<1>4. /\ j.view \in View /\ c \in Nat /\ j.want \in Int
      /\ c = Smaller(seeded.committed, b.hi)
      /\ c = seeded.committed => j.view.since = seeded.since
      /\ c # seeded.committed => j.view.since = 0
      /\ j.view.comfort # None =>
           comfy /\ (j.view.comfort = 0 \/ (c = seeded.committed /\ j.view.comfort = seeded.comfort))
      /\ j.want > c =>
           /\ ready <= c
           /\ j.want = b.lo \/ (j.want <= Reach(ready) /\ (OnFire(cr, obs) \/ g.up))
      /\ j.want < c => ready >= c /\ g.shed
  <2>1. JudgedOK(seeded, cr, obs, ready, j)
    BY <1>1, <1>2, <1>3, JudgedFacts
  <2> QED BY <2>1 DEF JudgedOK
<1>5. /\ top \in b.lo .. b.hi
      /\ j.want \in b.lo .. b.hi => top = j.want
      /\ j.want > b.hi => top = b.hi
      /\ j.want < b.lo => top = b.lo
  BY <1>2, <1>4, ClampFacts
<1>6. PICK n \in b.lo .. top :
        /\ view' = Commit(j.view, n)
        /\ Remember(IF n < baseline THEN "preempted" ELSE "granted", obs)
  <2>1. Step(view, cr, obs, ready, spec) = j
    BY DEF TickJudged, Step, seeded
  <2> QED BY <2>1 DEF TickJudged
<1>7. n \in Nat /\ n <= b.hi /\ n <= top /\ n >= b.lo /\ baseline \in Int
  <2>1. top \in Int
    BY <1>2, <1>5
  <2> HIDE DEF c, j, top
  <2> QED BY <1>2, <1>4, <1>5, <2>1 DEF Baseline, Larger, Smaller, top
<1>8. /\ view'.committed = n
      /\ n = c => view' = j.view
      /\ n # c => view'.since = 0 /\ view'.comfort = None
      /\ view' \in View
  <2>1. 0 \in 0..AgeCap
    BY AgesType
  <2> QED BY <1>4, <1>6, <1>7, <2>1 DEF Commit, View
<1>9. /\ hist' \in History
      /\ hist'.moved = IF n # view.committed THEN 0 ELSE hist.moved
      /\ hist'.uneasy = IF ~comfy THEN 0 ELSE hist.uneasy
      /\ hist'.step = IF n < baseline THEN "preempted" ELSE "granted"
      /\ hist'.alarm = Alarm(obs)
  <2>1. 0 \in 0..AgeCap /\ 0 \in 0..ComfortSustain
    BY AgesType
  <2>2. hist \in History
    BY DEF IInv, TypeOK
  <2> QED BY <1>6, <1>8, <2>1, <2>2 DEF Remember, History, Alarm
<1>10. cr' = cr /\ ready' = ready
  BY DEF TickJudged
<1> HIDE DEF j, b, c, comfy, g, top, baseline
<1>11. TypeOK'
  BY <1>8, <1>9, <1>10 DEF IInv, TypeOK
<1>12. ClockIsHonest'
  <2>1. view'.since = hist'.moved
    <3>1. CASE n # view.committed
      BY <1>1, <1>4, <1>8, <1>9, <3>1
    <3>2. CASE n = view.committed
      <4>1. seeded = view /\ view.since = hist.moved
        BY <1>1, <1>3, <1>7, <3>2 DEF IInv, ClockIsHonest
      <4>2. c = n
        BY <1>2, <1>4, <1>7, <3>2, <4>1 DEF Smaller
      <4> QED BY <1>4, <1>8, <1>9, <3>2, <4>1, <4>2
    <3> QED BY <3>1, <3>2
  <2>2. ASSUME view'.comfort # None
        PROVE  view'.comfort <= hist'.uneasy
    <3>1. n = c /\ view'.comfort = j.view.comfort /\ comfy
      BY <1>4, <1>8, <2>2
    <3>2. hist'.uneasy = hist.uneasy /\ hist.uneasy \in Nat
      BY <1>9, <3>1, AgesType DEF IInv, TypeOK, History
    <3>3. CASE view'.comfort = 0
      BY <3>2, <3>3
    <3>4. CASE view'.comfort # 0
      <4>1. view'.comfort = seeded.comfort
        BY <1>4, <2>2, <3>1, <3>4
      <4>2. seeded = view /\ view.committed # None
        BY <1>1, <2>2, <4>1
      <4> QED BY <2>2, <3>2, <4>1, <4>2 DEF IInv, ClockIsHonest
    <3> QED BY <3>3, <3>4
  <2> QED BY <2>1, <2>2 DEF ClockIsHonest
<1>13. GrowthOK
  <2> SUFFICES ASSUME view.committed # None, n > view.committed, n # b.lo
               PROVE  /\ ready <= view.committed /\ n <= Reach(ready)
                      /\ hist'.alarm \/ hist.moved >= UpCooldown
    BY <1>8 DEF GrowthOK, b
  <2>1. view.committed \in Nat /\ seeded = view
    BY <1>1
  <2>2. c = view.committed
    BY <1>2, <1>4, <1>7, <2>1 DEF Smaller
  <2>3. j.want > c /\ n <= j.want /\ j.want # b.lo
    BY <1>2, <1>4, <1>5, <1>7, <2>1, <2>2
  <2>4. OnFire(cr, obs) => hist'.alarm
    BY <1>2, <1>9 DEF OnFire, Alarm
  <2>5. g.up => hist.moved >= UpCooldown
    BY <1>4, <2>1, <2>2 DEF g, GatesOf, IInv, ClockIsHonest
  <2>6. Reach(ready) \in Int
    BY <1>3, ReachType
  <2> QED BY <1>4, <1>7, <2>1, <2>2, <2>3, <2>4, <2>5, <2>6
<1>14. ShedOK
  <2> SUFFICES ASSUME n >= baseline, view.committed # None,
                      n < view.committed, view.committed <= b.hi
               PROVE  /\ ready >= view.committed /\ hist.moved >= DownCooldown
                      /\ hist'.uneasy >= ComfortSustain
    BY <1>2, <1>4, <1>7, <1>8, <1>9 DEF ShedOK, b, IInv, TypeOK, View
  <2>1. view.committed \in Nat /\ seeded = view
    BY <1>1
  <2>2. c = view.committed
    BY <1>2, <1>4, <2>1 DEF Smaller
  <2>3. j.want < c
    BY <1>2, <1>4, <1>5, <1>7, <2>1, <2>2 DEF baseline, Baseline, top, Larger, Smaller
  <2>4. ready >= c /\ g.shed
    BY <1>4, <2>3
  <2>5. hist.moved >= DownCooldown /\ hist'.uneasy >= ComfortSustain
    BY <1>4, <1>9, <2>1, <2>2, <2>4, AgesType
    DEF g, GatesOf, IInv, TypeOK, View, History, ClockIsHonest
  <2> QED BY <2>2, <2>4, <2>5
<1> QED BY <1>11, <1>12, <1>13, <1>14 DEF IInv

(***************************************************************************)
(* The other actions.                                                      *)
(***************************************************************************)
LEMMA AgeingStays ==
  ASSUME NEW cap \in Nat, NEW age \in 0..cap
  PROVE  Smaller(age + 1, cap) \in 0..cap
BY DEF Smaller

LEMMA ConvergeStep ==
  ASSUME IInv, Converge
  PROVE  IInv'
<1>1. /\ view.committed \in Nat /\ ready \in 0..MaxReady /\ MaxReady \in Nat
      /\ ready # view.committed
  BY LifeAssumption DEF Converge, IInv, TypeOK, View
<1>2. ready' \in 0..MaxReady
  BY <1>1 DEF Converge
<1> QED BY <1>2 DEF Converge, IInv, TypeOK, ClockIsHonest, Idle, History

\* Time ages the view and the history alike.
LEMMA PassStep ==
  ASSUME IInv, Pass
  PROVE  IInv'
<1>1. /\ view.since \in 0..AgeCap /\ view.comfort \in 0..ComfortSustain \cup {None}
      /\ view.committed \in Nat \cup {None} /\ view \in View
  BY DEF IInv, TypeOK, View
<1>2. /\ hist.moved \in 0..AgeCap /\ hist.uneasy \in 0..ComfortSustain
      /\ hist \in History
  BY DEF IInv, TypeOK, History
<1>3. /\ view'.since = Smaller(view.since + 1, AgeCap)
      /\ view'.committed = view.committed
      /\ view'.comfort = IF view.comfort = None THEN None
                         ELSE Smaller(view.comfort + 1, ComfortSustain)
  BY <1>1 DEF Pass, Aged, View
<1>4. view' \in View
  <2>1. /\ Smaller(view.since + 1, AgeCap) \in 0..AgeCap
        /\ view.comfort # None => Smaller(view.comfort + 1, ComfortSustain) \in 0..ComfortSustain
    BY <1>1, AgesType, AgeingStays
  <2> QED BY <1>1, <2>1 DEF Pass, Aged, View
<1>5. /\ hist'.moved = Smaller(hist.moved + 1, AgeCap)
      /\ hist'.uneasy = Smaller(hist.uneasy + 1, ComfortSustain)
  BY <1>2 DEF Pass, Idle, History
<1>6. hist' \in History
  <2>1. /\ Smaller(hist.moved + 1, AgeCap) \in 0..AgeCap
        /\ Smaller(hist.uneasy + 1, ComfortSustain) \in 0..ComfortSustain
    BY <1>2, AgesType, AgeingStays
  <2> QED BY <1>2, <2>1 DEF Pass, Idle, History
<1>7. TypeOK'
  BY <1>4, <1>6 DEF Pass, IInv, TypeOK
<1>8. ClockIsHonest'
  BY <1>1, <1>2, <1>3, <1>5, AgesType, RulesAssumption DEF IInv, ClockIsHonest, Smaller
<1> QED BY <1>7, <1>8 DEF IInv

LEMMA UnmanagedStep ==
  ASSUME IInv, TickUnmanaged
  PROVE  IInv'
<1>1. FreshView \in View /\ 0 \in 0..AgeCap
  BY AgesType DEF FreshView, View
<1> QED BY <1>1 DEF IInv, TypeOK, ClockIsHonest, TickUnmanaged, Idle, History, FreshView

\* A skipped tick leaves at most the seed behind.
LEMMA SkippedStep ==
  ASSUME IInv, Managed, NEW obs \in Observations, NEW spec \in SpecReplicas,
         NEW physical \in {None, ready}, TickSkipped(obs, physical, spec)
  PROVE  IInv'
<1> DEFINE seeded == EnsureSeeded(view, Bounds(cr), spec)
<1>1. /\ seeded \in View /\ seeded.committed \in Nat
      /\ view.committed # None => seeded = view
      /\ view.committed = None => seeded.since = 0 /\ seeded.comfort = None
  BY SeedFacts DEF IInv
<1>2. view' = seeded
  <2>1. NoEvidence(physical)
    <3> SUFFICES ASSUME ~NoEvidence(physical) PROVE FALSE
      OBVIOUS
    <3>1. Step(view, cr, obs, physical, spec).skip = FALSE
      BY DEF Step, Judged
    <3> QED BY <3>1 DEF TickSkipped
  <2> QED BY <2>1 DEF TickSkipped, Step
<1>3. /\ hist'.moved = IF view'.committed # view.committed THEN 0 ELSE hist.moved
      /\ hist'.uneasy = hist.uneasy
      /\ hist' \in History
  <2>1. 0 \in 0..AgeCap /\ 0 \in 0..ComfortSustain
    BY AgesType
  <2>2. hist \in History
    BY DEF IInv, TypeOK
  <2> QED BY <2>1, <2>2 DEF TickSkipped, Remember, History
<1> HIDE DEF seeded
<1>4. TypeOK'
  BY <1>1, <1>2, <1>3 DEF TickSkipped, IInv, TypeOK
<1>5. ClockIsHonest'
  BY <1>1, <1>2, <1>3 DEF IInv, ClockIsHonest
<1> QED BY <1>4, <1>5 DEF IInv

\* An aborted tick keeps the streak it judged and a maximum it applied.
LEMMA AbortedStep ==
  ASSUME IInv, Managed, NEW obs \in Observations, NEW spec \in SpecReplicas,
         TickAborted(obs, spec)
  PROVE  IInv'
<1> DEFINE seeded == EnsureSeeded(view, Bounds(cr), spec)
           j == Judged(seeded, cr, obs, ready)
           c == j.view.committed
           comfy == AllComfy(cr, obs, Verdicts(cr, obs, ready))
<1>1. /\ seeded \in View /\ seeded.committed \in Nat
      /\ view.committed # None => seeded = view
      /\ view.committed = None => seeded.since = 0 /\ seeded.comfort = None
  BY SeedFacts DEF IInv
<1>2. view' = j.view
  <2>1. Step(view, cr, obs, ready, spec) =
          IF NoEvidence(ready) THEN [view |-> seeded, skip |-> TRUE, want |-> seeded.committed]
          ELSE j
    BY DEF Step
  <2> HIDE DEF j
  <2> QED BY <2>1 DEF TickAborted
<1> HIDE DEF seeded
<1>3. /\ j.view \in View /\ c \in Nat
      /\ c = seeded.committed => j.view.since = seeded.since
      /\ c # seeded.committed => j.view.since = 0
      /\ j.view.comfort # None =>
           comfy /\ (j.view.comfort = 0 \/ (c = seeded.committed /\ j.view.comfort = seeded.comfort))
  <2>1. ObsOK(obs) /\ ready \in Nat
    BY LifeAssumption, RulesAssumption DEF ObsOK, IInv, TypeOK
  <2>2. JudgedOK(seeded, cr, obs, ready, j)
    BY <1>1, <2>1, ManagedWindow, JudgedFacts DEF IInv
  <2> QED BY <2>2 DEF JudgedOK
<1>4. /\ hist'.moved = IF c # view.committed THEN 0 ELSE hist.moved
      /\ hist'.uneasy = IF ~comfy THEN 0 ELSE hist.uneasy
      /\ hist' \in History
  <2>1. 0 \in 0..AgeCap /\ 0 \in 0..ComfortSustain
    BY AgesType
  <2>2. hist \in History
    BY DEF IInv, TypeOK
  <2> HIDE DEF j
  <2> QED BY <1>2, <2>1, <2>2 DEF TickAborted, Remember, History, Alarm
<1> HIDE DEF j, c, comfy
<1>5. TypeOK'
  BY <1>2, <1>3, <1>4 DEF TickAborted, IInv, TypeOK
<1>6. view'.since = hist'.moved
  <2>1. None \notin Nat
    BY RulesAssumption
  <2> QED BY <1>1, <1>2, <1>3, <1>4, <2>1 DEF IInv, ClockIsHonest
<1>7. view'.comfort # None => view'.comfort <= hist'.uneasy
  <2>1. hist.uneasy \in Nat
    BY AgesType DEF IInv, TypeOK, History
  <2> QED BY <1>1, <1>2, <1>3, <1>4, <2>1 DEF IInv, ClockIsHonest
<1> QED BY <1>5, <1>6, <1>7 DEF IInv, ClockIsHonest

(***************************************************************************)
(* The theorems.                                                           *)
(***************************************************************************)
LEMMA InitIInv == Init => IInv
<1>1. FreshView \in View /\ 0 \in 0..AgeCap /\ 0 \in 0..ComfortSustain
  BY AgesType DEF FreshView, View
<1> QED BY <1>1 DEF Init, IInv, TypeOK, ClockIsHonest, History, FreshView

LEMMA NextIInv == IInv /\ [Next]_vars => IInv'
<1> SUFFICES ASSUME IInv, [Next]_vars PROVE IInv'
  OBVIOUS
<1>1. ASSUME NEW c \in CRs \cup {None}, EditCR(c) PROVE IInv'
  BY <1>1 DEF EditCR, Idle, IInv, TypeOK, ClockIsHonest, History
<1>2. ASSUME NEW n \in 0..MaxReady, Disturb(n) PROVE IInv'
  BY <1>2 DEF Disturb, Idle, IInv, TypeOK, ClockIsHonest, History
<1>3. CASE Converge
  BY <1>3, ConvergeStep
<1>4. CASE Pass
  BY <1>4, PassStep
<1>5. CASE TickUnmanaged
  BY <1>5, UnmanagedStep
<1>6. CASE TickManaged
  BY <1>6, SkippedStep, AbortedStep, JudgedTick DEF TickManaged
<1>7. CASE UNCHANGED vars
  BY <1>7 DEF vars, IInv, TypeOK, ClockIsHonest
<1> QED BY <1>1, <1>2, <1>3, <1>4, <1>5, <1>6, <1>7 DEF Next

\* Whatever changes the ledger in a judged tick obeys GrowthOK and ShedOK.
LEMMA JudgedStep ==
  ASSUME IInv, Next, Committed
  PROVE  Managed /\ GrowthOK /\ ShedOK
<1>1. hist'.step # "other"
  BY DEF Committed
<1>2. hist \in History
  BY DEF IInv, TypeOK
<1>3. /\ ~ \E c \in CRs \cup {None} : EditCR(c)
      /\ ~ \E n \in 0..MaxReady : Disturb(n)
      /\ ~Converge /\ ~Pass /\ ~TickUnmanaged
  BY <1>1, <1>2 DEF EditCR, Disturb, Converge, Pass, TickUnmanaged, Idle, History
<1>4. PICK obs \in Observations, spec \in SpecReplicas :
        /\ Managed
        /\ (\E physical \in {None, ready} : TickSkipped(obs, physical, spec))
           \/ TickAborted(obs, spec)
           \/ TickJudged(obs, spec)
  BY <1>3 DEF Next, TickManaged
<1>5. /\ ~ \E physical \in {None, ready} : TickSkipped(obs, physical, spec)
      /\ ~ TickAborted(obs, spec)
  BY DEF TickSkipped, TickAborted, Remember, Committed
<1>6. TickJudged(obs, spec)
  BY <1>4, <1>5
<1> QED BY <1>4, <1>6, JudgedTick

\* The numbers the properties compare.
LEMMA LedgerType ==
  ASSUME IInv, [Next]_vars, Managed, Seeded
  PROVE  /\ Ledger \in Nat /\ Ledger' \in Nat
         /\ Bounds(cr).lo \in Nat /\ Bounds(cr).hi \in Nat
         /\ ready \in Nat /\ hist.moved \in Nat
<1>1. TypeOK /\ TypeOK'
  BY NextIInv DEF IInv
<1>2. Ledger \in Nat /\ Ledger' \in Nat
  BY <1>1 DEF TypeOK, View, Seeded, Ledger
<1>3. ready \in Nat /\ hist.moved \in Nat
  BY <1>1, AgesType, LifeAssumption DEF TypeOK, History
<1> QED BY <1>1, <1>2, <1>3, ManagedWindow

\* The clock never claims more than happened: commit() restarts both clocks on
\* every path (serviceview.py:149-161).
THEOREM LedgerClock == Spec => [](TypeOK /\ ClockIsHonest)
<1>1. Spec => []IInv
  BY InitIInv, NextIInv, PTL DEF Spec
<1> QED BY <1>1, PTL DEF IInv

\* Whatever a tick reads and commits, a ledger is a number of replicas and the
\* ages stay within their thresholds (serviceview.py:138-161).
THEOREM LifeTyped == Spec => []TypeOK
BY LedgerClock, PTL

\* A tick sheds on its own judgement only after both cooldowns
\* (serviceview.py:607-615).
THEOREM ShedEarned == Spec => ShedIsEarned
<1>1. IInv /\ [Next]_vars =>
        [Granted /\ Shrank /\ Ledger <= Bounds(cr).hi =>
           hist.moved >= DownCooldown /\ hist'.uneasy >= ComfortSustain]_vars
  <2> SUFFICES ASSUME IInv, Next, Granted, Shrank, Ledger <= Bounds(cr).hi
               PROVE  hist.moved >= DownCooldown /\ hist'.uneasy >= ComfortSustain
    OBVIOUS
  <2>1. Managed /\ ShedOK
    BY JudgedStep DEF Granted, Committed
  <2>2. ~ Ledger > Bounds(cr).hi
    BY <2>1, LedgerType DEF Shrank
  <2> QED BY <2>1, <2>2 DEF ShedOK, Granted, Shrank, Seeded, Ledger
<1> QED BY <1>1, InitIInv, NextIInv, PTL DEF Spec, ShedIsEarned

\* A tick grows the ledger only after the up-cooldown, under the fire alarm or
\* to a raised floor (triggers.py:256-281, serviceview.py:610).
THEOREM GrowthSpaced == Spec => GrowthIsSpaced
<1>1. IInv /\ [Next]_vars =>
        [Granted /\ Grew /\ Ledger >= Bounds(cr).lo /\ ~hist'.alarm =>
           hist.moved >= UpCooldown]_vars
  <2> SUFFICES ASSUME IInv, Next, Granted, Grew, Ledger >= Bounds(cr).lo, ~hist'.alarm
               PROVE  hist.moved >= UpCooldown
    OBVIOUS
  <2>1. Managed /\ GrowthOK
    BY JudgedStep DEF Granted, Committed
  <2>2. Ledger' # Bounds(cr).lo
    BY <2>1, LedgerType DEF Grew
  <2> QED BY <2>1, <2>2 DEF GrowthOK, Grew, Seeded, Ledger
<1> QED BY <1>1, InitIInv, NextIInv, PTL DEF Spec, GrowthIsSpaced

\* No rollout in flight is reversed (direction.py:57-68).
THEOREM RolloutNotReversed == Spec => NoReversal
<1>1. IInv /\ [Next]_vars =>
        [/\ Committed /\ Grew /\ ready > Ledger => Ledger < Bounds(cr).lo
         /\ Granted /\ Shrank /\ ready < Ledger => Ledger > Bounds(cr).hi]_vars
  <2> SUFFICES ASSUME IInv, Next
               PROVE  /\ Committed /\ Grew /\ ready > Ledger => Ledger < Bounds(cr).lo
                      /\ Granted /\ Shrank /\ ready < Ledger => Ledger > Bounds(cr).hi
    OBVIOUS
  <2>1. ASSUME Committed, Grew, ready > Ledger
        PROVE  Ledger < Bounds(cr).lo
    <3>1. Managed /\ GrowthOK
      BY <2>1, JudgedStep
    <3>2. ~ ready <= Ledger
      BY <2>1, <3>1, LedgerType DEF Grew
    <3>3. Ledger' = Bounds(cr).lo
      BY <2>1, <3>1, <3>2 DEF GrowthOK, Grew, Seeded, Ledger
    <3> QED BY <2>1, <3>3 DEF Grew
  <2>2. ASSUME Granted, Shrank, ready < Ledger
        PROVE  Ledger > Bounds(cr).hi
    <3>1. Managed /\ ShedOK
      BY <2>2, JudgedStep DEF Granted, Committed
    <3>2. ~ ready >= Ledger
      BY <2>2, <3>1, LedgerType DEF Shrank
    <3> QED BY <2>2, <3>1, <3>2 DEF ShedOK, Granted, Shrank, Seeded, Ledger
  <2> QED BY <2>1, <2>2
<1> QED BY <1>1, InitIInv, NextIInv, PTL DEF Spec, NoReversal

\* However often the rules fire, the ledger stays within one step or one capped
\* fire of the replicas that are there (triggers.py:61-97).
THEOREM GrowthBounded == Spec => GrowthFollowsEvidence
<1>1. IInv /\ [Next]_vars =>
        [Committed /\ Grew =>
           \/ Ledger' = Bounds(cr).lo
           \/ Ledger' <= ready + Larger(GrowStep(ready),
                           Larger(1, CeilDiv(ready * FireCapPct, 100)))]_vars
  <2> SUFFICES ASSUME IInv, Next, Committed, Grew
               PROVE  Ledger' = Bounds(cr).lo \/ Ledger' <= Reach(ready)
    BY DEF Reach
  <2>1. GrowthOK
    BY JudgedStep
  <2> QED BY <2>1 DEF GrowthOK, Grew, Seeded, Ledger
<1> QED BY <1>1, InitIInv, NextIInv, PTL DEF Spec, GrowthFollowsEvidence
=============================================================================
