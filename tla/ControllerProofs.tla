-------------------------- MODULE ControllerProofs --------------------------
(***************************************************************************)
(* What no order of ticks, edits, failed reads and flips of type can do to *)
(* the controller's books, for any set of services, CRs, workloads and     *)
(* nodes: leave a shape without its set, publish a service that no CR      *)
(* manages or outside its window, drop a row, spend a GPU twice, or move   *)
(* the default pool by maintenance.                                        *)
(***************************************************************************)
EXTENDS Controller, PlannerProofs, PdViewProofs

(***************************************************************************)
(* Views.                                                                  *)
(***************************************************************************)
HasLedger(view) == "committed" \in DOMAIN view

\* A fresh view holds neither a number nor a shape.
LEMMA FreshFacts == HasLedger(FreshView) /\ FreshView.committed = None
BY DEF FreshView, HasLedger

\* commit() either leaves the view alone or installs what it is given.
LEMMA CommitFacts ==
  ASSUME NEW view, HasLedger(view), NEW x
  PROVE  HasLedger(Commit(view, x)) /\ Commit(view, x).committed = x
BY DEF Commit, HasLedger

\* A step of the replica branch keeps the record a record.
LEMMA StepLedger ==
  ASSUME NEW view, HasLedger(view), NEW cr, NEW obs, NEW physical, NEW spec
  PROVE  HasLedger(Step(view, cr, obs, physical, spec).view)
<1> DEFINE seeded == EnsureSeeded(view, Bounds(cr), spec)
           shrunk == MaxShrink(seeded, Bounds(cr))
           j == Judged(seeded, cr, obs, physical)
<1>1. HasLedger(seeded)
  BY CommitFacts DEF EnsureSeeded
<1>2. HasLedger(shrunk)
  BY <1>1, CommitFacts DEF MaxShrink
<1>3. HasLedger(j.view)
  <2>1. \A comfy : HasLedger(Streak(shrunk, comfy))
    BY <1>2 DEF Streak, HasLedger
  <2>2. \E comfy : j.view = Streak(shrunk, comfy)
    BY DEF Judged
  <2> QED BY <2>1, <2>2
<1> QED BY <1>1, <1>3 DEF Step

\* The replica branch never leaves a shape in the ledger, whatever currency it
\* found there.
LEMMA ReplicasFacts ==
  ASSUME NEW view, HasLedger(view), NEW cr, NEW obs, NEW physical, NEW spec
  PROVE  LET t == StepReplicas(view, cr, obs, physical, spec)
         IN  HasLedger(t.view) /\ ~HasShape(t.view)
<1> DEFINE own == IF HasShape(view) THEN ResetCommitted(view) ELSE view
           u == Step(Bare(own), cr, obs, physical, spec)
<1>1. HasLedger(Bare(own))
  BY DEF HasLedger, ResetCommitted, Bare
<1>2. HasLedger(u.view)
  BY <1>1, StepLedger
<1>3. /\ Counted(u.view).committed =
           (IF u.view.committed = None THEN None ELSE [replicas |-> u.view.committed])
      /\ HasLedger(Counted(u.view))
  BY <1>2 DEF Counted, HasLedger
<1>4. "view" \in DOMAIN u
  BY DEF Step, Judged
<1>5. StepReplicas(view, cr, obs, physical, spec).view = Counted(u.view)
  BY <1>4 DEF StepReplicas
<1> HIDE DEF u
<1> QED BY <1>3, <1>5 DEF HasShape

\* The pdengine branch either forgets the view or had a set to step against.
LEMMA ShapeFacts ==
  ASSUME NEW view, HasLedger(view), NEW cr, NEW obs, NEW physical, NEW ds, NEW roles
  PROVE  LET t == StepPd(view, cr, obs, physical, ds, roles)
         IN  /\ HasLedger(t.view)
             /\ t.drop \in BOOLEAN
             /\ t.drop => t.view = FreshView
             /\ ~t.drop => ds # None
<1> DEFINE seeded == SeedShape(view, ds)
           j == JudgedPd(seeded, cr, obs, ds, roles)
<1>1. HasLedger(seeded)
  <2>1. HasLedger(IF HasCount(view) THEN ResetCommitted(view) ELSE view)
    BY DEF HasLedger, ResetCommitted
  <2> QED BY <2>1, CommitFacts DEF SeedShape
<1>2. HasLedger(j.view) /\ j.drop = FALSE
  <2>1. HasLedger(BoundsFix(seeded, ds, Window(cr, ds)))
    BY <1>1, CommitFacts DEF BoundsFix
  <2>2. \A comfy : HasLedger(Streak(BoundsFix(seeded, ds, Window(cr, ds)), comfy))
    BY <2>1 DEF Streak, HasLedger
  <2>3. /\ \E comfy : j.view = Streak(BoundsFix(seeded, ds, Window(cr, ds)), comfy)
        /\ j.drop = FALSE
    BY DEF JudgedPd
  <2> QED BY <2>2, <2>3
<1> HIDE DEF j, seeded
<1> QED BY <1>1, <1>2, FreshFacts DEF StepPd, DroppedPd, Structural, j, seeded

(***************************************************************************)
(* The books: a shape in the ledger has the set it is rendered with.       *)
(***************************************************************************)
Books(vs, ss) ==
  /\ DOMAIN vs = Services /\ DOMAIN ss = Services
  /\ \A s \in Services : HasLedger(vs[s]) /\ (HasShape(vs[s]) => ss[s] # None)

BooksKept == Books(views, specs)

\* Replacing one service's view and set.
LEMMA BooksStep ==
  ASSUME BooksKept, NEW e, NEW v, NEW d,
         e \in Services => HasLedger(v) /\ (HasShape(v) => d # None)
  PROVE  Books([views EXCEPT ![e] = v], [specs EXCEPT ![e] = d])
BY DEF BooksKept, Books

\* Taking over what is kept of the ledger forgets a view and its set together.
LEMMA BooksPruned ==
  ASSUME BooksKept, NEW snapshot
  PROVE  Books(Pruned(snapshot, views, FreshView), Pruned(snapshot, specs, None))
BY FreshFacts DEF BooksKept, Books, Pruned, HasShape

\* A commit never turns a number into a shape.
LEMMA BooksCommitted ==
  ASSUME BooksKept, NEW alloc, NEW granted
  PROVE  Books(Committed(alloc, granted), specs)
<1> DEFINE after == Committed(alloc, granted)
<1>1. DOMAIN after = Services
  BY DEF Committed
<1> SUFFICES ASSUME NEW s \in Services
             PROVE  HasLedger(after[s]) /\ (HasShape(after[s]) => specs[s] # None)
  BY <1>1 DEF BooksKept, Books
<1>2. HasLedger(views[s]) /\ (HasShape(views[s]) => specs[s] # None)
  BY DEF BooksKept, Books
<1>3. CASE s \in granted /\ HasShape(views[s])
  <2>1. after[s] = Commit(views[s], pdWants[s].want)
    BY <1>3 DEF Committed
  <2> QED BY <1>2, <1>3, <2>1, CommitFacts
<1>4. CASE ~(s \in granted /\ HasShape(views[s])) /\ s \in Contenders /\ HasCount(views[s])
  <2>1. after[s] = Commit(views[s], [replicas |-> alloc[s]])
    BY <1>4 DEF Committed
  <2>2. after[s].committed = [replicas |-> alloc[s]] /\ HasLedger(after[s])
    BY <1>2, <2>1, CommitFacts
  <2> QED BY <2>2 DEF HasShape
<1>5. CASE ~(s \in granted /\ HasShape(views[s])) /\ ~(s \in Contenders /\ HasCount(views[s]))
  <2>1. after[s] = views[s]
    BY <1>5 DEF Committed
  <2> QED BY <1>2, <2>1
<1> QED BY <1>3, <1>4, <1>5

LEMMA BooksInit == Init => BooksKept
BY FreshFacts DEF Init, BooksKept, Books, NoSpecs, HasShape

LEMMA BooksNext == BooksKept /\ [Next]_vars => BooksKept'
<1> SUFFICES ASSUME BooksKept, [Next]_vars PROVE BooksKept'
  OBVIOUS
<1>1. ASSUME UNCHANGED ledger PROVE BooksKept'
  BY <1>1 DEF ledger, BooksKept
<1>2. CASE Pass
  <2>1. \A s \in Services : /\ HasLedger(Aged(views[s])) <=> HasLedger(views[s])
                            /\ Aged(views[s]).committed = views[s].committed
    BY DEF BooksKept, Books, Aged, HasLedger
  <2> QED BY <1>2, <2>1 DEF Pass, BooksKept, Books, HasShape
<1>3. CASE SnapshotJobs
  BY <1>3, BooksPruned DEF SnapshotJobs, BooksKept
<1>4. CASE StepOptedOut
  BY <1>4, BooksStep, FreshFacts DEF StepOptedOut, BooksKept, HasShape
<1>5. CASE StepService
  <2> DEFINE e == FirstEntry[2]
  <2>1. PICK t \in ReplicaSteps(e) : views' = [views EXCEPT ![e] = t.view] /\ specs' = specs
    BY <1>5 DEF StepService
  <2>2. PICK obs, physical, spec : t = StepReplicas(views[e], Entry, obs, physical, spec)
    BY <2>1 DEF ReplicaSteps
  <2>3. e \in Services => HasLedger(t.view) /\ ~HasShape(t.view)
    BY <2>2, ReplicasFacts DEF BooksKept, Books
  <2> QED BY <2>1, <2>3 DEF BooksKept, Books
<1>6. ASSUME NEW ds \in Sets, StepShape(ds) PROVE BooksKept'
  <2> DEFINE e == FirstEntry[2]
  <2>1. PICK t \in ShapeSteps(e, ds) :
          views' = [views EXCEPT ![e] = t.view] /\ specs' = Resolved(e, t, ds)
    BY <1>6 DEF StepShape
  <2>2. PICK obs, physical, roles : t = StepPd(views[e], Entry, obs, physical, ds, roles)
    BY <2>1 DEF ShapeSteps
  <2>3. ASSUME e \in Services
        PROVE  HasLedger(t.view) /\ (t.drop => t.view = FreshView) /\ (~t.drop => ds # None)
    BY <2>2, <2>3, ShapeFacts DEF BooksKept, Books
  <2>4. CASE t.drop
    BY <2>1, <2>3, <2>4, BooksStep, FreshFacts DEF Resolved, BooksKept, HasShape
  <2>5. CASE ~t.drop
    BY <2>1, <2>3, <2>5 DEF Resolved, BooksKept, Books
  <2> QED BY <2>4, <2>5
<1>7. CASE AllotAndPublish
  BY <1>7, BooksCommitted DEF AllotAndPublish, BooksKept
<1>8. CASE UNCHANGED vars
  BY <1>1, <1>8 DEF vars
<1> QED
  BY <1>1, <1>2, <1>3, <1>4, <1>5, <1>6, <1>7, <1>8
  DEF Next, Write, Delete, TickStart, ReadCapacity, CapacityFails, PlacementFails,
      StepUnplaced, AllotCrashes, Abort

\* Through aborted ticks, flips of type, drops, opt-outs and deletions in any
\* order, no shape is ever left without the set that snapshot.py renders it
\* with (controller.py:244-262 and :389-401).
THEOREM ShapesHaveSpecs == Spec => []EveryShapeHasSpec
<1>1. BooksKept => EveryShapeHasSpec
  BY DEF BooksKept, Books, EveryShapeHasSpec
<1> QED BY <1>1, BooksInit, BooksNext, PTL DEF Spec

(***************************************************************************)
(* The rows: whoever is in the ledger has a CR that manages it, or one the *)
(* tick has still to meet.                                                 *)
(***************************************************************************)

LEMMA ServicesAreNumbers ==
  IsFiniteSet(Services) /\ Services \subseteq Nat /\ \A s \in Services : s \in Nat \ {0}
BY ControllerAssumption

\* "merged" has a first entry as long as it has one.
LEMMA FirstEntryExists ==
  ASSUME todo \subseteq Kinds \X Services, todo # {}
  PROVE  FirstEntry \in todo /\ (FirstEntry[1] = "job" => \A f \in todo : f[1] = "job")
<1> DEFINE KeysOf(k) == {s \in Services : <<k, s>> \in todo}
<1>1. KeysOf("llm") \in SUBSET Nat /\ KeysOf("job") \in SUBSET Nat
  BY ServicesAreNumbers
<1>2. ASSUME NEW k \in Kinds, KeysOf(k) # {},
             \A f \in todo : f[1] # k => k = "llm" /\ f[1] = "job"
      PROVE  \E e \in todo : \A f \in todo :
               (e[1] = "llm" /\ f[1] = "job") \/ (e[1] = f[1] /\ e[2] <= f[2])
  <2>1. PICK s \in KeysOf(k) : \A t \in KeysOf(k) : s <= t
    BY <1>1, <1>2, NatLeast DEF Kinds
  <2>2. ASSUME NEW f \in todo
        PROVE  (k = "llm" /\ f[1] = "job") \/ (k = f[1] /\ s <= f[2])
    <3>1. f = <<f[1], f[2]>> /\ f[2] \in Services
      BY <2>2
    <3> QED BY <1>2, <2>1, <2>2, <3>1
  <2> WITNESS <<k, s>> \in todo
  <2> QED BY <2>2
<1>3. PICK f \in todo : f = <<f[1], f[2]>> /\ f[1] \in Kinds /\ f[2] \in Services
  OBVIOUS
<1>4. CASE KeysOf("llm") # {}
  <2>1. \A g \in todo : g[1] # "llm" => g[1] = "job"
    BY DEF Kinds
  <2> QED BY <1>2, <1>4, <2>1 DEF FirstEntry, Kinds
<1>5. CASE KeysOf("llm") = {}
  <2>1. \A g \in todo : g = <<g[1], g[2]>> /\ g[2] \in Services /\ g[1] \in Kinds
    OBVIOUS
  <2>2. \A g \in todo : g[1] = "job"
    BY <1>5, <2>1 DEF Kinds
  <2>3. KeysOf("job") # {}
    BY <1>3, <2>2
  <2> QED BY <1>2, <2>2, <2>3 DEF FirstEntry, Kinds
<1> QED BY <1>4, <1>5

\* A CR that manages s, or that the tick has still to step.
AnsweredFor(s) ==
  \E k \in Kinds : crs[k][s] # None /\ (OptedOut(crs[k][s]) => <<k, s>> \in todo)

Accounted ==
  /\ BooksKept
  /\ todo \subseteq {e \in Kinds \X Services : crs[e[1]][e[2]] # None}
  /\ pc \in {"idle", "jobs"} => todo = {}
  /\ pc \in {"capacity", "step"} =>
       \A s \in Services : views[s].committed # None => AnsweredFor(s)

LEMMA AccountedInit == Init => Accounted
BY BooksInit DEF Init, Accounted

\* Both ways of ending a tick empty its list.
LEMMA AccountedEnd ==
  ASSUME EndTick, BooksKept'
  PROVE  Accounted'
BY DEF EndTick, Accounted

LEMMA EntryFacts ==
  ASSUME Accounted, Stepping
  PROVE  /\ FirstEntry \in todo /\ FirstEntry = <<FirstEntry[1], FirstEntry[2]>>
         /\ FirstEntry[1] \in Kinds /\ FirstEntry[2] \in Services
         /\ crs[FirstEntry[1]][FirstEntry[2]] # None
         /\ FirstEntry[1] = "job" => \A f \in todo : f[1] = "job"
<1>1. FirstEntry \in todo /\ (FirstEntry[1] = "job" => \A f \in todo : f[1] = "job")
  BY FirstEntryExists DEF Accounted, Stepping
<1> HIDE DEF FirstEntry
<1> QED BY <1>1 DEF Accounted

\* An entry that is stepped answers for its service from then on, and the
\* others answer for theirs.
LEMMA AccountedStep ==
  ASSUME Accounted, Stepping, UNCHANGED <<pc, crs>>, BooksKept',
         NEW e, e = FirstEntry, todo' = todo \ {e},
         \A s \in Services : s # e[2] => views'[s] = views[s],
         \/ ~OptedOut(crs[e[1]][e[2]])
         \/ views'[e[2]].committed = None
  PROVE  Accounted'
<1>1. e = <<e[1], e[2]>> /\ e[1] \in Kinds /\ crs[e[1]][e[2]] # None
  BY EntryFacts
<1>2. ASSUME NEW s \in Services, views'[s].committed # None
      PROVE  AnsweredFor(s)'
  <2>1. CASE s # e[2]
    <3>1. PICK k \in Kinds : crs[k][s] # None /\ (OptedOut(crs[k][s]) => <<k, s>> \in todo)
      BY <1>2, <2>1 DEF Accounted, Stepping, AnsweredFor
    <3>2. <<k, s>> # e
      BY <2>1
    <3> QED BY <3>1, <3>2 DEF AnsweredFor
  <2>2. CASE s = e[2]
    <3>1. crs[e[1]][s] # None /\ ~OptedOut(crs[e[1]][s])
      BY <1>1, <1>2, <2>2
    <3> QED BY <1>1, <3>1 DEF AnsweredFor
  <2> QED BY <2>1, <2>2
<1>3. todo' \subseteq {f \in Kinds \X Services : crs'[f[1]][f[2]] # None}
  BY DEF Accounted
<1>4. pc' = "step"
  BY DEF Stepping
<1> QED BY <1>2, <1>3, <1>4 DEF Accounted

LEMMA AccountedNext == Accounted /\ [Next]_vars => Accounted'
<1> SUFFICES ASSUME Accounted, [Next]_vars PROVE Accounted'
  OBVIOUS
<1>1. BooksKept /\ BooksKept'
  BY BooksNext DEF Accounted
<1>2. CASE Pass
  BY <1>1, <1>2 DEF Pass, Accounted, tickVars
<1>3. CASE TickStart
  BY <1>1, <1>3 DEF TickStart, Accounted
<1>4. CASE SnapshotJobs
  <2> DEFINE snapshot == [crs EXCEPT !["job"] = store["job"]]
  <2>1. CASE Live(snapshot) = {}
    BY <1>1, <1>4, <2>1, AccountedEnd DEF SnapshotJobs
  <2>2. CASE Live(snapshot) # {}
    <3>1. /\ crs' = snapshot /\ pc' = "capacity"
          /\ todo' = {e \in Kinds \X Services : snapshot[e[1]][e[2]] # None}
          /\ views' = Pruned(snapshot, views, FreshView)
      BY <1>4, <2>2 DEF SnapshotJobs
    <3> HIDE DEF snapshot
    <3>2. ASSUME NEW s \in Services, views'[s].committed # None PROVE AnsweredFor(s)'
      <4>1. s \in Live(snapshot)
        BY <3>1, <3>2, FreshFacts DEF Pruned
      <4>2. PICK k \in Kinds : snapshot[k][s] # None
        BY <4>1 DEF Live
      <4>3. <<k, s>> \in todo'
        BY <3>1, <4>2
      <4> QED BY <3>1, <4>2, <4>3 DEF AnsweredFor
    <3> QED BY <1>1, <3>1, <3>2 DEF Accounted
  <2> QED BY <2>1, <2>2
<1>5. ASSUME NEW nodes \in Clusters, ReadCapacity(nodes) PROVE Accounted'
  BY <1>1, <1>5 DEF ReadCapacity, Accounted, AnsweredFor, ledger
<1>6. CASE Abort \/ AllotAndPublish
  BY <1>1, <1>6, AccountedEnd DEF Abort, AllotAndPublish
<1>7. CASE StepOptedOut
  <2>1. FirstEntry[2] \in DOMAIN views
    BY <1>1, <1>7, EntryFacts DEF StepOptedOut, BooksKept, Books
  <2> QED BY <1>1, <1>7, <2>1, AccountedStep, FreshFacts DEF StepOptedOut
<1>8. CASE StepUnplaced
  <2>1. /\ Stepping /\ UNCHANGED <<pc, crs, views>> /\ todo' = todo \ {FirstEntry}
        /\ ~OptedOut(crs[FirstEntry[1]][FirstEntry[2]])
    BY <1>8 DEF StepUnplaced, Placing, Entry, ledger
  <2> HIDE DEF FirstEntry
  <2> QED BY <1>1, <2>1, AccountedStep
<1>9. CASE StepService
  <2>1. PICK v : views' = [views EXCEPT ![FirstEntry[2]] = v]
    BY <1>9 DEF StepService
  <2>2. \A s \in Services : s # FirstEntry[2] => views'[s] = views[s]
    BY <1>1, <2>1 DEF BooksKept, Books
  <2>3. /\ Stepping /\ UNCHANGED <<pc, crs>> /\ todo' = todo \ {FirstEntry}
        /\ ~OptedOut(crs[FirstEntry[1]][FirstEntry[2]])
    BY <1>9 DEF StepService, Placing, Entry
  <2> HIDE DEF FirstEntry
  <2> QED BY <1>1, <2>2, <2>3, AccountedStep
<1>10. ASSUME NEW ds \in Sets, StepShape(ds) PROVE Accounted'
  <2>1. PICK v : views' = [views EXCEPT ![FirstEntry[2]] = v]
    BY <1>10 DEF StepShape
  <2>2. \A s \in Services : s # FirstEntry[2] => views'[s] = views[s]
    BY <1>1, <2>1 DEF BooksKept, Books
  <2>3. /\ Stepping /\ UNCHANGED <<pc, crs>> /\ todo' = todo \ {FirstEntry}
        /\ ~OptedOut(crs[FirstEntry[1]][FirstEntry[2]])
    BY <1>10 DEF StepShape, Shaping, Placing, Entry
  <2> HIDE DEF FirstEntry
  <2> QED BY <1>1, <2>2, <2>3, AccountedStep
<1>11. CASE Unread /\ UNCHANGED <<tickVars, ledger>>
  BY <1>1, <1>11 DEF Accounted, Unread, tickVars, ledger
<1>12. CASE UNCHANGED vars
  BY <1>1, <1>12 DEF Accounted, AnsweredFor, vars, tickVars, ledger
<1> QED
  BY <1>2, <1>3, <1>4, <1>5, <1>6, <1>7, <1>8, <1>9, <1>10, <1>11, <1>12
  DEF Next, Write, Delete, CapacityFails, PlacementFails, AllotCrashes, tickVars, ledger

\* Only a tick that goes through publishes, and it commits to nobody the
\* ledger does not hold.
LEMMA PublishedFacts ==
  ASSUME Accounted, Next, Publishing, NEW s \in Services, served'[s] # None
  PROVE  views[s].committed # None
<1>1. AllotAndPublish
  BY DEF Next, Publishing, Write, Delete, Unread, Pass, TickStart, SnapshotJobs, ReadCapacity,
         CapacityFails, PlacementFails, Placing, Stepping, StepOptedOut, StepUnplaced,
         StepService, StepShape, Shaping, AllotCrashes
<1>2. PICK alloc, granted :
        /\ served' = [x \in Services |-> Row(Committed(alloc, granted)[x].committed, specs[x])]
  BY <1>1 DEF AllotAndPublish
<1>3. Committed(alloc, granted)[s].committed # None
  BY <1>2 DEF Row
<1> QED BY <1>3 DEF Committed, HasShape, HasCount

\* C7, for any fleet: a tick publishes only services that some CR of its
\* snapshots manages, through keys with CRs of both kinds, opt-outs in one of
\* them, failed reads and ticks that end half way (controller.py:152-157,
\* :194-205 and :376-382).
THEOREM GhostsLeave == Spec => NoGhostRows
<1>1. Accounted /\ [Next]_vars =>
        [Publishing =>
           \A s \in Services : served'[s] # None =>
             \E k \in Kinds : crs[k][s] # None /\ ~OptedOut(crs[k][s])]_vars
  <2> SUFFICES ASSUME Accounted, Next, Publishing, NEW s \in Services, served'[s] # None
               PROVE  \E k \in Kinds : crs[k][s] # None /\ ~OptedOut(crs[k][s])
    OBVIOUS
  <2>1. AnsweredFor(s)
    BY PublishedFacts DEF Accounted, Publishing
  <2> QED BY <2>1 DEF AnsweredFor, Publishing
<1> QED BY <1>1, AccountedInit, AccountedNext, PTL DEF Spec, NoGhostRows

(***************************************************************************)
(* Types.  The ledger, what the tick has judged and what it will publish   *)
(* hang together service by service.                                       *)
(***************************************************************************)
\* A view as its constructors leave it.
ViewOK(v) ==
  /\ v \in [committed : Ledgers \cup {None}, since : 0..AgeCap,
            comfort : 0..ComfortSustain \cup {None}]
  /\ v.committed = None => v.comfort = None

\* An entry of the plan is never of a service whose ledger holds a shape.
PlanOK(v, entry) ==
  entry # None =>
    /\ entry \in PlanEntry /\ entry.bounds.lo <= entry.bounds.hi
    /\ ~HasShape(v)

\* A shape a tick may publish for a CR with window b: inside the window, but
\* for one below it whose set is at 0p0d.
Publishable(shape, b, spec) ==
  /\ shape \in Shapes /\ Engines(shape) <= b.hi
  /\ Engines(shape) >= b.lo \/ (spec # None /\ Engines(spec.shape) = 0)

\* What was judged of a shape is what the ledger holds of it, unless it has
\* been forgotten since, and either may be published.
ShapeOK(v, spec, entry, cr) ==
  entry # None =>
    /\ entry \in [want : Shapes, booked : Shapes]
    /\ cr \in AnyCR /\ ~OptedOut(cr)
    /\ HasShape(v) =>
         /\ v.committed = entry.booked
         /\ Publishable(entry.booked, Bounds(cr), spec)
         /\ Publishable(entry.want, Bounds(cr), spec)

SheetOK(v, spec, entry, pdEntry, cr) ==
  ViewOK(v) /\ spec \in Sets \cup {None} /\ PlanOK(v, entry) /\ ShapeOK(v, spec, pdEntry, cr)

Sheets == \A s \in Services : SheetOK(views[s], specs[s], plan[s], pdWants[s], crs["llm"][s])

\* CRs lie in the store of their kind.
CRsOK(snapshot) ==
  /\ snapshot \in [Kinds -> [Services -> AnyCR \cup {None}]]
  /\ \A k \in Kinds, s \in Services : snapshot[k][s] # None => snapshot[k][s].kind = k

\* The tick's own variables.  Every entry is judged once per kind, llm first.
TickOK ==
  /\ CRsOK(store) /\ CRsOK(crs)
  /\ pc \in {"idle", "jobs", "capacity", "step"}
  /\ capacity \in [Pools -> Nat] /\ largest \in Pools \cup {NoPool}
  /\ plan \in [Services -> PlanEntry \cup {None}]
  /\ pdWants \in [Services -> [want : Shapes, booked : Shapes] \cup {None}]
  /\ pc # "step" => plan = NoPlan /\ pdWants = NoPlan
  /\ \A s \in Services : <<"llm", s>> \in todo => plan[s] = None /\ pdWants[s] = None

\* A service every snapshot since has held is still in the ledger.
SteadyOK ==
  /\ past \in [real : BOOLEAN, steady : SUBSET Services]
  /\ \A s \in past.steady :
       /\ views[s].committed # None
       /\ pc \in {"capacity", "step"} => s \in ManagedIn(crs)

Typed ==
  /\ Accounted /\ TickOK /\ Sheets /\ SteadyOK
  /\ served \in [Services -> Rows \cup {None}] /\ ticked \in BOOLEAN

LEMMA AgesType == AgeCap \in Nat /\ ComfortSustain \in Nat
BY CooldownAssumption DEF AgeCap, Larger

LEMMA NoneFacts ==
  /\ None \notin Ledgers /\ None \notin Shapes /\ None \notin Rows /\ None \notin AnyCR
  /\ None \notin Int
BY ControllerAssumption, RulesAssumption DEF Ledgers

\* What the ledger holds is a number or a shape, and never both.
LEMMA Currencies ==
  ASSUME NEW v, v.committed \in Ledgers \cup {None}
  PROVE  /\ HasShape(v) <=> v.committed \in Shapes
         /\ HasCount(v) <=> v.committed \in [replicas : Nat]
         /\ ~(HasShape(v) /\ HasCount(v))
         /\ v.committed # None => HasShape(v) \/ HasCount(v)
BY NoneFacts DEF HasShape, HasCount, Ledgers, Shapes

LEMMA ViewHeld ==
  ASSUME NEW v, ViewOK(v)
  PROVE  v \in Held /\ HasLedger(v) /\ (v.committed = None => v.comfort = None)
BY AgesType DEF ViewOK, Held, HasLedger

LEMMA ViewFresh == ViewOK(FreshView) /\ ~HasShape(FreshView) /\ FreshView.committed = None
BY AgesType DEF ViewOK, FreshView, HasShape

LEMMA ViewAged ==
  ASSUME NEW v, ViewOK(v)
  PROVE  ViewOK(Aged(v)) /\ Aged(v).committed = v.committed
<1>1. \A n \in 0..AgeCap : Smaller(n + 1, AgeCap) \in 0..AgeCap
  BY AgesType DEF Smaller
<1>2. \A n \in 0..ComfortSustain : Smaller(n + 1, ComfortSustain) \in 0..ComfortSustain
  BY AgesType DEF Smaller
<1> QED BY <1>1, <1>2 DEF ViewOK, Aged

LEMMA ViewContinues ==
  ASSUME NEW v, ViewOK(v), NEW w \in Held, Continues(v, w), w.committed # None
  PROVE  ViewOK(w)
BY AgesType DEF ViewOK, Held, Continues

LEMMA ViewCommit ==
  ASSUME NEW v, ViewOK(v), NEW x \in Ledgers
  PROVE  ViewOK(Commit(v, x)) /\ Commit(v, x).committed = x
BY AgesType, NoneFacts DEF ViewOK, Commit

\* CRs that can be judged.
LEMMA JudgedCR ==
  ASSUME NEW c \in AnyCR, ~OptedOut(c)
  PROVE  /\ WindowOK(c) /\ c.prio \in Int
         /\ Bounds(c) \in [lo : Nat, hi : Nat] /\ Bounds(c).lo <= Bounds(c).hi
<1>1. WindowOK(c) /\ c.prio \in Int
  BY ControllerAssumption DEF WindowOK, OptedOut
<1> QED BY <1>1, BoundsType DEF Bounds

\* A judged want is a number of replicas.
LEMMA ReplicasWant ==
  ASSUME NEW view, ViewOK(view), NEW c, WindowOK(c), NEW obs, ObsOK(obs),
         NEW physical \in Nat \cup {None}, NEW spec \in Nat,
         ~StepReplicas(view, c, obs, physical, spec).skip
  PROVE  StepReplicas(view, c, obs, physical, spec).want \in Nat
<1> DEFINE own == IF HasShape(view) THEN ResetCommitted(view) ELSE view
           bare == Bare(own)
           seeded == EnsureSeeded(bare, Bounds(c), spec)
           u == Step(bare, c, obs, physical, spec)
<1>1. own \in [committed : [replicas : Nat] \cup {None}, since : 0..AgeCap,
               comfort : 0..ComfortSustain \cup {None}]
  BY Currencies DEF ViewOK, ResetCommitted
<1> HIDE DEF own
<1>2. bare \in View
  BY <1>1, NoneFacts DEF Bare, View
<1> HIDE DEF bare
<1>3. Clamp(spec, Bounds(c)) \in Nat
  <2>1. Bounds(c).lo \in Nat /\ Bounds(c).hi \in Nat /\ Bounds(c).lo <= Bounds(c).hi
    BY BoundsType
  <2> QED BY <2>1, ClampFacts
<1>4. seeded \in View /\ seeded.committed \in Nat
  BY <1>2, <1>3, AgesType DEF EnsureSeeded, Commit, View
<1>5. /\ StepReplicas(view, c, obs, physical, spec).skip = u.skip
      /\ StepReplicas(view, c, obs, physical, spec).want = u.want
  BY DEF StepReplicas, own, bare
<1>6. ~NoEvidence(physical) /\ u = Judged(seeded, c, obs, physical)
  BY <1>5 DEF Step
<1>7. physical \in Nat
  BY <1>6 DEF NoEvidence
<1> HIDE DEF seeded
<1>8. JudgedOK(seeded, c, obs, physical, Judged(seeded, c, obs, physical))
  BY <1>4, <1>7, JudgedFacts
<1> QED BY <1>5, <1>6, <1>8 DEF JudgedOK

LEMMA BlankCRs == CRsOK(NoCRs)
BY DEF CRsOK, NoCRs

\* With nothing judged, a sheet is no more than its view and its set.
LEMMA BlankSheet ==
  ASSUME NEW v, ViewOK(v), NEW spec \in Sets \cup {None}, NEW cr
  PROVE  SheetOK(v, spec, None, None, cr)
BY DEF SheetOK, PlanOK, ShapeOK

LEMMA LargestType == NoPool \notin Pools /\ DefaultPool(NoPool) \in Pools
BY ClusterAssumption DEF Pools, DefaultPool

LEMMA TypedInit == Init => Typed
<1> SUFFICES ASSUME Init PROVE Typed
  OBVIOUS
<1>1. Accounted
  BY AccountedInit
<1>2. CRsOK(store)
  BY DEF Init, CRsOK
<1>3. TickOK
  BY <1>2, BlankCRs DEF Init, TickOK, NoCapacity, NoPlan
<1>4. Sheets
  BY ViewFresh, BlankSheet DEF Init, Sheets, NoSpecs, NoPlan
<1> QED BY <1>1, <1>3, <1>4 DEF Typed, Init, SteadyOK, NoRows

\* However a tick ends, it leaves nothing judged.
LEMMA TypedEnd ==
  ASSUME Typed, EndTick, UNCHANGED <<store, largest>>,
         \A s \in Services : ViewOK(views'[s]) /\ specs'[s] \in Sets \cup {None}
  PROVE  TickOK' /\ Sheets'
<1>1. TickOK'
  BY BlankCRs DEF Typed, TickOK, EndTick, NoCapacity, NoPlan
<1>2. Sheets'
  BY BlankSheet DEF EndTick, Sheets, NoPlan
<1> QED BY <1>1, <1>2

\* An entry that is stepped changes one sheet.
LEMMA TypedStep ==
  ASSUME Typed, Stepping, UNCHANGED <<store, pc, crs, capacity, largest, served, ticked>>, Accounted',
         NEW e, e = FirstEntry, todo' = todo \ {e},
         plan' \in [Services -> PlanEntry \cup {None}],
         pdWants' \in [Services -> [want : Shapes, booked : Shapes] \cup {None}],
         \A s \in Services \ {e[2]} :
           /\ views'[s] = views[s] /\ specs'[s] = specs[s]
           /\ plan'[s] = plan[s] /\ pdWants'[s] = pdWants[s],
         SheetOK(views'[e[2]], specs'[e[2]], plan'[e[2]], pdWants'[e[2]], crs["llm"][e[2]]),
         past' \in [real : BOOLEAN, steady : SUBSET past.steady],
         views'[e[2]].committed # None \/ e[2] \notin past'.steady
  PROVE  Typed'
<1>1. /\ e \in todo /\ e = <<e[1], e[2]>> /\ e[1] \in Kinds /\ e[2] \in Services
      /\ e[1] = "job" => \A f \in todo : f[1] = "job"
  BY EntryFacts DEF Typed
<1>2. ASSUME NEW s \in Services, <<"llm", s>> \in todo'
      PROVE  plan'[s] = None /\ pdWants'[s] = None
  <2>1. s # e[2]
    BY <1>1, <1>2 DEF Kinds
  <2> QED BY <1>2, <2>1 DEF Typed, TickOK
<1>3. TickOK'
  BY <1>2 DEF Typed, TickOK, Stepping
<1>4. Sheets'
  BY DEF Typed, Sheets
<1>5. SteadyOK'
  BY DEF Typed, SteadyOK
<1> QED BY <1>3, <1>4, <1>5 DEF Typed

\* The CR that is stepped.
LEMMA PlacedCR ==
  ASSUME Typed, Placing
  PROVE  /\ Entry \in AnyCR /\ ~OptedOut(Entry) /\ Entry.kind = FirstEntry[1]
         /\ FirstEntry[1] \in Kinds /\ FirstEntry[2] \in Services
         /\ Entry.type = "pdengine" => FirstEntry[1] = "llm"
<1>1. /\ FirstEntry[1] \in Kinds /\ FirstEntry[2] \in Services
      /\ crs[FirstEntry[1]][FirstEntry[2]] # None
  BY EntryFacts DEF Placing, Typed
<1> HIDE DEF FirstEntry
<1>2. Entry \in AnyCR /\ Entry.kind = FirstEntry[1]
  BY <1>1 DEF Entry, Typed, TickOK, CRsOK
<1> QED BY <1>1, <1>2, ControllerAssumption DEF Placing

\* A replica service that is judged gets an entry in the plan, and its ledger
\* holds a number.
LEMMA TypedService ==
  ASSUME Typed, Accounted', StepService
  PROVE  Typed'
<1> DEFINE e == FirstEntry
           s == FirstEntry[2]
<1>1. /\ Entry \in AnyCR /\ ~OptedOut(Entry) /\ e[1] \in Kinds /\ s \in Services
  BY PlacedCR DEF StepService
<1>2. PICK t \in ReplicaSteps(s) :
        /\ views' = [views EXCEPT ![s] = t.view]
        /\ plan' = IF t.skip THEN plan ELSE [plan EXCEPT ![s] = Planned(e, Entry, t)]
  BY DEF StepService
<1>3. PICK obs \in Observations, physical \in Counts, spec \in Seeds :
        t = StepReplicas(views[s], Entry, obs, physical, spec)
  BY <1>2 DEF ReplicaSteps
<1>4. ObsOK(obs) /\ physical \in Nat \cup {None} /\ spec \in Nat
  BY ControllerAssumption DEF ObsOK
<1>5. SheetOK(views[s], specs[s], plan[s], pdWants[s], crs["llm"][s])
  BY <1>1 DEF Typed, Sheets
<1>6. /\ ViewOK(views[s]) /\ views[s] \in Held /\ HasLedger(views[s])
      /\ (views[s].committed = None => views[s].comfort = None)
  BY <1>5, ViewHeld DEF SheetOK
<1>7. /\ WindowOK(Entry) /\ Entry.prio \in Int
      /\ Bounds(Entry) \in [lo : Nat, hi : Nat] /\ Bounds(Entry).lo <= Bounds(Entry).hi
  BY <1>1, JudgedCR
<1> HIDE DEF e, s
<1>8. t.view \in Held /\ t.view.committed \in Ledgers /\ Continues(views[s], t.view)
  BY <1>3, <1>4, <1>6, <1>7, NoneFacts, StepReplicasFacts
<1>9. ~HasShape(t.view)
  BY <1>3, <1>6, ReplicasFacts
<1>10. ViewOK(t.view) /\ t.view.committed.replicas \in Nat /\ t.view.committed # None
  BY <1>6, <1>8, <1>9, NoneFacts, Currencies, ViewContinues DEF Ledgers
<1>11. ~t.skip => t.want \in Nat
  BY <1>3, <1>4, <1>6, <1>7, ReplicasWant
<1>12. plan \in [Services -> PlanEntry \cup {None}]
  BY DEF Typed, TickOK
<1>13. ASSUME ~t.skip
       PROVE  PlanOK(t.view, Planned(e, Entry, t)) /\ Planned(e, Entry, t) \in PlanEntry
  <2>1. (IF plan[e[2]] = None THEN e[1] ELSE plan[e[2]].kind) \in Kinds
    BY <1>1, <1>12 DEF PlanEntry, s, e
  <2>2. Planned(e, Entry, t) \in PlanEntry /\ Planned(e, Entry, t).bounds = Bounds(Entry)
    BY <1>7, <1>10, <1>11, <1>13, <2>1 DEF Planned, PlanEntry
  <2> QED BY <1>7, <1>9, <2>2 DEF PlanOK
<1>14. DOMAIN views = Services
  BY DEF Typed, Accounted, BooksKept, Books
<1>15. /\ plan' \in [Services -> PlanEntry \cup {None}]
       /\ PlanOK(t.view, plan'[s])
       /\ \A x \in Services \ {s} : plan'[x] = plan[x] /\ views'[x] = views[x]
       /\ views'[s] = t.view
  <2>1. PlanOK(t.view, plan[s])
    BY <1>5, <1>9 DEF SheetOK, PlanOK
  <2> QED BY <1>1, <1>2, <1>12, <1>13, <1>14, <2>1
<1>16. SheetOK(views'[s], specs[s], plan'[s], pdWants[s], crs["llm"][s])
  BY <1>5, <1>9, <1>10, <1>15 DEF SheetOK, ShapeOK
<1>17. /\ Stepping /\ UNCHANGED <<store, pc, crs, capacity, largest, served, ticked, specs, pdWants, past>>
       /\ todo' = todo \ {e}
  BY DEF StepService, Placing, e
<1>18. /\ pdWants \in [Services -> [want : Shapes, booked : Shapes] \cup {None}]
       /\ past \in [real : BOOLEAN, steady : SUBSET past.steady]
  BY DEF Typed, TickOK, SteadyOK
<1>19. views'[s].committed # None /\ e = FirstEntry /\ s = e[2]
  BY <1>10, <1>15 DEF e, s
<1> QED BY <1>15, <1>16, <1>17, <1>18, <1>19, TypedStep

\* Only a structural skip forgets a view.
LEMMA DropForgets ==
  ASSUME NEW view \in Held, NEW cr, NEW obs, NEW physical, NEW ds, ds = None \/ IsSet(ds),
         NEW roles, ~StepPd(view, cr, obs, physical, ds, roles).drop
  PROVE  ~Forgotten(StepPd(view, cr, obs, physical, ds, roles)) /\ IsSet(ds)
<1> DEFINE t == StepPd(view, cr, obs, physical, ds, roles)
           seeded == SeedShape(view, ds)
<1>1. ~Structural(ds) /\ IsSet(ds)
  BY DEF StepPd, DroppedPd, Structural
<1>2. seeded.committed # None
  BY <1>1, SeedShapeFacts, NoneFacts
<1>3. CASE NoEvidence(physical)
  <2>1. t.view = seeded
    BY <1>1, <1>3 DEF StepPd
  <2> QED BY <1>1, <1>2, <2>1, ViewFresh DEF Forgotten
<1>4. CASE ~NoEvidence(physical)
  <2>1. t = JudgedPd(seeded, cr, obs, ds, roles)
    BY <1>1, <1>4 DEF StepPd, DroppedPd
  <2>2. t.skip = FALSE
    BY <2>1 DEF JudgedPd
  <2> QED BY <1>1, <2>2 DEF Forgotten
<1> QED BY <1>3, <1>4

\* A shape that is judged may be published as it is and as it is wanted.
LEMMA JudgedPublishable ==
  ASSUME NEW view, NEW cr, NEW obs, NEW ds, ds # None, NEW roles, NEW t,
         JudgedPdOK(view, cr, obs, ds, roles, t)
  PROVE  /\ [want |-> t.want, booked |-> t.view.committed] \in [want : Shapes, booked : Shapes]
         /\ Publishable(t.view.committed, Bounds(cr), ds)
         /\ Publishable(t.want, Bounds(cr), ds)
BY DEF JudgedPdOK, WantOK, Publishable

LEMMA TypedShape ==
  ASSUME Typed, Accounted', NEW ds \in Sets, StepShape(ds)
  PROVE  Typed'
<1> DEFINE e == FirstEntry
           s == FirstEntry[2]
<1>1. /\ Entry \in AnyCR /\ ~OptedOut(Entry) /\ e[1] = "llm" /\ s \in Services
      /\ Entry = crs["llm"][s]
  BY PlacedCR DEF StepShape, Shaping, Entry
<1>2. PICK t \in ShapeSteps(s, ds) :
        /\ views' = [views EXCEPT ![s] = t.view]
        /\ specs' = Resolved(s, t, ds)
        /\ pdWants' = IF t.skip THEN pdWants
                      ELSE [pdWants EXCEPT ![s] = [want |-> t.want, booked |-> t.view.committed]]
        /\ past' = IF t.drop THEN [past EXCEPT !.steady = @ \ {s}] ELSE past
  BY DEF StepShape
<1>3. PICK obs \in Observations, physical \in Counts, roles \in RoleReadings :
        t = StepPd(views[s], Entry, obs, physical, ds, roles)
  BY <1>2 DEF ShapeSteps
<1>4. ObsOK(obs) /\ roles \in Shapes \cup {None} /\ (ds = None \/ IsSet(ds))
  BY ControllerAssumption DEF ObsOK, IsSet
<1>5. SheetOK(views[s], specs[s], plan[s], pdWants[s], crs["llm"][s])
  BY <1>1 DEF Typed, Sheets
<1>6. /\ e \in todo /\ e = <<"llm", s>>
  BY <1>1, EntryFacts DEF StepShape, Shaping, Placing, Typed
<1>7. /\ plan[s] = None /\ pdWants[s] = None
  BY <1>1, <1>6 DEF Typed, TickOK
<1>8. ViewOK(views[s]) /\ views[s] \in Held /\ HasLedger(views[s]) /\ WindowOK(Entry)
  BY <1>1, <1>5, ViewHeld, JudgedCR DEF SheetOK
<1> HIDE DEF e, s
<1>9. Forgotten(t) \/ SkippedOK(views[s], t) \/ JudgedPdOK(views[s], Entry, obs, ds, roles, t)
  BY <1>3, <1>4, <1>8, NoneFacts, StepPdFacts
<1>10. t.drop \in BOOLEAN /\ (t.drop => t.view = FreshView) /\ (~t.drop => ds # None /\ ~Forgotten(t))
  BY <1>3, <1>4, <1>8, ShapeFacts, DropForgets
<1>11. ~t.skip => JudgedPdOK(views[s], Entry, obs, ds, roles, t) /\ ds # None /\ ~t.drop
  BY <1>9, <1>10, ViewFresh, NoneFacts DEF Forgotten, SkippedOK, JudgedPdOK
<1>12. ViewOK(t.view) /\ (t.view.committed # None \/ t.drop)
  <2>1. CASE Forgotten(t)
    BY <1>10, <2>1, ViewFresh DEF Forgotten
  <2>2. CASE ~Forgotten(t)
    <3>1. t.view \in Held /\ t.view.committed \in Shapes /\ Continues(views[s], t.view)
      BY <1>9, <2>2 DEF SkippedOK, JudgedPdOK
    <3> QED BY <1>8, <3>1, ViewContinues, NoneFacts
  <2> QED BY <2>1, <2>2
<1>13. /\ plan \in [Services -> PlanEntry \cup {None}]
       /\ pdWants \in [Services -> [want : Shapes, booked : Shapes] \cup {None}]
       /\ DOMAIN views = Services /\ DOMAIN specs = Services
  BY DEF Typed, TickOK, Accounted, BooksKept, Books
<1> DEFINE entry == IF t.skip THEN None ELSE [want |-> t.want, booked |-> t.view.committed]
           spec == IF t.drop THEN None ELSE ds
<1>14. /\ entry # None => entry \in [want : Shapes, booked : Shapes]
       /\ ShapeOK(t.view, spec, entry, Entry)
  <2>1. CASE t.skip
    BY <2>1 DEF ShapeOK
  <2>2. CASE ~t.skip
    <3>1. JudgedPdOK(views[s], Entry, obs, ds, roles, t) /\ ds # None /\ spec = ds
      BY <1>11, <2>2
    <3>2. /\ entry \in [want : Shapes, booked : Shapes]
          /\ entry.booked = t.view.committed /\ entry.want = t.want
          /\ Publishable(t.view.committed, Bounds(Entry), ds)
          /\ Publishable(t.want, Bounds(Entry), ds)
      BY <2>2, <3>1, JudgedPublishable
    <3> HIDE DEF entry, spec
    <3> QED BY <1>1, <3>1, <3>2 DEF ShapeOK
  <2> QED BY <2>1, <2>2
<1>15. /\ views'[s] = t.view /\ specs'[s] = spec /\ pdWants'[s] = entry
       /\ \A x \in Services \ {s} : /\ views'[x] = views[x] /\ specs'[x] = specs[x]
                                    /\ pdWants'[x] = pdWants[x]
  BY <1>1, <1>2, <1>7, <1>10, <1>13 DEF Resolved
<1>16. pdWants' \in [Services -> [want : Shapes, booked : Shapes] \cup {None}]
  BY <1>1, <1>2, <1>13, <1>14
<1> HIDE DEF entry, spec
<1>17. spec \in Sets \cup {None}
  BY DEF spec
<1>18. SheetOK(views'[s], specs'[s], plan[s], pdWants'[s], crs["llm"][s])
  BY <1>1, <1>7, <1>12, <1>14, <1>15, <1>17 DEF SheetOK, PlanOK
<1>19. past' \in [real : BOOLEAN, steady : SUBSET past.steady] /\ (t.drop => s \notin past'.steady)
  BY <1>2, <1>10 DEF Typed, SteadyOK
<1>20. /\ Stepping /\ UNCHANGED <<store, pc, crs, capacity, largest, served, ticked, plan>>
       /\ todo' = todo \ {e} /\ e = FirstEntry /\ s = e[2]
  BY DEF StepShape, Shaping, Placing, e, s
<1> QED BY <1>12, <1>13, <1>15, <1>16, <1>18, <1>19, <1>20, TypedStep

LEMMA TypedOptedOut ==
  ASSUME Typed, Accounted', StepOptedOut
  PROVE  Typed'
<1> DEFINE e == FirstEntry
           s == FirstEntry[2]
<1>1. /\ Stepping /\ UNCHANGED <<store, pc, crs, capacity, largest, served, ticked, plan, pdWants, past>>
      /\ todo' = todo \ {e} /\ OptedOut(Entry)
      /\ views' = [views EXCEPT ![s] = FreshView] /\ specs' = [specs EXCEPT ![s] = None]
  BY DEF StepOptedOut
<1>2. /\ e[1] \in Kinds /\ s \in Services /\ crs[e[1]][s] # None
  BY <1>1, EntryFacts DEF Typed
<1>3. SheetOK(views[s], specs[s], plan[s], pdWants[s], crs["llm"][s])
  BY <1>2 DEF Typed, Sheets
<1>4. SheetOK(FreshView, None, plan[s], pdWants[s], crs["llm"][s])
  BY <1>3, ViewFresh DEF SheetOK, PlanOK, ShapeOK
<1>5. s \notin past.steady
  <2>1. Entry = crs[e[1]][s] /\ pc = "step"
    BY <1>1 DEF Entry, Stepping
  <2>2. s \notin ManagedIn(crs)
    BY <1>1, <1>2, <2>1 DEF ManagedIn
  <2> QED BY <2>1, <2>2 DEF Typed, SteadyOK
<1>6. /\ plan \in [Services -> PlanEntry \cup {None}]
      /\ pdWants \in [Services -> [want : Shapes, booked : Shapes] \cup {None}]
      /\ DOMAIN views = Services /\ DOMAIN specs = Services
      /\ past \in [real : BOOLEAN, steady : SUBSET past.steady]
  BY DEF Typed, TickOK, Accounted, BooksKept, Books, SteadyOK
<1>7. /\ views'[s] = FreshView /\ specs'[s] = None
      /\ \A x \in Services \ {s} : views'[x] = views[x] /\ specs'[x] = specs[x]
  BY <1>1, <1>2, <1>6
<1>8. e = FirstEntry /\ s = e[2]
  OBVIOUS
<1> HIDE DEF e, s
<1> QED BY <1>1, <1>4, <1>5, <1>6, <1>7, <1>8, TypedStep

LEMMA TypedUnplaced ==
  ASSUME Typed, Accounted', StepUnplaced
  PROVE  Typed'
<1> DEFINE e == FirstEntry
           s == FirstEntry[2]
<1>1. /\ Stepping /\ todo' = todo \ {e}
      /\ UNCHANGED <<store, pc, crs, capacity, largest, served, ticked, plan, pdWants, past, views, specs>>
  BY DEF StepUnplaced, Placing, ledger
<1>2. e \in todo /\ e[1] \in Kinds /\ s \in Services /\ (e[1] = "job" => \A f \in todo : f[1] = "job")
  BY <1>1, EntryFacts DEF Typed
<1> HIDE DEF e, s
<1>3. TickOK'
  BY <1>1 DEF Typed, TickOK, CRsOK, Stepping
<1>4. Sheets' /\ SteadyOK'
  BY <1>1 DEF Typed, Sheets, SteadyOK
<1> QED BY <1>1, <1>3, <1>4 DEF Typed

(***************************************************************************)
(* Capacity.                                                               *)
(***************************************************************************)
LEMMA GpusType ==
  ASSUME NEW nodes \in Clusters, NEW S \in SUBSET DOMAIN nodes
  PROVE  GpusOf(nodes, S) \in Nat
<1> DEFINE f == [i \in S |-> nodes[i].gpus]
<1>1. IsFiniteSet(S) /\ \A i \in S : f[i] \in Nat
  <2>1. IsFiniteSet(DOMAIN nodes) /\ \A i \in DOMAIN nodes : nodes[i] \in Node
    BY ControllerAssumption
  <2> QED BY <2>1, FS_Subset DEF Node
<1>2. GpusOf(nodes, S) = SumOver(f, S)
  BY DEF GpusOf
<1> HIDE DEF f
<1> QED BY <1>1, <1>2, SumNat

LEMMA CapacityType ==
  ASSUME NEW nodes \in Clusters, NEW p
  PROVE  PoolCapacity(nodes, p) \in Nat /\ Inventory(nodes, p) \in Nat
BY GpusType DEF PoolCapacity, Inventory

\* The pools of a cluster are finitely many numbers.
LEMMA UsablePools ==
  ASSUME NEW nodes \in Clusters
  PROVE  IsFiniteSet(Usable(nodes)) /\ Usable(nodes) \subseteq Nat /\ Usable(nodes) \subseteq Pools
<1>1. IsFiniteSet(DOMAIN nodes) /\ \A i \in DOMAIN nodes : nodes[i].pool \in Nat
  BY ControllerAssumption DEF Node
<1>2. IsFiniteSet(PoolsOf(nodes))
  <2> DEFINE f == [i \in DOMAIN nodes |-> nodes[i].pool]
  <2>1. f \in Surjection(DOMAIN nodes, PoolsOf(nodes))
    BY DEF PoolsOf, Surjection
  <2> QED BY <1>1, <2>1, FS_Surjection
<1>3. PoolsOf(nodes) \subseteq Nat /\ PoolsOf(nodes) \subseteq Pools
  BY <1>1, ClusterAssumption DEF PoolsOf, Pools
<1> QED BY <1>2, <1>3, FS_Subset DEF Usable

\* One pool is the largest, by GPUs and then by name.
IsLargest(nodes, p) ==
  /\ p \in Usable(nodes)
  /\ \A q \in Usable(nodes) :
       \/ Inventory(nodes, p) > Inventory(nodes, q)
       \/ Inventory(nodes, p) = Inventory(nodes, q) /\ p <= q

LEMMA LargestFacts ==
  ASSUME NEW nodes \in Clusters, Usable(nodes) # {}
  PROVE  /\ IsLargest(nodes, Largest(nodes))
         /\ \A p : IsLargest(nodes, p) => p = Largest(nodes)
<1> DEFINE S == Usable(nodes)
           f == [p \in S |-> Inventory(nodes, p)]
           g == [p \in S |-> p]
<1>1. IsFiniteSet(S) /\ S # {} /\ S \subseteq Nat
  BY UsablePools
<1>2. \A p \in S : Inventory(nodes, p) \in Nat
  BY CapacityType
<1>3. \E p : IsLargest(nodes, p)
  <2>1. f \in [S -> Int] /\ g \in [S -> Nat]
    BY <1>1, <1>2
  <2>2. (\A p \in S : f[p] = Inventory(nodes, p) /\ g[p] = p)
    OBVIOUS
  <2> HIDE DEF f, g, S
  <2>3. \E p \in S : \A q \in S : f[p] > f[q] \/ (f[p] = f[q] /\ g[p] <= g[q])
    BY <1>1, <2>1, LexFirst
  <2> QED BY <2>2, <2>3 DEF IsLargest, S
<1>4. Largest(nodes) = CHOOSE p \in S : \A q \in S :
        \/ Inventory(nodes, p) > Inventory(nodes, q)
        \/ Inventory(nodes, p) = Inventory(nodes, q) /\ p <= q
  BY DEF Largest
<1>5. IsLargest(nodes, Largest(nodes))
  BY <1>3, <1>4 DEF IsLargest
<1>6. ASSUME NEW p, NEW q, IsLargest(nodes, p), IsLargest(nodes, q)
      PROVE  p = q
  <2>1. p \in Nat /\ q \in Nat /\ Inventory(nodes, p) \in Nat /\ Inventory(nodes, q) \in Nat
    BY <1>1, <1>2, <1>6 DEF IsLargest
  <2> QED BY <1>6, <2>1 DEF IsLargest
<1> QED BY <1>5, <1>6

LEMMA RefreshedType ==
  ASSUME NEW nodes \in Clusters, NEW last \in Pools \cup {NoPool}
  PROVE  Refreshed(nodes, last) \in Pools \cup {NoPool}
BY LargestFacts, UsablePools DEF Refreshed, IsLargest

\* Every service has a pool.
LEMMA PoolOfType ==
  ASSUME Typed, NEW s \in Services
  PROVE  PoolOf(s) \in Pools
BY ClusterAssumption DEF Typed, TickOK, PoolOf, DefaultPool, Pools

(***************************************************************************)
(* Allotment.                                                              *)
(***************************************************************************)
AnswerOf(p) == Allocate(Call(p))

AllocOf == [s \in Contenders |-> AnswerOf(PoolOf(s))[s]]

GrantedNow == UNION {Granted(p, Leftover(Call(p), AnswerOf(p))) : p \in Pools}

LEMMA PublishSteps ==
  ASSUME Typed, AllotAndPublish
  PROVE  /\ pc = "step" /\ todo = {} /\ ~CurrencyClash
         /\ views' = Committed(AllocOf, GrantedNow)
         /\ served' = [s \in Services |-> Row(views'[s].committed, specs[s])]
         /\ past' = [past EXCEPT !.real = TRUE,
                       !.steady = {s \in ManagedIn(crs) : views'[s].committed # None}]
         /\ EndTick /\ UNCHANGED <<store, largest, specs, ticked>>
<1> DEFINE answer == [p \in Pools |-> Allocate(Call(p))]
           alloc == [s \in Contenders |-> answer[PoolOf(s)][s]]
           granted == UNION {Granted(p, Leftover(Call(p), answer[p])) : p \in Pools}
<1>1. \A p \in Pools : answer[p] = AnswerOf(p)
  BY DEF AnswerOf
<1>2. /\ views' = Committed(alloc, granted)
      /\ served' = [s \in Services |-> Row(Committed(alloc, granted)[s].committed, specs[s])]
      /\ past' = [past EXCEPT !.real = TRUE,
                    !.steady = {s \in ManagedIn(crs) : Committed(alloc, granted)[s].committed # None}]
      /\ pc = "step" /\ todo = {} /\ ~CurrencyClash
      /\ EndTick /\ UNCHANGED <<store, largest, specs, ticked>>
  BY DEF AllotAndPublish
<1>3. alloc = AllocOf
  <2>1. \A s \in Contenders : PoolOf(s) \in Pools
    BY PoolOfType DEF Contenders
  <2> HIDE DEF answer
  <2> QED BY <1>1, <2>1 DEF AllocOf
<1>4. granted = GrantedNow
  <2> HIDE DEF answer
  <2> QED BY <1>1 DEF GrantedNow
<1> HIDE DEF alloc, granted
<1> QED BY <1>2, <1>3, <1>4

LEMMA ServicesTop ==
  ASSUME Services # {}
  PROVE  Max(Services) \in Nat /\ \A s \in Services : s <= Max(Services)
<1> DEFINE f == [s \in Services |-> s]
<1>1. f \in [Services -> Int] /\ IsFiniteSet(Services)
  BY ServicesAreNumbers
<1>2. PICK k \in Services : \A j \in Services : f[k] >= f[j]
  BY <1>1, FiniteArgMax
<1>3. \A j \in Services : k >= j
  BY <1>2
<1>4. Max(Services) \in Services /\ \A j \in Services : Max(Services) >= j
  BY <1>3 DEF Max
<1> QED BY <1>4, ServicesAreNumbers

\* What the tick has judged is what the planner may be asked.
LEMMA PlannedType ==
  ASSUME Typed, NEW s \in Contenders
  PROVE  /\ s \in Services /\ s \in Nat /\ plan[s] \in PlanEntry
         /\ plan[s].bounds.lo <= plan[s].bounds.hi
         /\ ~HasShape(views[s]) /\ ViewOK(views[s])
         /\ Gpr[s] \in Nat \ {0}
<1>1. s \in Services /\ plan[s] # None
  BY DEF Contenders
<1>2. SheetOK(views[s], specs[s], plan[s], pdWants[s], crs["llm"][s])
  BY <1>1 DEF Typed, Sheets
<1> QED BY <1>1, <1>2, ControllerAssumption DEF SheetOK, PlanOK

LEMMA JudgedShapeType ==
  ASSUME Typed, NEW s \in PdContenders
  PROVE  /\ s \in Services /\ s \in Nat
         /\ pdWants[s].want \in Shapes /\ pdWants[s].booked \in Shapes
         /\ ShapeOK(views[s], specs[s], pdWants[s], crs["llm"][s]) /\ pdWants[s] # None
         /\ ViewOK(views[s])
<1>1. s \in Services /\ pdWants[s] # None
  BY DEF PdContenders
<1>2. SheetOK(views[s], specs[s], plan[s], pdWants[s], crs["llm"][s])
  BY <1>1 DEF Typed, Sheets
<1>3. ShapeOK(views[s], specs[s], pdWants[s], crs["llm"][s]) /\ ViewOK(views[s])
  BY <1>2 DEF SheetOK
<1>4. pdWants[s] \in [want : Shapes, booked : Shapes]
  BY <1>1, <1>3 DEF ShapeOK
<1> QED BY <1>1, <1>3, <1>4, ServicesAreNumbers

LEMMA MembersFinite ==
  ASSUME NEW p
  PROVE  /\ IsFiniteSet(Members(p)) /\ Members(p) \subseteq Contenders
         /\ IsFiniteSet(PdMembers(p)) /\ PdMembers(p) \subseteq PdContenders
         /\ Members(p) \subseteq Services /\ PdMembers(p) \subseteq Services
<1>1. /\ Members(p) \subseteq Services /\ PdMembers(p) \subseteq Services
      /\ Members(p) \subseteq Contenders /\ PdMembers(p) \subseteq PdContenders
  BY DEF Members, PdMembers, Contenders, PdContenders
<1> QED BY <1>1, FS_Subset, ServicesAreNumbers

LEMMA GpuCostType ==
  ASSUME NEW shape \in Shapes, NEW s \in Services
  PROVE  ShapeGpuCost(shape, Group[s]) \in Nat
<1>1. Group[s]["prefill"] \in Nat /\ Group[s]["decode"] \in Nat
  BY ControllerAssumption DEF Roles
<1>2. shape.prefill \in Nat /\ shape.decode \in Nat
  BY DEF Shapes
<1> QED BY <1>1, <1>2 DEF ShapeGpuCost

LEMMA BookedType ==
  ASSUME Typed, NEW p
  PROVE  Booked(Members(p)) \in Nat /\ PdBooked(PdMembers(p)) \in Nat
<1> DEFINE M == Members(p)
           D == PdMembers(p)
           f == [s \in M |-> plan[s].booked * Gpr[s]]
           g == [s \in D |-> ShapeGpuCost(pdWants[s].booked, Group[s])]
<1>1. IsFiniteSet(M) /\ IsFiniteSet(D) /\ M \subseteq Contenders /\ D \subseteq PdContenders
  BY MembersFinite
<1>2. \A s \in M : f[s] \in Nat
  <2>1. \A s \in M : plan[s].booked \in Nat /\ Gpr[s] \in Nat
    BY <1>1, PlannedType DEF PlanEntry
  <2> HIDE DEF M
  <2> QED BY <2>1
<1>3. \A s \in D : g[s] \in Nat
  BY <1>1, JudgedShapeType, GpuCostType
<1>4. Booked(M) = SumOver(f, M) /\ PdBooked(D) = SumOver(g, D)
  BY DEF Booked, PdBooked
<1> HIDE DEF f, g, M, D
<1>5. SumOver(f, M) \in Nat /\ SumOver(g, D) \in Nat
  BY <1>1, <1>2, <1>3, SumNat
<1> QED BY <1>4, <1>5 DEF M, D

LEMMA CallWellFormed ==
  ASSUME Typed, NEW p \in Pools
  PROVE  WellFormed(Call(p)) /\ Call(p).members = Members(p)
<1> DEFINE M == Members(p)
           pos == [s \in M |-> IF plan[s].kind = "llm" THEN s ELSE Max(Services) + 1 + s]
<1>1. /\ IsFiniteSet(M)
      /\ \A s \in M : /\ s \in Services /\ s \in Nat /\ plan[s] \in PlanEntry /\ Gpr[s] \in Nat \ {0}
                      /\ plan[s].bounds.lo <= plan[s].bounds.hi
  BY MembersFinite, PlannedType
<1>2. capacity[p] - Booked(M) - PdBooked(PdMembers(p)) \in Int
  <2>1. capacity[p] \in Nat /\ Booked(M) \in Nat /\ PdBooked(PdMembers(p)) \in Nat
    BY BookedType DEF Typed, TickOK
  <2> HIDE DEF M
  <2> QED BY <2>1
<1>3. pos \in [M -> Nat] /\ \A k, j \in M : pos[k] = pos[j] => k = j
  <2>1. \A s \in M : s \in Nat /\ Max(Services) \in Nat /\ s <= Max(Services)
    BY <1>1, ServicesTop
  <2> HIDE DEF M
  <2> QED BY <2>1
<1>4. Call(p) = [members |-> M,
       want    |-> [s \in M |-> plan[s].want],
       current |-> [s \in M |-> plan[s].booked],
       gpr     |-> [s \in M |-> Gpr[s]],
       lo      |-> [s \in M |-> plan[s].bounds.lo],
       hi      |-> [s \in M |-> plan[s].bounds.hi],
       prio    |-> [s \in M |-> plan[s].prio],
       pos     |-> pos,
       gap     |-> capacity[p] - Booked(M) - PdBooked(PdMembers(p))]
  BY DEF Call
<1> HIDE DEF M, pos
<1>5. \A s \in M : /\ plan[s].want \in Nat /\ plan[s].booked \in Nat /\ plan[s].prio \in Int
                   /\ plan[s].bounds.lo \in Nat /\ plan[s].bounds.hi \in Nat
  BY <1>1 DEF PlanEntry
<1>6. /\ Call(p).members = M /\ Call(p).gap \in Int /\ M \subseteq Nat
      /\ Call(p).want \in [M -> Int] /\ Call(p).current \in [M -> Nat]
      /\ Call(p).gpr \in [M -> Nat \ {0}]
      /\ Call(p).lo \in [M -> Nat] /\ Call(p).hi \in [M -> Nat]
      /\ \A k \in M : Call(p).lo[k] <= Call(p).hi[k]
      /\ Call(p).prio \in [M -> Int] /\ Call(p).pos = pos
  BY <1>1, <1>2, <1>4, <1>5
<1>7. WellFormed(Call(p))
  BY <1>1, <1>3, <1>6 DEF WellFormed
<1> QED BY <1>6, <1>7 DEF M

\* The planner's answer is in every member's window.
LEMMA AnswerType ==
  ASSUME Typed, NEW p \in Pools
  PROVE  /\ \E f : Orderly(Call(p), f) /\ AnswerOf(p) = f.alloc
         /\ AnswerOf(p) \in [Members(p) -> Nat]
         /\ \A s \in Members(p) : AnswerOf(p)[s] \in plan[s].bounds.lo .. plan[s].bounds.hi
<1>1. WellFormed(Call(p)) /\ Call(p).members = Members(p)
  BY CallWellFormed
<1>2. PICK f : Orderly(Call(p), f) /\ AnswerOf(p) = f.alloc
  BY <1>1, AllocateEnds DEF AnswerOf
<1>3. f.alloc \in [Members(p) -> Nat] /\ InWindows(Call(p), f)
  BY <1>1, <1>2 DEF Orderly, Sound, Frame
<1>4. ASSUME NEW s \in Members(p)
      PROVE  AnswerOf(p)[s] \in plan[s].bounds.lo .. plan[s].bounds.hi
  <2>1. /\ Call(p).lo[s] = plan[s].bounds.lo /\ Call(p).hi[s] = plan[s].bounds.hi
    BY DEF Call
  <2>2. /\ Call(p).lo[s] <= AnswerOf(p)[s] /\ AnswerOf(p)[s] <= WantClamped(Call(p), s)
        /\ AnswerOf(p)[s] \in Nat
    BY <1>1, <1>2, <1>3, <1>4 DEF InWindows
  <2>3. /\ Call(p).lo[s] \in Nat /\ Call(p).hi[s] \in Nat /\ Call(p).lo[s] <= Call(p).hi[s]
        /\ Call(p).want[s] \in Int
    BY <1>1 DEF WellFormed
  <2>4. WantClamped(Call(p), s) <= Call(p).hi[s] /\ WantClamped(Call(p), s) \in Int
    BY <2>3 DEF WantClamped, Larger, Smaller
  <2> QED BY <2>1, <2>2, <2>3, <2>4
<1> QED BY <1>2, <1>3, <1>4

LEMMA AllocType ==
  ASSUME Typed, NEW s \in Contenders
  PROVE  /\ PoolOf(s) \in Pools /\ s \in Members(PoolOf(s))
         /\ AllocOf[s] = AnswerOf(PoolOf(s))[s]
         /\ AllocOf[s] \in Nat /\ AllocOf[s] \in plan[s].bounds.lo .. plan[s].bounds.hi
<1>1. PoolOf(s) \in Pools /\ s \in Members(PoolOf(s))
  BY PoolOfType, PlannedType DEF Members
<1> QED BY <1>1, AnswerType DEF AllocOf

LEMMA GrantedJudged == GrantedNow \subseteq PdContenders
BY DEF GrantedNow, Granted, PdMembers

\* What the ledger holds of a service once the tick has committed.
LEMMA AfterFacts ==
  ASSUME Typed, NEW s \in Services
  PROVE  LET v == Committed(AllocOf, GrantedNow)[s]
         IN  /\ ViewOK(v)
             /\ HasShape(v) <=> HasShape(views[s])
             /\ v.committed = None <=> views[s].committed = None
             /\ s \in Contenders /\ HasCount(views[s]) => v.committed = [replicas |-> AllocOf[s]]
             /\ s \in PdContenders /\ HasShape(views[s]) =>
                  /\ s \in GrantedNow => v.committed = pdWants[s].want
                  /\ s \notin GrantedNow => v.committed = pdWants[s].booked
<1> DEFINE v == Committed(AllocOf, GrantedNow)[s]
<1>1. ViewOK(views[s]) /\ views[s].committed \in Ledgers \cup {None}
  BY DEF Typed, Sheets, SheetOK, ViewOK
<1>2. ~(HasShape(views[s]) /\ HasCount(views[s]))
  BY <1>1, Currencies
<1>3. CASE s \in GrantedNow /\ HasShape(views[s])
  <2>1. s \in PdContenders /\ pdWants[s].want \in Shapes /\ pdWants[s].want \in Ledgers
    BY <1>3, GrantedJudged, JudgedShapeType DEF Ledgers
  <2>2. v = Commit(views[s], pdWants[s].want)
    BY <1>3 DEF Committed
  <2> HIDE DEF v
  <2>3. ViewOK(v) /\ v.committed = pdWants[s].want
    BY <1>1, <2>1, <2>2, ViewCommit
  <2>4. HasShape(v) /\ v.committed # None /\ views[s].committed # None
    BY <1>3, <2>1, <2>3, NoneFacts, Currencies DEF HasShape
  <2> QED BY <1>2, <1>3, <2>3, <2>4 DEF v
<1>4. CASE ~(s \in GrantedNow /\ HasShape(views[s])) /\ s \in Contenders /\ HasCount(views[s])
  <2> DEFINE x == [replicas |-> AllocOf[s]]
  <2>1. x \in [replicas : Nat] /\ x \in Ledgers
    BY <1>4, AllocType DEF Ledgers
  <2>2. v = Commit(views[s], x)
    BY <1>4 DEF Committed
  <2> HIDE DEF v, x
  <2>3. ViewOK(v) /\ v.committed = x
    BY <1>1, <2>1, <2>2, ViewCommit
  <2>4. ~HasShape(v) /\ v.committed # None /\ views[s].committed # None
    BY <1>4, <2>1, <2>3, NoneFacts, Currencies DEF HasCount
  <2> QED BY <1>2, <1>4, <2>3, <2>4 DEF v, x
<1>5. CASE ~(s \in GrantedNow /\ HasShape(views[s])) /\ ~(s \in Contenders /\ HasCount(views[s]))
  <2>1. v = views[s]
    BY <1>5 DEF Committed
  <2>2. s \in PdContenders /\ HasShape(views[s]) => views[s].committed = pdWants[s].booked
    BY JudgedShapeType DEF ShapeOK
  <2> HIDE DEF v
  <2> QED BY <1>1, <1>5, <2>1, <2>2 DEF v
<1> QED BY <1>3, <1>4, <1>5

LEMMA RowType ==
  ASSUME Typed, NEW s \in Services, NEW c \in Ledgers \cup {None}, c \in Shapes => specs[s] # None
  PROVE  /\ Row(c, specs[s]) \in Rows \cup {None}
         /\ Row(c, specs[s]) = None <=> c = None
         /\ c \in [replicas : Nat] => Row(c, specs[s]).active = c.replicas
         /\ c \in Shapes => /\ Row(c, specs[s]).shape = c
                            /\ Row(c, specs[s]).live = specs[s].shape
<1>1. CASE c = None
  BY <1>1, NoneFacts DEF Row, Ledgers
<1>2. CASE c \in [replicas : Nat]
  <2>1. Row(c, specs[s]) = [active |-> c.replicas] /\ c # None /\ c \notin Shapes
    BY <1>2, NoneFacts DEF Row, Ledgers, Shapes
  <2>2. Row(c, specs[s]) \in Rows
    BY <1>2, <2>1 DEF Rows
  <2> QED BY <1>2, <2>1, <2>2, NoneFacts
<1>3. CASE c \in Shapes
  <2>1. specs[s] \in [slices : Nat \ {0}, shape : Shapes]
    BY <1>3, ControllerAssumption DEF Typed, Sheets, SheetOK
  <2>2. /\ Row(c, specs[s]) = [active |-> IF Engines(c) > 0 THEN specs[s].slices ELSE 0,
                               shape |-> c, live |-> specs[s].shape]
        /\ c # None /\ c \notin [replicas : Nat]
    BY <1>3, NoneFacts DEF Row, Ledgers, Shapes
  <2>3. (IF Engines(c) > 0 THEN specs[s].slices ELSE 0) \in Nat
    BY <2>1
  <2>4. Row(c, specs[s]) \in Rows
    BY <1>3, <2>1, <2>2, <2>3 DEF Rows
  <2> QED BY <1>3, <2>2, <2>4, NoneFacts
<1> QED BY <1>1, <1>2, <1>3 DEF Ledgers

\* What is published is what the ledger then holds.
LEMMA PublishedRows ==
  ASSUME Typed, AllotAndPublish, NEW s \in Services
  PROVE  LET c == views'[s].committed
         IN  /\ c \in Ledgers \cup {None} /\ served'[s] = Row(c, specs[s])
             /\ c \in Shapes => specs[s] # None
             /\ served'[s] \in Rows \cup {None} /\ (served'[s] = None <=> c = None)
             /\ c \in [replicas : Nat] => served'[s].active = c.replicas
             /\ c \in Shapes => served'[s].shape = c /\ served'[s].live = specs[s].shape
<1> DEFINE c == views'[s].committed
<1>1. /\ views' = Committed(AllocOf, GrantedNow)
      /\ served'[s] = Row(c, specs[s])
  BY PublishSteps
<1>2. /\ ViewOK(views'[s])
      /\ HasShape(views'[s]) <=> HasShape(views[s])
  BY <1>1, AfterFacts
<1>3. c \in Ledgers \cup {None}
  BY <1>2 DEF ViewOK
<1>4. c \in Shapes => specs[s] # None
  <2>1. HasShape(views[s]) => specs[s] # None
    BY DEF Typed, Accounted, BooksKept, Books
  <2> QED BY <1>2, <1>3, <2>1, Currencies
<1> HIDE DEF c
<1> QED BY <1>1, <1>3, <1>4, RowType DEF c

LEMMA TypedPublish ==
  ASSUME Typed, Accounted', AllotAndPublish
  PROVE  Typed'
<1>1. /\ views' = Committed(AllocOf, GrantedNow)
      /\ served' = [s \in Services |-> Row(views'[s].committed, specs[s])]
      /\ past' = [past EXCEPT !.real = TRUE,
                    !.steady = {s \in ManagedIn(crs) : views'[s].committed # None}]
      /\ EndTick /\ UNCHANGED <<store, largest, specs, ticked>>
  BY PublishSteps
<1>2. \A s \in Services : ViewOK(views'[s])
  BY <1>1, AfterFacts
<1>3. \A s \in Services : specs'[s] \in Sets \cup {None}
  BY <1>1 DEF Typed, Sheets, SheetOK
<1>4. TickOK' /\ Sheets'
  BY <1>1, <1>2, <1>3, TypedEnd
<1>5. served' \in [Services -> Rows \cup {None}]
  BY <1>1, PublishedRows
<1>6. SteadyOK'
  <2>1. ManagedIn(crs) \subseteq Services
    BY DEF ManagedIn
  <2>2. pc' = "idle"
    BY <1>1 DEF EndTick
  <2> QED BY <1>1, <2>1, <2>2 DEF Typed, SteadyOK
<1> QED BY <1>1, <1>4, <1>5, <1>6 DEF Typed

(***************************************************************************)
(* Every step.                                                             *)
(***************************************************************************)
\* Before its first entry a tick has judged nothing.
LEMMA TypedBefore ==
  ASSUME Typed, Accounted', pc # "step", CRsOK(store)', CRsOK(crs)',
         pc' \in {"idle", "jobs", "capacity", "step"},
         capacity' \in [Pools -> Nat], largest' \in Pools \cup {NoPool}, UNCHANGED <<plan, pdWants>>,
         \A s \in Services : ViewOK(views'[s]) /\ specs'[s] \in Sets \cup {None}
  PROVE  TickOK' /\ Sheets'
<1>1. plan = NoPlan /\ pdWants = NoPlan
  BY DEF Typed, TickOK
<1>2. TickOK'
  BY <1>1 DEF TickOK, NoPlan
<1>3. Sheets'
  BY <1>1, BlankSheet DEF Sheets, NoPlan
<1> QED BY <1>2, <1>3

\* What an edit of a store, the clock and the start of a tick leave.
LEMMA TypedOutside ==
  ASSUME Typed, Accounted',
         \/ \E s \in Services : \E c \in CRs[s] : Write(s, c)
         \/ \E k \in Kinds, s \in Services : Delete(k, s)
         \/ Pass \/ TickStart
  PROVE  Typed'
<1>1. /\ pc \in {"idle", "jobs"} /\ CRsOK(store) /\ CRsOK(crs)
      /\ UNCHANGED <<plan, pdWants, capacity, largest, specs, served, past>>
  BY DEF Write, Delete, Unread, Pass, TickStart, tickVars, ledger, Typed, TickOK
<1>2. CRsOK(store)'
  <2>1. ASSUME NEW s \in Services, NEW c \in CRs[s], Write(s, c) PROVE CRsOK(store)'
    <3>1. c \in AnyCR /\ c.kind \in Kinds /\ store' = [store EXCEPT ![c.kind][s] = c]
      BY <2>1, ControllerAssumption DEF Write, AnyCR
    <3> QED BY <1>1, <3>1 DEF CRsOK
  <2>2. ASSUME NEW k \in Kinds, NEW s \in Services, Delete(k, s) PROVE CRsOK(store)'
    <3>1. store' = [store EXCEPT ![k][s] = None]
      BY <2>2 DEF Delete
    <3> QED BY <1>1, <3>1 DEF CRsOK
  <2> QED BY <1>1, <2>1, <2>2 DEF Pass, TickStart
<1>3. CRsOK(crs)' /\ pc' \in {"idle", "jobs"}
  <2>1. CASE TickStart
    <3>1. crs' = [NoCRs EXCEPT !["llm"] = store["llm"]] /\ pc' = "jobs"
      BY <2>1 DEF TickStart
    <3> QED BY <1>1, <3>1, BlankCRs DEF CRsOK, NoCRs, Kinds
  <2> QED BY <1>1, <2>1 DEF Write, Delete, Pass, tickVars
<1>4. \A s \in Services : /\ ViewOK(views[s]) /\ specs[s] \in Sets \cup {None}
                         /\ ViewOK(views'[s]) /\ views'[s].committed = views[s].committed
  <2>1. \A s \in Services : ViewOK(views[s]) /\ specs[s] \in Sets \cup {None}
    BY DEF Typed, Sheets, SheetOK
  <2>2. CASE Pass
    BY <2>1, <2>2, ViewAged DEF Pass
  <2> QED BY <2>1, <2>2 DEF Write, Delete, TickStart, ledger
<1>5. TickOK' /\ Sheets'
  BY <1>1, <1>2, <1>3, <1>4, TypedBefore DEF Typed, TickOK
<1>6. SteadyOK'
  BY <1>1, <1>3, <1>4 DEF Typed, SteadyOK
<1>7. ticked' \in BOOLEAN
  BY DEF Typed, Write, Delete, Pass, TickStart
<1> QED BY <1>1, <1>5, <1>6, <1>7 DEF Typed

LEMMA TypedSnapshot ==
  ASSUME Typed, Accounted', SnapshotJobs
  PROVE  Typed'
<1> DEFINE snapshot == [crs EXCEPT !["job"] = store["job"]]
<1>1. /\ pc = "jobs" /\ CRsOK(store) /\ CRsOK(crs) /\ UNCHANGED <<store, largest, ticked>>
      /\ views' = Pruned(snapshot, views, FreshView) /\ specs' = Pruned(snapshot, specs, None)
  BY DEF SnapshotJobs, Typed, TickOK
<1>2. CRsOK(snapshot)
  BY <1>1 DEF CRsOK, Kinds
<1> HIDE DEF snapshot
<1>3. /\ \A s \in Services : ViewOK(views'[s]) /\ specs'[s] \in Sets \cup {None}
      /\ \A s \in Live(snapshot) : s \in Services /\ views'[s] = views[s]
  <2>1. \A s \in Services : ViewOK(views[s]) /\ specs[s] \in Sets \cup {None}
    BY DEF Typed, Sheets, SheetOK
  <2> QED BY <1>1, <2>1, ViewFresh DEF Pruned, Live
<1>4. CASE Live(snapshot) = {}
  <2>1. /\ served' = NoRows /\ past' = [past EXCEPT !.real = TRUE, !.steady = {}] /\ EndTick
    BY <1>4 DEF SnapshotJobs, snapshot
  <2>2. TickOK' /\ Sheets'
    BY <1>1, <1>3, <2>1, TypedEnd
  <2>3. SteadyOK' /\ served' \in [Services -> Rows \cup {None}] /\ ticked' \in BOOLEAN
    BY <1>1, <2>1 DEF Typed, SteadyOK, NoRows
  <2> QED BY <2>2, <2>3 DEF Typed
<1>5. CASE Live(snapshot) # {}
  <2>1. /\ pc' = "capacity" /\ crs' = snapshot /\ UNCHANGED <<served, capacity, plan, pdWants>>
        /\ past' = [past EXCEPT !.steady = @ \cap ManagedIn(snapshot)]
    BY <1>5 DEF SnapshotJobs, snapshot
  <2>2. TickOK' /\ Sheets'
    <3>1. capacity' \in [Pools -> Nat] /\ largest' \in Pools \cup {NoPool}
      BY <1>1, <2>1 DEF Typed, TickOK
    <3>2. CRsOK(store)' /\ CRsOK(crs)'
      BY <1>1, <1>2, <2>1 DEF CRsOK
    <3> QED BY <1>1, <1>3, <2>1, <3>1, <3>2, TypedBefore
  <2>3. SteadyOK'
    <3>1. ManagedIn(snapshot) \subseteq Live(snapshot)
      BY DEF ManagedIn
    <3>2. /\ past'.steady = past.steady \cap ManagedIn(snapshot)
          /\ past' \in [real : BOOLEAN, steady : SUBSET Services]
          /\ \A s \in past.steady : views[s].committed # None
      BY <2>1 DEF Typed, SteadyOK
    <3> QED BY <1>3, <2>1, <3>1, <3>2 DEF SteadyOK
  <2> QED BY <1>1, <2>1, <2>2, <2>3 DEF Typed
<1> QED BY <1>4, <1>5

LEMMA TypedCapacity ==
  ASSUME Typed, Accounted', NEW nodes \in Clusters, ReadCapacity(nodes)
  PROVE  Typed'
<1>1. /\ pc = "capacity" /\ pc' = "step"
      /\ capacity' = [p \in Pools |-> PoolCapacity(nodes, p)] /\ largest' = Refreshed(nodes, largest)
      /\ UNCHANGED <<store, crs, todo, plan, pdWants, views, specs, served, ticked, past>>
  BY DEF ReadCapacity, ledger
<1>2. /\ capacity' \in [Pools -> Nat]
      /\ largest' \in Pools \cup {NoPool}
  BY <1>1, CapacityType, RefreshedType DEF Typed, TickOK
<1>3. CRsOK(store)' /\ CRsOK(crs)'
  BY <1>1 DEF Typed, TickOK, CRsOK
<1>4. \A s \in Services : ViewOK(views'[s]) /\ specs'[s] \in Sets \cup {None}
  BY <1>1 DEF Typed, Sheets, SheetOK
<1>5. TickOK' /\ Sheets'
  BY <1>1, <1>2, <1>3, <1>4, TypedBefore
<1>6. SteadyOK'
  BY <1>1 DEF Typed, SteadyOK
<1> QED BY <1>1, <1>5, <1>6 DEF Typed

LEMMA TypedAbort ==
  ASSUME Typed, Accounted', Abort
  PROVE  Typed'
<1>1. EndTick /\ UNCHANGED <<store, largest, views, specs, served, ticked, past>>
  BY DEF Abort, ledger
<1>2. \A s \in Services : ViewOK(views'[s]) /\ specs'[s] \in Sets \cup {None}
  BY <1>1 DEF Typed, Sheets, SheetOK
<1>3. TickOK' /\ Sheets'
  BY <1>1, <1>2, TypedEnd
<1>4. SteadyOK'
  BY <1>1 DEF Typed, SteadyOK, EndTick
<1> QED BY <1>1, <1>3, <1>4 DEF Typed

LEMMA TypedStill ==
  ASSUME Typed, Accounted', UNCHANGED vars
  PROVE  Typed'
<1>1. UNCHANGED <<store, pc, crs, todo, capacity, plan, pdWants, largest, views, specs, served, ticked, past>>
  BY DEF vars, tickVars, ledger
<1>2. TickOK'
  BY <1>1 DEF Typed, TickOK, CRsOK
<1>3. Sheets' /\ SteadyOK'
  BY <1>1 DEF Typed, Sheets, SteadyOK
<1> QED BY <1>1, <1>2, <1>3 DEF Typed

LEMMA TypedNext == Typed /\ [Next]_vars => Typed'
<1> SUFFICES ASSUME Typed, [Next]_vars PROVE Typed'
  OBVIOUS
<1>1. Accounted'
  BY AccountedNext DEF Typed
<1>2. CASE \/ \E s \in Services : \E c \in CRs[s] : Write(s, c)
           \/ \E k \in Kinds, s \in Services : Delete(k, s)
           \/ Pass \/ TickStart
  BY <1>1, <1>2, TypedOutside
<1>3. CASE SnapshotJobs
  BY <1>1, <1>3, TypedSnapshot
<1>4. CASE \E nodes \in Clusters : ReadCapacity(nodes)
  BY <1>1, <1>4, TypedCapacity
<1>5. CASE CapacityFails \/ PlacementFails \/ AllotCrashes
  BY <1>1, <1>5, TypedAbort DEF CapacityFails, PlacementFails, AllotCrashes
<1>6. CASE StepOptedOut \/ StepUnplaced \/ StepService
  BY <1>1, <1>6, TypedOptedOut, TypedUnplaced, TypedService
<1>7. CASE \E ds \in Sets : StepShape(ds)
  BY <1>1, <1>7, TypedShape
<1>8. CASE AllotAndPublish
  BY <1>1, <1>8, TypedPublish
<1>9. CASE UNCHANGED vars
  BY <1>1, <1>9, TypedStill
<1> QED BY <1>2, <1>3, <1>4, <1>5, <1>6, <1>7, <1>8, <1>9 DEF Next

\* The controller is well typed through any order of edits, flips of type,
\* opt-outs, failed reads and clashes of currency: what is planned, committed
\* and published is a number of replicas or a shape, never half of either
\* (controller.py:146-382).
THEOREM ControllerTyped == Spec => []TypeOK
<1>1. Typed => TypeOK
  <2> SUFFICES ASSUME Typed PROVE TypeOK
    OBVIOUS
  <2>1. /\ store \in [Kinds -> [Services -> AnyCR \cup {None}]]
        /\ crs \in [Kinds -> [Services -> AnyCR \cup {None}]]
        /\ todo \subseteq Kinds \X Services
    BY DEF Typed, TickOK, CRsOK, Accounted
  <2>2. \A s \in Services :
          /\ views[s] \in [committed : Ledgers \cup {None}, since : 0..AgeCap,
                           comfort : 0..ComfortSustain \cup {None}]
          /\ specs[s] \in Sets \cup {None} /\ served[s] \in Rows \cup {None}
    BY DEF Typed, Sheets, SheetOK, ViewOK
  <2> QED BY <2>1, <2>2 DEF Typed, TickOK, SteadyOK, TypeOK
<1> QED BY <1>1, TypedInit, TypedNext, PTL DEF Spec

LEMMA PublishingIs ==
  ASSUME Next, Publishing
  PROVE  AllotAndPublish
BY DEF Next, Publishing, Write, Delete, Unread, Pass, TickStart, SnapshotJobs, ReadCapacity,
       CapacityFails, PlacementFails, Placing, Stepping, StepOptedOut, StepUnplaced,
       StepService, StepShape, Shaping, AllotCrashes

\* Every judged service is published inside its window, whatever the rules, the
\* freeze, the planner and the grants did with it and whatever became of its
\* ledger under a second CR (controller.py:264-382, serviceview.py:293-345).
THEOREM WindowServed == Spec => ServedInWindow
<1>1. Typed /\ [Next]_vars =>
        [Publishing =>
          /\ \A s \in Contenders : served'[s] # None =>
               served'[s].active \in plan[s].bounds.lo .. plan[s].bounds.hi
          /\ \A s \in PdContenders : served'[s] # None =>
               \/ Within(served'[s].shape, Bounds(crs["llm"][s]))
               \/ /\ Engines(served'[s].shape) <= Bounds(crs["llm"][s]).hi
                  /\ Engines(served'[s].live) = 0]_vars
  <2> SUFFICES ASSUME Typed, Next, Publishing
               PROVE  /\ \A s \in Contenders : served'[s] # None =>
                           served'[s].active \in plan[s].bounds.lo .. plan[s].bounds.hi
                      /\ \A s \in PdContenders : served'[s] # None =>
                           \/ Within(served'[s].shape, Bounds(crs["llm"][s]))
                           \/ /\ Engines(served'[s].shape) <= Bounds(crs["llm"][s]).hi
                              /\ Engines(served'[s].live) = 0
    OBVIOUS
  <2>1. AllotAndPublish /\ views' = Committed(AllocOf, GrantedNow) /\ ~CurrencyClash
    BY PublishingIs, PublishSteps
  <2>2. \A s \in Services : served'[s] # None =>
          HasShape(views[s]) \/ HasCount(views[s])
    <3>1. \A s \in Services : served'[s] # None => views'[s].committed # None
      BY <2>1, PublishedRows
    <3>2. \A s \in Services : views[s].committed \in Ledgers \cup {None}
      BY DEF Typed, Sheets, SheetOK, ViewOK
    <3> QED BY <2>1, <3>1, <3>2, AfterFacts, Currencies
  <2>3. ASSUME NEW s \in Contenders, served'[s] # None
        PROVE  served'[s].active \in plan[s].bounds.lo .. plan[s].bounds.hi
    <3>1. s \in Services /\ HasCount(views[s])
      BY <2>2, <2>3, PlannedType
    <3>2. AllocOf[s] \in Nat /\ AllocOf[s] \in plan[s].bounds.lo .. plan[s].bounds.hi
      BY AllocType
    <3>3. views'[s].committed = [replicas |-> AllocOf[s]]
      BY <2>1, <2>3, <3>1, AfterFacts
    <3>4. views'[s].committed \in [replicas : Nat] /\ views'[s].committed.replicas = AllocOf[s]
      BY <3>2, <3>3
    <3>5. served'[s].active = AllocOf[s]
      BY <2>1, <3>1, <3>4, PublishedRows
    <3> QED BY <3>2, <3>5
  <2>4. ASSUME NEW s \in PdContenders, served'[s] # None
        PROVE  \/ Within(served'[s].shape, Bounds(crs["llm"][s]))
               \/ /\ Engines(served'[s].shape) <= Bounds(crs["llm"][s]).hi
                  /\ Engines(served'[s].live) = 0
    <3>1. s \in Services /\ pdWants[s] # None /\ ShapeOK(views[s], specs[s], pdWants[s], crs["llm"][s])
      BY JudgedShapeType
    <3>2. HasShape(views[s])
      BY <2>1, <2>2, <2>4, <3>1 DEF CurrencyClash
    <3> DEFINE c == views'[s].committed
               b == Bounds(crs["llm"][s])
    <3>3. c = pdWants[s].want \/ c = pdWants[s].booked
      BY <2>1, <3>1, <3>2, AfterFacts
    <3>4. Publishable(c, b, specs[s])
      BY <3>1, <3>2, <3>3 DEF ShapeOK
    <3> HIDE DEF c, b
    <3>5. c \in Shapes
      BY <3>4 DEF Publishable
    <3>6. served'[s].shape = c /\ served'[s].live = specs[s].shape
      BY <2>1, <3>1, <3>5, PublishedRows DEF c
    <3> QED BY <3>4, <3>6 DEF Publishable, Within, b
  <2> QED BY <2>3, <2>4
<1> QED BY <1>1, TypedInit, TypedNext, PTL DEF Spec, ServedInWindow

\* A service on the wire does not flicker, for any fleet and any order of ticks
\* that fail half way: it is published again by every tick that goes through
\* while its CRs manage it (controller.py:369-382).
THEOREM RowsStay == Spec => NoFlicker
<1>1. Typed /\ [Next]_vars => [Publishing => \A s \in past.steady : served'[s] # None]_vars
  <2> SUFFICES ASSUME Typed, Next, Publishing, NEW s \in past.steady
               PROVE  served'[s] # None
    OBVIOUS
  <2>1. AllotAndPublish /\ views' = Committed(AllocOf, GrantedNow)
    BY PublishingIs, PublishSteps
  <2>2. s \in Services /\ views[s].committed # None
    BY DEF Typed, SteadyOK
  <2>3. views'[s].committed # None
    BY <2>1, <2>2, AfterFacts
  <2> QED BY <2>1, <2>2, <2>3, PublishedRows
<1> QED BY <1>1, TypedInit, TypedNext, PTL DEF Spec, NoFlicker

(***************************************************************************)
(* What the shapes are granted.                                            *)
(***************************************************************************)
LEMMA NeedType ==
  ASSUME Typed, NEW s \in PdContenders
  PROVE  Need(s) \in Nat
<1> DEFINE grow == [r \in Roles |-> Larger(0, pdWants[s].want[r] - pdWants[s].booked[r])]
<1>1. s \in Services /\ pdWants[s].want \in Shapes /\ pdWants[s].booked \in Shapes
  BY JudgedShapeType
<1>2. grow \in [Roles -> Nat]
  BY <1>1 DEF Shapes, Roles, Larger
<1>3. grow.prefill \in Nat /\ grow.decode \in Nat
  BY <1>2 DEF Roles
<1>4. Group[s]["prefill"] \in Nat /\ Group[s]["decode"] \in Nat
  BY <1>1, ControllerAssumption DEF Roles
<1>5. Need(s) = ShapeGpuCost(grow, Group[s])
  BY DEF Need
<1> HIDE DEF grow
<1> QED BY <1>3, <1>4, <1>5 DEF ShapeGpuCost

\* What is left of "leftover" before each service, and the services granted.
IsFree(f, p, leftover) ==
  f = [n \in Nat |->
        IF n = 0 THEN leftover
        ELSE IF n - 1 \in PdMembers(p) /\ Need(n - 1) <= f[n - 1]
          THEN f[n - 1] - Need(n - 1)
          ELSE f[n - 1]]

FreeOf(p, leftover) == CHOOSE f : IsFree(f, p, leftover)

LEMMA FreeExists ==
  ASSUME NEW p, NEW leftover \in Int, \A s \in PdMembers(p) : Need(s) \in Int
  PROVE  IsFree(FreeOf(p, leftover), p, leftover)
<1> DEFINE h == [x \in Nat \X Int |->
                   IF x[1] \in PdMembers(p) /\ Need(x[1]) <= x[2] THEN x[2] - Need(x[1]) ELSE x[2]]
<1>1. h \in [Nat \X Int -> Int]
  OBVIOUS
<1>2. ASSUME NEW n \in Nat, NEW i \in Int
      PROVE  h[<<n, i>>] = IF n \in PdMembers(p) /\ Need(n) <= i THEN i - Need(n) ELSE i
  OBVIOUS
<1> HIDE DEF h
<1>3. PICK f \in [Nat -> Int] : \A n \in Nat : f[n] = IF n = 0 THEN leftover ELSE h[<<n - 1, f[n - 1]>>]
  BY <1>1, NatRecursion
<1> DEFINE g == [n \in Nat |->
                  IF n = 0 THEN leftover
                  ELSE IF n - 1 \in PdMembers(p) /\ Need(n - 1) <= f[n - 1]
                    THEN f[n - 1] - Need(n - 1)
                    ELSE f[n - 1]]
<1>4. ASSUME NEW n \in Nat PROVE f[n] = g[n]
  <2>1. CASE n = 0
    BY <1>3, <2>1
  <2>2. CASE n # 0
    <3>1. n - 1 \in Nat /\ f[n - 1] \in Int
      BY <2>2
    <3>2. f[n] = h[<<n - 1, f[n - 1]>>]
      BY <1>3, <2>2
    <3> QED BY <1>2, <2>2, <3>1, <3>2
  <2> QED BY <2>1, <2>2
<1>5. f = g
  <2>1. DOMAIN f = Nat /\ DOMAIN g = Nat /\ f = [n \in Nat |-> f[n]] /\ g = [n \in Nat |-> g[n]]
    OBVIOUS
  <2> HIDE DEF g
  <2> QED BY <1>4, <2>1
<1>6. IsFree(f, p, leftover)
  BY <1>5 DEF IsFree
<1> QED BY <1>6 DEF FreeOf

LEMMA FreeFacts ==
  ASSUME NEW p, NEW leftover \in Int, \A s \in PdMembers(p) : Need(s) \in Int
  PROVE  LET f == FreeOf(p, leftover)
         IN  /\ f[0] = leftover
             /\ \A n \in Nat : f[n + 1] = IF n \in PdMembers(p) /\ Need(n) <= f[n]
                                            THEN f[n] - Need(n) ELSE f[n]
             /\ Granted(p, leftover) = {s \in PdMembers(p) : Need(s) <= f[s]}
<1> DEFINE f == FreeOf(p, leftover)
           g == [n \in Nat |->
                  IF n = 0 THEN leftover
                  ELSE IF n - 1 \in PdMembers(p) /\ Need(n - 1) <= f[n - 1]
                    THEN f[n - 1] - Need(n - 1)
                    ELSE f[n - 1]]
<1>1. f = g
  BY FreeExists DEF IsFree
<1>2. g[0] = leftover
  OBVIOUS
<1>3. ASSUME NEW n \in Nat
      PROVE  g[n + 1] = IF n \in PdMembers(p) /\ Need(n) <= f[n] THEN f[n] - Need(n) ELSE f[n]
  <2>1. n + 1 \in Nat /\ n + 1 # 0 /\ (n + 1) - 1 = n
    OBVIOUS
  <2> HIDE DEF f
  <2> QED BY <2>1
<1>4. Granted(p, leftover) = {s \in PdMembers(p) : Need(s) <= f[s]}
  BY DEF Granted, FreeOf, IsFree
<1> HIDE DEF f, g
<1>5. f[0] = leftover
  BY <1>1, <1>2
<1>6. \A n \in Nat : f[n + 1] = IF n \in PdMembers(p) /\ Need(n) <= f[n] THEN f[n] - Need(n) ELSE f[n]
  BY <1>1, <1>3
<1> QED BY <1>4, <1>5, <1>6 DEF f

GrantCosts(p, leftover) ==
  [s \in PdMembers(p) |-> IF s \in Granted(p, leftover) THEN Need(s) ELSE 0]

\* The shapes are never granted more than what is left, and nothing when that
\* is negative.
LEMMA GrantBound ==
  ASSUME Typed, NEW p, NEW leftover \in Int
  PROVE  /\ \A s \in PdMembers(p) : GrantCosts(p, leftover)[s] \in Nat
         /\ SumOver(GrantCosts(p, leftover), PdMembers(p)) <= Larger(0, leftover)
<1> DEFINE D == PdMembers(p)
           c == GrantCosts(p, leftover)
           f == FreeOf(p, leftover)
           Before(n) == {s \in D : s < n}
           Paid(n) == /\ f[n] \in Int /\ SumOver(c, Before(n)) + f[n] = leftover
                      /\ leftover >= 0 => f[n] >= 0
                      /\ leftover < 0 => f[n] = leftover
           G == {n \in Nat : Paid(n)}
<1>1. /\ IsFiniteSet(D) /\ D \subseteq Services
      /\ \A s \in D : s \in Nat /\ Need(s) \in Nat
  BY MembersFinite, NeedType, JudgedShapeType
<1>2. \A s \in D : c[s] = IF s \in Granted(p, leftover) THEN Need(s) ELSE 0
  BY DEF GrantCosts
<1>3. \A s \in D : s \in Granted(p, leftover) <=> Need(s) <= f[s]
  BY <1>1, FreeFacts
<1>4. f[0] = leftover /\ \A n \in Nat : f[n + 1] = IF n \in D /\ Need(n) <= f[n] THEN f[n] - Need(n) ELSE f[n]
  BY <1>1, FreeFacts
<1> HIDE DEF D, c, f
<1>5. \A s \in D : c[s] \in Nat
  BY <1>1, <1>2
<1>6. 0 \in G
  <2>1. Before(0) = {}
    BY <1>1
  <2>2. SumOver(c, Before(0)) = 0
    BY <2>1, SumEmpty
  <2> HIDE DEF Before
  <2> QED BY <1>4, <2>2
<1>7. ASSUME NEW n \in Nat, n \in G PROVE n + 1 \in G
  <2>1. /\ f[n] \in Int /\ SumOver(c, Before(n)) + f[n] = leftover
        /\ leftover >= 0 => f[n] >= 0
        /\ leftover < 0 => f[n] = leftover
    BY <1>7
  <2>2. IsFiniteSet(Before(n)) /\ (\A k \in Before(n) : c[k] \in Int) /\ n \notin Before(n)
    BY <1>1, <1>5, FS_Subset
  <2>3. SumOver(c, Before(n)) \in Int
    BY <2>2, SumFacts
  <2>4. CASE n \in D
    <3>1. Before(n + 1) = Before(n) \cup {n}
      <4>1. \A s \in D : s < n + 1 <=> s < n \/ s = n
        BY <1>1
      <4> QED BY <2>4, <4>1, Zenon
    <3>2. c[n] \in Nat /\ Need(n) \in Nat /\ c[n] = IF Need(n) <= f[n] THEN Need(n) ELSE 0
      BY <1>1, <1>2, <1>3, <1>5, <2>4
    <3> HIDE DEF Below
    <3>3. SumOver(c, Before(n + 1)) = c[n] + SumOver(c, Before(n))
      BY <2>2, <3>1, <3>2, SumAdd
    <3>4. f[n + 1] = f[n] - c[n] /\ (c[n] # 0 => c[n] <= f[n])
      BY <1>4, <2>1, <2>4, <3>2
    <3>5. Paid(n + 1)
      BY <2>1, <2>3, <3>2, <3>3, <3>4
    <3> QED BY <3>5
  <2>5. CASE n \notin D
    <3>1. Before(n + 1) = Before(n)
      <4>1. \A s \in D : s < n + 1 <=> s < n
        BY <1>1, <2>5
      <4> QED BY <4>1, Zenon
    <3>2. f[n + 1] = f[n]
      BY <1>4, <2>5
    <3> HIDE DEF Below
    <3> QED BY <2>1, <3>1, <3>2
  <2> QED BY <2>4, <2>5
<1>8. PICK n \in Nat : \A s \in Services : s < n
  <2>1. CASE Services = {}
    BY <2>1
  <2>2. CASE Services # {}
    <3>1. /\ Max(Services) + 1 \in Nat /\ Max(Services) \in Nat
          /\ \A s \in Services : s \in Nat /\ s <= Max(Services)
      BY <2>2, ServicesTop, ServicesAreNumbers
    <3>2. \A s \in Services : s < Max(Services) + 1
      BY <3>1
    <3> QED BY <3>1, <3>2
  <2> QED BY <2>1, <2>2
<1>9. n \in G
  <2> HIDE DEF G
  <2> QED BY <1>6, <1>7, NatGrow
<1>10. Before(n) = D
  BY <1>1, <1>8
<1> HIDE DEF Below
<1>11. SumOver(c, D) \in Nat
  BY <1>1, <1>5, SumNat
<1>12. f[n] \in Int /\ SumOver(c, D) + f[n] = leftover /\ (leftover >= 0 => f[n] >= 0)
       /\ (leftover < 0 => f[n] = leftover)
  BY <1>9, <1>10
<1>13. SumOver(c, D) <= Larger(0, leftover)
  BY <1>11, <1>12 DEF Larger
<1> QED BY <1>5, <1>13 DEF D, c

(***************************************************************************)
(* What a tick hands out.                                                  *)
(***************************************************************************)
GrowthOf(p) == [s \in Members(p) |-> Larger(0, AnswerOf(p)[s] - plan[s].booked)]
FloorsOf(p) == [s \in Members(p) |-> Larger(plan[s].booked, plan[s].bounds.lo)]

\* The sums of a tick are costs of the planner's call.
LEMMA CallCosts ==
  ASSUME Typed, NEW p \in Pools
  PROVE  LET in == Call(p)
         IN  /\ WellFormed(in) /\ in.members = Members(p)
             /\ \A s \in Members(p) :
                  /\ in.gpr[s] = Gpr[s] /\ in.current[s] = plan[s].booked
                  /\ in.lo[s] = plan[s].bounds.lo /\ in.hi[s] = plan[s].bounds.hi
             /\ GrowthOf(p) \in [in.members -> Int] /\ FloorsOf(p) \in [in.members -> Int]
             /\ Cost(in, in.current) = Booked(Members(p))
             /\ Cost(in, FloorsOf(p)) =
                  SumOver([s \in Members(p) |-> Larger(plan[s].booked, plan[s].bounds.lo) * Gpr[s]],
                          Members(p))
             /\ in.gap = capacity[p] - Booked(Members(p)) - PdBooked(PdMembers(p))
             /\ Leftover(in, AnswerOf(p)) = in.gap - Cost(in, GrowthOf(p))
<1> DEFINE in == Call(p)
           M == Members(p)
<1>1. WellFormed(in) /\ in.members = M
  BY CallWellFormed
<1>2. /\ \A s \in M : in.gpr[s] = Gpr[s] /\ in.current[s] = plan[s].booked
      /\ \A s \in M : in.lo[s] = plan[s].bounds.lo /\ in.hi[s] = plan[s].bounds.hi
      /\ in.gap = capacity[p] - Booked(M) - PdBooked(PdMembers(p))
  BY DEF Call
<1>3. \A s \in M : /\ plan[s].booked \in Int /\ plan[s].bounds.lo \in Int
                   /\ AnswerOf(p)[s] \in Int
  <2>1. \A s \in M : plan[s] \in PlanEntry
    BY PlannedType, MembersFinite
  <2> QED BY <2>1, AnswerType DEF PlanEntry
<1>4. GrowthOf(p) \in [M -> Int] /\ FloorsOf(p) \in [M -> Int]
  BY <1>3 DEF GrowthOf, FloorsOf, Larger
<1> HIDE DEF in, M
<1>5. Cost(in, in.current) = Booked(M)
  <2>1. [s \in M |-> in.current[s] * in.gpr[s]] = [s \in M |-> plan[s].booked * Gpr[s]]
    BY <1>2
  <2> QED BY <1>1, <2>1 DEF Cost, Booked
<1>6. Cost(in, FloorsOf(p)) =
        SumOver([s \in M |-> Larger(plan[s].booked, plan[s].bounds.lo) * Gpr[s]], M)
  <2>1. \A s \in M : FloorsOf(p)[s] = Larger(plan[s].booked, plan[s].bounds.lo)
    BY DEF FloorsOf, M
  <2>2. [s \in M |-> FloorsOf(p)[s] * in.gpr[s]] =
          [s \in M |-> Larger(plan[s].booked, plan[s].bounds.lo) * Gpr[s]]
    BY <1>2, <2>1
  <2> QED BY <1>1, <2>2 DEF Cost
<1>7. Leftover(in, AnswerOf(p)) = in.gap - Cost(in, GrowthOf(p))
  <2>1. \A s \in M : GrowthOf(p)[s] = Larger(0, AnswerOf(p)[s] - plan[s].booked)
    BY DEF GrowthOf, M
  <2>2. [s \in M |-> GrowthOf(p)[s] * in.gpr[s]] =
          [s \in M |-> Larger(0, AnswerOf(p)[s] - plan[s].booked) * Gpr[s]]
    BY <1>2, <2>1
  <2> QED BY <1>1, <2>2 DEF Cost, Leftover
<1> QED BY <1>1, <1>2, <1>4, <1>5, <1>6, <1>7 DEF in, M

\* What the planner hands out fits what is booked and its growth, and it fits
\* the pool unless the floors alone do not.
LEMMA AnswerBounds ==
  ASSUME Typed, NEW p \in Pools
  PROVE  LET in == Call(p)
         IN  /\ Cost(in, AnswerOf(p)) \in Int /\ Cost(in, GrowthOf(p)) \in Int
             /\ Cost(in, FloorsOf(p)) \in Int
             /\ Cost(in, AnswerOf(p)) <= Booked(Members(p)) + Cost(in, GrowthOf(p))
             /\ Cost(in, AnswerOf(p)) <= Larger(Cost(in, FloorsOf(p)), in.gap + Booked(Members(p)))
<1> DEFINE in == Call(p)
           A == AnswerOf(p)
           sum == [s \in in.members |-> in.current[s] + GrowthOf(p)[s]]
<1>1. /\ WellFormed(in) /\ in.members = Members(p)
      /\ GrowthOf(p) \in [in.members -> Int] /\ FloorsOf(p) \in [in.members -> Int]
      /\ Cost(in, in.current) = Booked(Members(p))
  BY CallCosts
<1>2. \A s \in in.members : /\ in.current[s] = plan[s].booked
                            /\ in.lo[s] = plan[s].bounds.lo /\ in.hi[s] = plan[s].bounds.hi
  BY CallCosts
<1>3. A \in [in.members -> Nat] /\ A \in [in.members -> Int]
  BY <1>1, AnswerType
<1>4. PICK f : Orderly(in, f) /\ A = f.alloc
  BY AnswerType
<1>5. \A s \in in.members : /\ GrowthOf(p)[s] = Larger(0, A[s] - in.current[s])
                            /\ FloorsOf(p)[s] = Larger(in.current[s], in.lo[s])
  BY <1>1, <1>2 DEF GrowthOf, FloorsOf
<1> HIDE DEF in, A
<1>6. /\ in.current \in [in.members -> Int] /\ sum \in [in.members -> Int]
      /\ in.lo \in [in.members -> Int] /\ in.hi \in [in.members -> Int]
      /\ in.want \in [in.members -> Int] /\ in.gap \in Int
  BY <1>1 DEF WellFormed
<1>7. \A s \in in.members : sum[s] = in.current[s] + GrowthOf(p)[s]
  OBVIOUS
<1> HIDE DEF sum
<1>8. Cost(in, A) <= Cost(in, in.current) + Cost(in, GrowthOf(p))
  <2>1. \A s \in in.members : A[s] <= sum[s]
    BY <1>3, <1>5, <1>6, <1>7 DEF Larger
  <2>2. Cost(in, A) <= Cost(in, sum)
    BY <1>1, <1>3, <1>6, <2>1, CostOrder
  <2>3. Cost(in, sum) = Cost(in, in.current) + Cost(in, GrowthOf(p))
    BY <1>1, <1>6, <1>7, CostSum
  <2> QED BY <2>2, <2>3
<1>9. /\ Cost(in, A) \in Int /\ Cost(in, GrowthOf(p)) \in Int /\ Cost(in, FloorsOf(p)) \in Int
      /\ Cost(in, in.current) \in Int
  BY <1>1, <1>3, <1>6, CostsType
<1>10. Cost(in, A) <= Larger(Cost(in, FloorsOf(p)), in.gap + Cost(in, in.current))
  <2>1. Cost(in, A) <= Larger(Cost(in, Floors(in)), in.gap + Cost(in, Retained(in)))
    BY <1>1, <1>4, OrderlyAffordable
  <2>2. /\ Floors(in) \in [in.members -> Int] /\ Retained(in) \in [in.members -> Int]
        /\ \A s \in in.members : Floors(in)[s] = Floor(in, s)
        /\ \A s \in in.members : Retained(in)[s] = Smaller(Floor(in, s), in.current[s])
    BY <1>1, <1>6, WantClampedType DEF Floors, Retained, Smaller
  <2>3. \A s \in in.members : Floors(in)[s] <= FloorsOf(p)[s] /\ Retained(in)[s] <= in.current[s]
    <3>1. ASSUME NEW s \in in.members
          PROVE  Floor(in, s) <= Larger(in.current[s], in.lo[s]) /\ Smaller(Floor(in, s), in.current[s]) <= in.current[s]
      <4>1. in.current[s] \in Int /\ in.lo[s] \in Int /\ WantClamped(in, s) \in Int /\ Floor(in, s) \in Int
        BY <1>1, <1>6, WantClampedType
      <4> QED BY <4>1 DEF Floor, Larger, Smaller
    <3> QED BY <1>5, <2>2, <3>1
  <2>4. Cost(in, Floors(in)) <= Cost(in, FloorsOf(p))
    BY <1>1, <2>2, <2>3, CostOrder
  <2>5. Cost(in, Retained(in)) <= Cost(in, in.current)
    BY <1>1, <1>6, <2>2, <2>3, CostOrder
  <2>6. Cost(in, Floors(in)) \in Int /\ Cost(in, Retained(in)) \in Int
    BY <1>1, <2>2, CostsType
  <2>7. \A a, w, v, g, r, c \in Int :
          a <= Larger(w, g + r) /\ w <= v /\ r <= c => a <= Larger(v, g + c)
    BY DEF Larger
  <2> QED BY <1>6, <1>9, <2>1, <2>4, <2>5, <2>6, <2>7
<1> QED BY <1>1, <1>8, <1>9, <1>10 DEF in, A

\* A shape that is granted costs what was booked and what it needed.
LEMMA GrantedCost ==
  ASSUME Typed, NEW s \in PdContenders
  PROVE  ShapeGpuCost(pdWants[s].want, Group[s]) <=
           ShapeGpuCost(pdWants[s].booked, Group[s]) + Need(s)
<1> DEFINE grow == [r \in Roles |-> Larger(0, pdWants[s].want[r] - pdWants[s].booked[r])]
           w == pdWants[s].want
           b == pdWants[s].booked
<1>1. s \in Services /\ w \in Shapes /\ b \in Shapes
  BY JudgedShapeType
<1>2. /\ w.prefill \in Nat /\ w.decode \in Nat /\ b.prefill \in Nat /\ b.decode \in Nat
      /\ grow.prefill = Larger(0, w.prefill - b.prefill)
      /\ grow.decode = Larger(0, w.decode - b.decode)
  BY <1>1 DEF Shapes, Roles
<1>3. Group[s]["prefill"] \in Nat /\ Group[s]["decode"] \in Nat
  BY <1>1, ControllerAssumption DEF Roles
<1>4. Need(s) = ShapeGpuCost(grow, Group[s])
  BY DEF Need
<1> HIDE DEF grow, w, b
<1>5. /\ grow.prefill \in Nat /\ grow.decode \in Nat
      /\ w.prefill <= b.prefill + grow.prefill /\ w.decode <= b.decode + grow.decode
  BY <1>2 DEF Larger
<1>6. \A x, y, z, g \in Nat : x <= y + z => x * g <= y * g + z * g
  <2>1. \A x, y, g \in Nat : x <= y => x * g <= y * g
    OBVIOUS
  <2>2. \A y, z, g \in Nat : (y + z) * g = y * g + z * g
    OBVIOUS
  <2>3. \A y, z \in Nat : y + z \in Nat
    OBVIOUS
  <2> QED BY <2>1, <2>2, <2>3
<1>7. /\ w.prefill * Group[s]["prefill"] <= b.prefill * Group[s]["prefill"] + grow.prefill * Group[s]["prefill"]
      /\ w.decode * Group[s]["decode"] <= b.decode * Group[s]["decode"] + grow.decode * Group[s]["decode"]
  BY <1>2, <1>3, <1>5, <1>6
<1>8. \A x, y \in Nat : x * y \in Nat
  OBVIOUS
<1>9. /\ w.prefill * Group[s]["prefill"] \in Nat /\ b.prefill * Group[s]["prefill"] \in Nat
      /\ grow.prefill * Group[s]["prefill"] \in Nat
      /\ w.decode * Group[s]["decode"] \in Nat /\ b.decode * Group[s]["decode"] \in Nat
      /\ grow.decode * Group[s]["decode"] \in Nat
  BY <1>2, <1>3, <1>5, <1>8
<1>10. ShapeGpuCost(w, Group[s]) <= ShapeGpuCost(b, Group[s]) + ShapeGpuCost(grow, Group[s])
  BY <1>7, <1>9 DEF ShapeGpuCost
<1> QED BY <1>4, <1>10 DEF w, b

\* What each service a tick has judged costs once it is committed.
LEMMA SteppedCosts ==
  ASSUME Typed, ~CurrencyClash, views' = Committed(AllocOf, GrantedNow), NEW p \in Pools
  PROVE  LET granted == GrantCosts(p, Leftover(Call(p), AnswerOf(p)))
         IN  \A s \in Stepped(p) :
               \/ /\ s \in Members(p) /\ s \notin PdMembers(p)
                  /\ LedgerCost(s, views'[s].committed) = AnswerOf(p)[s] * Gpr[s]
               \/ /\ s \in PdMembers(p) /\ s \notin Members(p)
                  /\ LedgerCost(s, views'[s].committed) \in Nat
                  /\ LedgerCost(s, views'[s].committed) <=
                       ShapeGpuCost(pdWants[s].booked, Group[s]) + granted[s]
<1> SUFFICES ASSUME NEW s \in Stepped(p)
             PROVE  \/ /\ s \in Members(p) /\ s \notin PdMembers(p)
                       /\ LedgerCost(s, views'[s].committed) = AnswerOf(p)[s] * Gpr[s]
                    \/ /\ s \in PdMembers(p) /\ s \notin Members(p)
                       /\ LedgerCost(s, views'[s].committed) \in Nat
                       /\ LedgerCost(s, views'[s].committed) <=
                            ShapeGpuCost(pdWants[s].booked, Group[s]) +
                              GrantCosts(p, Leftover(Call(p), AnswerOf(p)))[s]
  OBVIOUS
<1> DEFINE L == Leftover(Call(p), AnswerOf(p))
           v == Committed(AllocOf, GrantedNow)[s]
<1>1. s \in Members(p) \cup PdMembers(p) /\ views[s].committed # None /\ s \in Services
  BY MembersFinite DEF Stepped
<1>2. views[s].committed \in Ledgers \cup {None}
  BY <1>1 DEF Typed, Sheets, SheetOK, ViewOK
<1>3. /\ s \in Members(p) => ~HasShape(views[s]) /\ s \in Contenders /\ PoolOf(s) = p
      /\ s \in PdMembers(p) => ~HasCount(views[s]) /\ s \in PdContenders /\ PoolOf(s) = p
  BY PlannedType DEF CurrencyClash, Members, PdMembers
<1>4. HasShape(views[s]) \/ HasCount(views[s])
  BY <1>1, <1>2, Currencies
<1>5. /\ s \in Contenders /\ HasCount(views[s]) => v.committed = [replicas |-> AllocOf[s]]
      /\ s \in PdContenders /\ HasShape(views[s]) =>
           /\ s \in GrantedNow => v.committed = pdWants[s].want
           /\ s \notin GrantedNow => v.committed = pdWants[s].booked
  BY <1>1, AfterFacts
<1>6. views'[s] = v
  OBVIOUS
<1> HIDE DEF v
<1>7. CASE s \in Members(p)
  <2>1. v.committed = [replicas |-> AllocOf[s]] /\ s \notin PdMembers(p)
    BY <1>3, <1>4, <1>5, <1>7
  <2>2. AllocOf[s] = AnswerOf(p)[s] /\ AllocOf[s] \in Nat
    BY <1>3, <1>7, AllocType
  <2>3. [replicas |-> AllocOf[s]] # None /\ "replicas" \in DOMAIN [replicas |-> AllocOf[s]]
        /\ [replicas |-> AllocOf[s]].replicas = AllocOf[s]
    BY <2>2, NoneFacts DEF Ledgers
  <2> QED BY <1>6, <1>7, <2>1, <2>2, <2>3 DEF LedgerCost
<1>8. CASE s \in PdMembers(p)
  <2>1. HasShape(views[s]) /\ s \in PdContenders /\ s \notin Members(p)
    BY <1>3, <1>4, <1>8
  <2>2. pdWants[s].want \in Shapes /\ pdWants[s].booked \in Shapes
    BY <2>1, JudgedShapeType
  <2>3. \A c \in Shapes : LedgerCost(s, c) = ShapeGpuCost(c, Group[s]) /\ LedgerCost(s, c) \in Nat
    BY <1>1, NoneFacts, GpuCostType DEF LedgerCost, Shapes
  <2>4. s \in GrantedNow <=> s \in Granted(p, L)
    <3>1. \A q \in Pools : s \in Granted(q, Leftover(Call(q), AnswerOf(q))) => q = p
      BY <1>3, <1>8 DEF Granted, PdMembers
    <3> QED BY <3>1 DEF GrantedNow
  <2>5. GrantCosts(p, L)[s] = IF s \in Granted(p, L) THEN Need(s) ELSE 0
    BY <1>8 DEF GrantCosts
  <2> HIDE DEF L
  <2>6. CASE s \in GrantedNow
    BY <1>5, <1>6, <1>8, <2>1, <2>2, <2>3, <2>4, <2>5, <2>6, GrantedCost DEF L
  <2>7. CASE s \notin GrantedNow
    <3>1. v.committed = pdWants[s].booked /\ GrantCosts(p, L)[s] = 0
      BY <1>5, <2>1, <2>4, <2>5, <2>7
    <3> QED BY <1>6, <1>8, <2>1, <2>2, <2>3, <3>1 DEF L
  <2> QED BY <2>6, <2>7
<1> QED BY <1>1, <1>7, <1>8

LEMMA PoolSpend ==
  ASSUME Typed, ~CurrencyClash, views' = Committed(AllocOf, GrantedNow), NEW p \in Pools
  PROVE  CostOf(Stepped(p), views') <=
           Larger(capacity[p],
                  PdBooked(PdMembers(p)) +
                  SumOver([s \in Members(p) |-> Larger(plan[s].booked, plan[s].bounds.lo) * Gpr[s]],
                          Members(p)))
<1> DEFINE X == Stepped(p)
           M == Members(p)
           D == PdMembers(p)
           MX == X \cap M
           DX == X \cap D
           L == Leftover(Call(p), AnswerOf(p))
           h == [s \in X |-> LedgerCost(s, views'[s].committed)]
           a == [s \in M |-> AnswerOf(p)[s] * Gpr[s]]
           b == [s \in D |-> ShapeGpuCost(pdWants[s].booked, Group[s])]
           g == GrantCosts(p, L)
           sum == [s \in D |-> b[s] + g[s]]
           gap == capacity[p] - Booked(M) - PdBooked(D)
           floors == SumOver([s \in M |-> Larger(plan[s].booked, plan[s].bounds.lo) * Gpr[s]], M)
           growth == Cost(Call(p), GrowthOf(p))
           spent == Cost(Call(p), AnswerOf(p))
<1>1. /\ IsFiniteSet(M) /\ IsFiniteSet(D) /\ IsFiniteSet(MX) /\ IsFiniteSet(DX)
      /\ MX \subseteq M /\ DX \subseteq D /\ X \subseteq M \cup D
      /\ X = MX \cup DX
  BY MembersFinite, FS_Subset DEF Stepped
<1>2. \A s \in X :
        \/ /\ s \in M /\ s \notin D /\ h[s] = AnswerOf(p)[s] * Gpr[s]
        \/ /\ s \in D /\ s \notin M /\ h[s] \in Nat /\ h[s] <= b[s] + g[s]
  BY SteppedCosts
<1>3. \A s \in M : a[s] = AnswerOf(p)[s] * Gpr[s] /\ a[s] \in Nat
  <2>1. \A s \in M : AnswerOf(p)[s] \in Nat /\ Gpr[s] \in Nat
    BY AnswerType, PlannedType, MembersFinite
  <2>2. \A x, y \in Nat : x * y \in Nat
    OBVIOUS
  <2> QED BY <2>1, <2>2
<1>4. capacity[p] \in Int /\ Booked(M) \in Int /\ PdBooked(D) \in Int
  BY BookedType DEF Typed, TickOK
<1>5. /\ L = gap - growth /\ growth \in Int /\ floors \in Int /\ spent \in Int
      /\ spent <= Booked(M) + growth
      /\ spent <= Larger(floors, gap + Booked(M))
  BY CallCosts, AnswerBounds
<1>6. \A s \in D : b[s] \in Nat
  BY MembersFinite, JudgedShapeType, GpuCostType
<1>7. PdBooked(D) = SumOver(b, D)
  BY DEF PdBooked
<1>8. CostOf(X, views') = SumOver(h, X)
  BY DEF CostOf
<1>9. spent = SumOver(a, M)
  <2>1. Call(p).members = M /\ \A s \in M : Call(p).gpr[s] = Gpr[s]
    BY CallCosts
  <2>2. [s \in M |-> AnswerOf(p)[s] * Call(p).gpr[s]] = a
    BY <2>1
  <2> HIDE DEF a, M
  <2> QED BY <2>1, <2>2 DEF Cost
<1>10. \A s \in D : sum[s] = b[s] + g[s]
  OBVIOUS
<1> HIDE DEF h, a, b, g, sum, floors, growth, spent
<1>11. L \in Int
  BY <1>4, <1>5
<1> HIDE DEF L
<1>12. (\A s \in D : g[s] \in Nat) /\ SumOver(g, D) <= Larger(0, L)
  BY <1>11, GrantBound DEF g
<1> HIDE DEF gap, X, M, D, MX, DX
<1>13. SumOver(h, MX) <= spent /\ SumOver(h, MX) \in Nat
  <2>1. \A s \in MX : a[s] \in Int /\ h[s] = a[s]
    BY <1>2, <1>3 DEF MX
  <2>2. SumOver(h, MX) = SumOver(a, MX)
    BY <1>1, <2>1, SumCongruent
  <2>3. SumOver(a, MX) <= SumOver(a, M) /\ SumOver(a, MX) \in Nat
    BY <1>1, <1>3, SumSubset
  <2> QED BY <1>9, <2>2, <2>3
<1>14. SumOver(h, DX) <= PdBooked(D) + SumOver(g, D) /\ SumOver(h, DX) \in Int /\ SumOver(g, D) \in Int
  <2>1. \A s \in DX : h[s] \in Int /\ sum[s] \in Int /\ h[s] <= sum[s]
    <3>1. \A s \in DX : s \in D /\ h[s] \in Nat /\ h[s] <= b[s] + g[s]
      BY <1>2 DEF DX
    <3> QED BY <1>6, <1>10, <1>12, <3>1
  <2>2. SumOver(h, DX) <= SumOver(sum, DX) /\ SumOver(h, DX) \in Int
    BY <1>1, <2>1, SumOrder, SumFacts
  <2>3. \A s \in D : sum[s] \in Nat
    BY <1>6, <1>10, <1>12
  <2>4. SumOver(sum, DX) <= SumOver(sum, D) /\ SumOver(sum, DX) \in Nat
    BY <1>1, <2>3, SumSubset
  <2>5. \A s \in D : b[s] \in Int /\ g[s] \in Int /\ sum[s] = b[s] + g[s]
    BY <1>6, <1>10, <1>12
  <2>6. SumOver(sum, D) = SumOver(b, D) + SumOver(g, D)
    BY <1>1, <2>5, SumPlus
  <2>7. SumOver(g, D) \in Int /\ SumOver(b, D) \in Int
    BY <1>1, <2>5, SumFacts
  <2> QED BY <1>7, <2>2, <2>4, <2>6, <2>7
<1>15. SumOver(h, X) = SumOver(h, MX) + SumOver(h, DX)
  <2>1. MX \cap DX = {}
    BY <1>2 DEF MX, DX
  <2>2. \A s \in MX \cup DX : h[s] \in Int
    BY <1>2, <1>3 DEF MX, DX
  <2> QED BY <1>1, <2>1, <2>2, SumUnion
<1>16. SumOver(h, X) <= spent + PdBooked(D) + Larger(0, L) /\ SumOver(h, X) \in Int
  <2>1. Larger(0, L) \in Int
    BY <1>11 DEF Larger
  <2> QED BY <1>4, <1>5, <1>12, <1>13, <1>14, <1>15, <2>1
<1>17. spent + PdBooked(D) + Larger(0, L) <= Larger(capacity[p], PdBooked(D) + floors)
  <2>1. \A x, cap, bk, pb, gr, fl \in Int :
          /\ x <= bk + gr
          /\ x <= Larger(fl, (cap - bk - pb) + bk)
          => x + pb + Larger(0, (cap - bk - pb) - gr) <= Larger(cap, pb + fl)
    BY DEF Larger
  <2> QED BY <1>4, <1>5, <2>1 DEF gap
<1>18. Larger(0, L) \in Int /\ Larger(capacity[p], PdBooked(D) + floors) \in Int
  BY <1>4, <1>5, <1>11 DEF Larger
<1>19. SumOver(h, X) <= Larger(capacity[p], PdBooked(D) + floors)
  BY <1>4, <1>5, <1>16, <1>17, <1>18
<1> QED BY <1>8, <1>19 DEF X, M, D, floors

\* What the services of a tick hold afterwards fits the pool, unless their
\* bookings and raised floors alone do not: the planner's growth and the shapes
\* granted after it never spend the same GPU twice (controller.py:296-361).
THEOREM NothingSpentTwice == Spec => NoNewOvercommit
<1>1. Typed /\ [Next]_vars =>
        [Publishing =>
          \A p \in Pools :
            CostOf(Stepped(p), views') <=
              Larger(capacity[p],
                     PdBooked(PdMembers(p)) +
                     SumOver([s \in Members(p) |->
                                Larger(plan[s].booked, plan[s].bounds.lo) * Gpr[s]],
                             Members(p)))]_vars
  <2> SUFFICES ASSUME Typed, Next, Publishing, NEW p \in Pools
               PROVE  CostOf(Stepped(p), views') <=
                        Larger(capacity[p],
                               PdBooked(PdMembers(p)) +
                               SumOver([s \in Members(p) |->
                                          Larger(plan[s].booked, plan[s].bounds.lo) * Gpr[s]],
                                       Members(p)))
    OBVIOUS
  <2>1. views' = Committed(AllocOf, GrantedNow) /\ ~CurrencyClash
    BY PublishingIs, PublishSteps
  <2> QED BY <2>1, PoolSpend
<1> QED BY <1>1, TypedInit, TypedNext, PTL DEF Spec, NoNewOvercommit

(***************************************************************************)
(* The default pool.                                                       *)
(***************************************************************************)
LEMMA ScheduledGpus ==
  ASSUME NEW nodes \in Clusters, NEW p
  PROVE  LET f == [i \in DOMAIN nodes |-> nodes[i].gpus]
         IN  /\ IsFiniteSet(DOMAIN nodes) /\ \A i \in DOMAIN nodes : f[i] \in Nat
             /\ \A S \in SUBSET DOMAIN nodes : GpusOf(nodes, S) = SumOver(f, S)
<1> DEFINE f == [i \in DOMAIN nodes |-> nodes[i].gpus]
<1>1. IsFiniteSet(DOMAIN nodes) /\ \A i \in DOMAIN nodes : nodes[i] \in Node
  BY ControllerAssumption
<1>2. \A i \in DOMAIN nodes : f[i] \in Nat
  BY <1>1 DEF Node
<1>3. ASSUME NEW S \in SUBSET DOMAIN nodes PROVE GpusOf(nodes, S) = SumOver(f, S)
  <2> DEFINE g == [i \in S |-> nodes[i].gpus]
  <2>1. IsFiniteSet(S)
    BY <1>1, FS_Subset
  <2>2. \A i \in S : f[i] \in Int /\ g[i] = f[i]
    BY <1>2
  <2>3. GpusOf(nodes, S) = SumOver(g, S)
    BY DEF GpusOf
  <2> HIDE DEF f, g
  <2> QED BY <2>1, <2>2, <2>3, SumCongruent
<1> QED BY <1>1, <1>2, <1>3

\* Cordoning nodes takes capacity away and leaves the inventory.
LEMMA DrainedCapacity ==
  ASSUME NEW before \in Clusters, NEW after \in Clusters, Drained(before, after), NEW p
  PROVE  /\ Inventory(after, p) = Inventory(before, p)
         /\ PoolCapacity(after, p) <= PoolCapacity(before, p)
         /\ PoolCapacity(after, p) \in Nat /\ PoolCapacity(before, p) \in Nat
         /\ PoolsOf(after) = PoolsOf(before)
<1> DEFINE f == [i \in DOMAIN before |-> before[i].gpus]
           Q == {i \in DOMAIN before : before[i].pool = p /\ Schedulable(before[i])}
           R == {i \in DOMAIN after : after[i].pool = p /\ Schedulable(after[i])}
           A == {i \in DOMAIN before : before[i].pool = p}
           B == {i \in DOMAIN after : after[i].pool = p}
<1>1. /\ DOMAIN before = DOMAIN after /\ R \subseteq Q /\ A = B
      /\ \A i \in DOMAIN before : after[i].pool = before[i].pool /\ after[i].gpus = before[i].gpus
      /\ A \in SUBSET DOMAIN before /\ Q \in SUBSET DOMAIN before
  BY DEF Drained
<1>2. IsFiniteSet(DOMAIN before) /\ \A i \in DOMAIN before : f[i] \in Nat
  BY ScheduledGpus
<1>3. \A S \in SUBSET DOMAIN before : GpusOf(before, S) = SumOver(f, S)
  BY ScheduledGpus
<1>4. [i \in DOMAIN after |-> after[i].gpus] = f
  BY <1>1
<1>5. \A S \in SUBSET DOMAIN after : GpusOf(after, S) = SumOver(f, S)
  <2>1. \A S \in SUBSET DOMAIN after : GpusOf(after, S) = SumOver([i \in DOMAIN after |-> after[i].gpus], S)
    BY ScheduledGpus
  <2> HIDE DEF f
  <2> QED BY <1>4, <2>1
<1>6. /\ Inventory(before, p) = GpusOf(before, A) /\ Inventory(after, p) = GpusOf(after, B)
      /\ PoolCapacity(before, p) = GpusOf(before, Q) /\ PoolCapacity(after, p) = GpusOf(after, R)
  BY DEF Inventory, PoolCapacity
<1>7. PoolsOf(after) = PoolsOf(before)
  BY <1>1 DEF PoolsOf
<1> HIDE DEF f, Q, R, A, B
<1>8. IsFiniteSet(Q) /\ (\A i \in Q : f[i] \in Nat) /\ R \in SUBSET Q
  BY <1>1, <1>2, FS_Subset
<1>9. /\ SumOver(f, R) \in Nat /\ SumOver(f, Q) \in Nat /\ SumOver(f, R) <= SumOver(f, Q)
  BY <1>8, SumSubset
<1>10. R \in SUBSET DOMAIN after /\ B \in SUBSET DOMAIN after
  BY <1>1, <1>8
<1> QED BY <1>1, <1>3, <1>5, <1>6, <1>7, <1>9, <1>10

\* Whatever nodes a pool was chosen from, cordoning some of them leaves the
\* choice where it is (k8s_state.py, _largest_pool by its inventory).
THEOREM PoolStays == Spec => []PoolSurvivesMaintenance
<1>1. ASSUME NEW last, NEW before \in Clusters, NEW after \in Clusters, Drained(before, after),
             Refreshed(before, last) = last, last \in Usable(after)
      PROVE  Refreshed(after, last) = last
  <2>1. Usable(after) \subseteq Usable(before)
    BY <1>1, DrainedCapacity DEF Usable
  <2>2. Usable(before) # {} /\ Usable(after) # {} /\ last = Largest(before)
    BY <1>1, <2>1 DEF Refreshed
  <2>3. IsLargest(before, last)
    BY <2>2, LargestFacts
  <2>4. \A p : Inventory(after, p) = Inventory(before, p)
    BY <1>1, DrainedCapacity
  <2>5. IsLargest(after, last)
    BY <1>1, <2>1, <2>3, <2>4 DEF IsLargest
  <2> QED BY <2>2, <2>5, LargestFacts DEF Refreshed
<1>2. PoolSurvivesMaintenance
  BY <1>1 DEF PoolSurvivesMaintenance
<1> QED BY <1>2, PTL
=============================================================================
