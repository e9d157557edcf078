----------------------------- MODULE Controller -----------------------------
(***************************************************************************)
(* The tick driver of controller.py between the two CR stores, the         *)
(* cluster and Prometheus.  A tick takes its snapshots,                    *)
(* reads capacity, steps one service after the other and then allots,      *)
(* commits and publishes; the stores change between its two snapshots, and *)
(* a failed read ends the tick where it is.                                *)
(*                                                                         *)
(* A service is a number, in the order of the sorted keys.  Replica        *)
(* ledgers are allotted by the planner; shapes (pdengine CRs) are granted  *)
(* out of what that leaves.  A view nobody has created yet is a FreshView, *)
(* and neither is served.  A tick works with the time at its start, so a   *)
(* unit of time passes between ticks.                                      *)
(*                                                                         *)
(* Definitions called Faulty... are plausible mistakes in the definition   *)
(* that follows them; the specification never uses them.  They show that a *)
(* property can fail (PROJECT.json, "mutants").                            *)
(***************************************************************************)
EXTENDS PdView, Planner, Cluster

CONSTANTS
  Services,       \* keys, as numbers
  CRs,            \* what an author may write for each service
  Observations,   \* what a tick may read of a service
  Counts,         \* replicas_ready readings: None and numbers
  Seeds,          \* spec.replicas a workload may declare
  Sets,           \* what a placement may say of a DisaggregatedSet
  RoleReadings,   \* replicas_ready per role: None and shapes
  Lookups,        \* what a search for a service's workload may meet
  Gpr,            \* GPUs per replica of a service's workload
  Group,          \* GPUs per engine of each role
  Pin,            \* the pool its workload names, or NoPool
  Clusters        \* what a read of the nodes may return

Kinds == {"llm", "job"}
Pools == ((UNION {PoolsOf(c) : c \in Clusters}) \cup {Pin[s] : s \in Services}
            \cup {DefaultGpuPool, FallbackGpuPool}) \ {NoPool}
AnyCR == UNION {CRs[s] : s \in Services}

\* What a service's row may be.
Rows == [active : Nat] \cup [active : Nat, shape : Shapes, live : Shapes]

\* Only an LLMSLORequirement has the type pdengine (docs/openapi.yaml:63).
ASSUME ControllerAssumption ==
  /\ Services \subseteq Nat \ {0} /\ IsFiniteSet(Services)
  /\ Counts \subseteq Nat \cup {None} /\ Seeds \subseteq Nat
  /\ None \notin AnyCR /\ None \notin Ledgers /\ None \notin Rows
  /\ \A c \in AnyCR :
       /\ c.kind \in Kinds /\ c.type \in {"replica", "pdengine"}
       /\ c.type = "pdengine" => c.kind = "llm"
       /\ c.min \in Nat \cup {None} /\ c.max \in Nat \cup {None} /\ c.prio \in Int
  /\ \A o \in Observations : o.rejection \in 0..1000 \cup {None}
  /\ \A d \in Sets : d = None \/ d \in [slices : Nat \ {0}, shape : Shapes]
  /\ RoleReadings \subseteq Shapes \cup {None}
  /\ Lookups \subseteq [1..4 -> Answers]
  /\ Gpr \in [Services -> Nat \ {0}]
  /\ Group \in [Services -> [Roles -> Nat \ {0}]]
  /\ Pin \in [Services -> Nat \cup {NoPool}]
  /\ \A c \in Clusters : IsFiniteSet(DOMAIN c) /\ \A i \in DOMAIN c : c[i] \in Node

VARIABLES
  store,     \* the caches of the two CR watchers
  pc,        \* where the tick is
  crs,       \* the tick's snapshots of the stores
  todo,      \* the entries of "merged" still to step
  capacity,  \* pool_capacity of this tick
  plan,      \* wants, booked and bounds of the replica services judged so far
  pdWants,   \* the shapes judged so far
  largest,   \* _largest_pool
  views,     \* the ledger
  specs,     \* _pd_specs
  served,    \* the published snapshot
  ticked,    \* _has_ticked
  past       \* history:
             \*   real   - a tick has published
             \*   steady - services every snapshot since they were served held

tickVars == <<pc, crs, todo, capacity, plan, pdWants>>
ledger == <<views, specs>>
vars == <<store, tickVars, largest, ledger, served, ticked, past>>

NoCRs == [k \in Kinds |-> [s \in Services |-> None]]
NoPlan == [s \in Services |-> None]
NoCapacity == [p \in Pools |-> 0]
NoRows == [s \in Services |-> None]
NoSpecs == [s \in Services |-> None]

Init ==
  /\ store \in [Kinds -> [Services -> {None}]]
  /\ pc = "idle"
  /\ crs = NoCRs
  /\ todo = {}
  /\ capacity = NoCapacity
  /\ plan = NoPlan
  /\ pdWants = NoPlan
  /\ largest = NoPool
  /\ views = [s \in Services |-> FreshView]
  /\ specs = NoSpecs
  /\ served = NoRows
  /\ ticked = FALSE
  /\ past = [real |-> FALSE, steady |-> {}]

(***************************************************************************)
(* The stores and the clock.                                               *)
(***************************************************************************)
\* Once both snapshots are taken an edit of a store changes nothing the tick
\* will read: it is left until the tick is over.
Unread == pc \in {"idle", "jobs"}

Write(s, c) ==
  /\ Unread
  /\ store[c.kind][s] # c
  /\ store' = [store EXCEPT ![c.kind][s] = c]
  /\ UNCHANGED <<tickVars, largest, ledger, served, ticked, past>>

Delete(k, s) ==
  /\ Unread
  /\ store[k][s] # None
  /\ store' = [store EXCEPT ![k][s] = None]
  /\ UNCHANGED <<tickVars, largest, ledger, served, ticked, past>>

Pass ==
  /\ pc = "idle"
  /\ views' = [s \in Services |-> Aged(views[s])]
  /\ UNCHANGED <<store, tickVars, largest, specs, served, ticked, past>>

(***************************************************************************)
(* The tick.                                                               *)
(***************************************************************************)
Live(snapshot) == {s \in Services : \E k \in Kinds : snapshot[k][s] # None}

ManagedIn(snapshot) ==
  {s \in Services : /\ s \in Live(snapshot)
                    /\ \A k \in Kinds : snapshot[k][s] # None => ~OptedOut(snapshot[k][s])}

EndTick ==
  /\ pc' = "idle" /\ crs' = NoCRs /\ todo' = {}
  /\ capacity' = NoCapacity /\ plan' = NoPlan /\ pdWants' = NoPlan

\* The attempt itself makes the process ready.
TickStart ==
  /\ pc = "idle"
  /\ pc' = "jobs"
  /\ ticked' = TRUE
  /\ crs' = [NoCRs EXCEPT !["llm"] = store["llm"]]
  /\ UNCHANGED <<store, todo, capacity, plan, pdWants, largest, ledger, served, past>>

FaultyPrunedNothing(snapshot, kept, blank) == kept

FaultyPrunedJobs(snapshot, kept, blank) ==
  [s \in Services |-> IF snapshot["llm"][s] # None THEN kept[s] ELSE blank]

Pruned(snapshot, kept, blank) ==
  [s \in Services |-> IF s \in Live(snapshot) THEN kept[s] ELSE blank]

SnapshotJobs ==
  LET snapshot == [crs EXCEPT !["job"] = store["job"]]
  IN  /\ pc = "jobs"
      /\ views' = Pruned(snapshot, views, FreshView)
      /\ specs' = Pruned(snapshot, specs, None)
      /\ IF Live(snapshot) = {}
           THEN /\ served' = NoRows
                /\ past' = [past EXCEPT !.real = TRUE, !.steady = {}]
                /\ EndTick
           ELSE /\ pc' = "capacity"
                /\ crs' = snapshot
                /\ todo' = {e \in Kinds \X Services : snapshot[e[1]][e[2]] # None}
                /\ past' = [past EXCEPT !.steady = @ \cap ManagedIn(snapshot)]
                /\ UNCHANGED <<served, capacity, plan, pdWants>>
      /\ UNCHANGED <<store, largest, ticked>>

ReadCapacity(nodes) ==
  /\ pc = "capacity"
  /\ pc' = "step"
  /\ capacity' = [p \in Pools |-> PoolCapacity(nodes, p)]
  /\ largest' = Refreshed(nodes, largest)
  /\ UNCHANGED <<store, crs, todo, plan, pdWants, ledger, served, ticked, past>>

\* An exception leaves tick() with the ledger as it is by then.
Abort ==
  /\ EndTick
  /\ UNCHANGED <<store, largest, ledger, served, ticked, past>>

CapacityFails == pc = "capacity" /\ Abort

\* merged: the llm entries by key, then the job entries by key.
FirstEntry ==
  CHOOSE e \in todo : \A f \in todo :
    (e[1] = "llm" /\ f[1] = "job") \/ (e[1] = f[1] /\ e[2] <= f[2])

Stepping == pc = "step" /\ todo # {}

Entry == crs[FirstEntry[1]][FirstEntry[2]]
Placing == Stepping /\ ~OptedOut(Entry)
Shaping == Placing /\ Entry.type = "pdengine"

\* What resolve_placement may answer.
Answered == {Resolve(look) : look \in Lookups}
Placements == Answered \ {"none", "raise"}

PlacementFails == Placing /\ "raise" \in Answered /\ Abort

StepOptedOut ==
  /\ Stepping
  /\ OptedOut(Entry)
  /\ views' = [views EXCEPT ![FirstEntry[2]] = FreshView]
  /\ specs' = [specs EXCEPT ![FirstEntry[2]] = None]
  /\ todo' = todo \ {FirstEntry}
  /\ UNCHANGED <<store, pc, crs, capacity, plan, pdWants, largest, served, ticked, past>>

\* No workload or a malformed one; a job CR without a query ends there too.
StepUnplaced ==
  /\ Placing
  /\ "none" \in Answered
  /\ todo' = todo \ {FirstEntry}
  /\ UNCHANGED <<store, pc, crs, capacity, plan, pdWants, largest, ledger, served, ticked, past>>

\* wants, booked, placements and bounds of a judged service.  A key that has
\* both kinds is stepped twice: the second overwrites the first, at its place.
Planned(e, c, t) ==
  [want |-> t.want, booked |-> t.view.committed.replicas, bounds |-> Bounds(c),
   prio |-> c.prio,
   kind |-> IF plan[e[2]] = None THEN e[1] ELSE plan[e[2]].kind]

ReplicaSteps(s) ==
  {StepReplicas(views[s], Entry, obs, physical, spec) :
     obs \in Observations, physical \in Counts, spec \in Seeds}

StepService ==
  LET e == FirstEntry
  IN  /\ Placing /\ ~Shaping
      /\ Placements # {}
      /\ \E t \in ReplicaSteps(e[2]) :
           /\ views' = [views EXCEPT ![e[2]] = t.view]
           /\ plan' = IF t.skip THEN plan ELSE [plan EXCEPT ![e[2]] = Planned(e, Entry, t)]
      /\ todo' = todo \ {e}
      /\ UNCHANGED <<store, pc, crs, capacity, pdWants, largest, specs, served, ticked, past>>

FaultyResolvedJudgedOnly(s, t, ds) ==
  [specs EXCEPT ![s] = IF t.drop THEN None ELSE IF ds # None /\ ~t.skip THEN ds ELSE @]

\* The set a row will be rendered with: the last one resolved, forgotten with
\* the view.
Resolved(s, t, ds) ==
  [specs EXCEPT ![s] = IF t.drop THEN None ELSE IF ds # None THEN ds ELSE @]

\* Only a DisaggregatedSet has a pair of roles.  A structural skip takes the
\* service off the wire until its configuration heals.
ShapeSteps(s, ds) ==
  {StepPd(views[s], Entry, obs, physical, ds, roles) :
     obs \in Observations, physical \in Counts, roles \in RoleReadings}

StepShape(ds) ==
  LET s == FirstEntry[2]
  IN  /\ Shaping
      /\ IF ds = None THEN Placements # {} ELSE "ds" \in Placements
      /\ \E t \in ShapeSteps(s, ds) :
           /\ views' = [views EXCEPT ![s] = t.view]
           /\ specs' = Resolved(s, t, ds)
           /\ pdWants' = IF t.skip THEN pdWants
                         ELSE [pdWants EXCEPT ![s] = [want |-> t.want, booked |-> t.view.committed]]
           /\ past' = IF t.drop THEN [past EXCEPT !.steady = @ \ {s}] ELSE past
      /\ todo' = todo \ {FirstEntry}
      /\ UNCHANGED <<store, pc, crs, capacity, plan, largest, served, ticked>>

(***************************************************************************)
(* Allotment.                                                              *)
(***************************************************************************)
PoolOf(s) == IF Pin[s] # NoPool THEN Pin[s] ELSE DefaultPool(largest)

Contenders == {s \in Services : plan[s] # None}
PdContenders == {s \in Services : pdWants[s] # None}
Members(p) == {s \in Contenders : PoolOf(s) = p}
PdMembers(p) == {s \in PdContenders : PoolOf(s) = p}

FaultyBookedMinimums(S) == SumOver([s \in S |-> plan[s].bounds.lo * Gpr[s]], S)

Booked(S) == SumOver([s \in S |-> plan[s].booked * Gpr[s]], S)
PdBooked(S) == SumOver([s \in S |-> ShapeGpuCost(pdWants[s].booked, Group[s])], S)

\* The ledger gap of a pool and the rest of the planner's arguments.
Call(p) ==
  LET M == Members(p)
  IN  [members |-> M,
       want    |-> [s \in M |-> plan[s].want],
       current |-> [s \in M |-> plan[s].booked],
       gpr     |-> [s \in M |-> Gpr[s]],
       lo      |-> [s \in M |-> plan[s].bounds.lo],
       hi      |-> [s \in M |-> plan[s].bounds.hi],
       prio    |-> [s \in M |-> plan[s].prio],
       pos     |-> [s \in M |-> IF plan[s].kind = "llm" THEN s ELSE Max(Services) + 1 + s],
       gap     |-> capacity[p] - Booked(M) - PdBooked(PdMembers(p))]

\* What a shape would grow by, in GPUs.
Need(s) ==
  ShapeGpuCost([r \in Roles |-> Larger(0, pdWants[s].want[r] - pdWants[s].booked[r])], Group[s])

FaultyLeftoverIsTheGap(call, alloc) == call.gap

\* The gap less the planner's growth; what it shed is not credited.
Leftover(call, alloc) ==
  call.gap - SumOver([s \in call.members |-> Larger(0, alloc[s] - plan[s].booked) * Gpr[s]],
                     call.members)

\* Shapes are granted in the order of their keys, each whole or not at all.
Granted(p, leftover) ==
  LET free[n \in Nat] ==       \* what is left before service n
        IF n = 0 THEN leftover
        ELSE IF n - 1 \in PdMembers(p) /\ Need(n - 1) <= free[n - 1]
          THEN free[n - 1] - Need(n - 1)
          ELSE free[n - 1]
  IN  {s \in PdMembers(p) : Need(s) <= free[s]}

FaultyCommittedJudgedOnly(alloc, granted) ==
  [s \in Services |->
    IF s \in granted /\ HasShape(views[s]) THEN Commit(views[s], pdWants[s].want)
    ELSE IF s \in Contenders /\ HasCount(views[s])
      THEN Commit(views[s], [replicas |-> alloc[s]])
    ELSE FreshView]

\* A view dropped by a second, opted-out CR of the key is committed to in
\* vain: the ledger no longer holds it.
Committed(alloc, granted) ==
  [s \in Services |->
    IF s \in granted /\ HasShape(views[s]) THEN Commit(views[s], pdWants[s].want)
    ELSE IF s \in Contenders /\ HasCount(views[s])
      THEN Commit(views[s], [replicas |-> alloc[s]])
    ELSE views[s]]

\* to_wire: a shape without a resolved set has no row.
Row(committed, spec) ==
  IF committed = None THEN None
  ELSE IF "replicas" \in DOMAIN committed THEN [active |-> committed.replicas]
  ELSE IF spec = None THEN None
  ELSE [active |-> IF Engines(committed) > 0 THEN spec.slices ELSE 0,
        shape |-> committed, live |-> spec.shape]

\* A key with a pdengine CR and a job CR: the job's pass has turned the shape
\* that is to be booked into a number, and the tick ends in an AttributeError.
CurrencyClash == \E s \in PdContenders : HasCount(views[s])

AllotCrashes == pc = "step" /\ todo = {} /\ CurrencyClash /\ Abort

AllotAndPublish ==
  LET answer == [p \in Pools |-> Allocate(Call(p))]
      alloc == [s \in Contenders |-> answer[PoolOf(s)][s]]
      granted == UNION {Granted(p, Leftover(Call(p), answer[p])) : p \in Pools}
      after == Committed(alloc, granted)
  IN  /\ pc = "step" /\ todo = {} /\ ~CurrencyClash
      /\ views' = after
      /\ served' = [s \in Services |-> Row(after[s].committed, specs[s])]
      /\ past' = [past EXCEPT !.real = TRUE,
                              !.steady = {s \in ManagedIn(crs) : after[s].committed # None}]
      /\ EndTick
      /\ UNCHANGED <<store, largest, specs, ticked>>

Next ==
  \/ \E s \in Services : \E c \in CRs[s] : Write(s, c)
  \/ \E k \in Kinds, s \in Services : Delete(k, s)
  \/ Pass
  \/ TickStart \/ SnapshotJobs
  \/ \E nodes \in Clusters : ReadCapacity(nodes)
  \/ CapacityFails \/ PlacementFails
  \/ StepOptedOut \/ StepUnplaced \/ StepService
  \/ \E ds \in Sets : StepShape(ds)
  \/ AllotCrashes \/ AllotAndPublish

Spec == Init /\ [][Next]_vars

(***************************************************************************)
(* Properties.                                                             *)
(***************************************************************************)
PlanEntry ==
  [want : Nat, booked : Nat, bounds : [lo : Nat, hi : Nat], prio : Int, kind : Kinds]

\* The type invariant: what is planned, committed and published is a number of
\* replicas or a shape, whatever order the two CRs of a key, a flip of type, an
\* opt-out and a failed read came in.
TypeOK ==
  /\ store \in [Kinds -> [Services -> AnyCR \cup {None}]]
  /\ pc \in {"idle", "jobs", "capacity", "step"}
  /\ crs \in [Kinds -> [Services -> AnyCR \cup {None}]]
  /\ todo \subseteq Kinds \X Services
  /\ capacity \in [Pools -> Nat]
  /\ plan \in [Services -> PlanEntry \cup {None}]
  /\ pdWants \in [Services -> [want : Shapes, booked : Shapes] \cup {None}]
  /\ largest \in Pools \cup {NoPool}
  /\ \A s \in Services :
       /\ views[s] \in [committed : Ledgers \cup {None}, since : 0..AgeCap,
                        comfort : 0..ComfortSustain \cup {None}]
       /\ specs[s] \in Sets \cup {None}
       /\ served[s] \in Rows \cup {None}
  /\ ticked \in BOOLEAN
  /\ past \in [real : BOOLEAN, steady : SUBSET Services]

Publishing == pc = "step" /\ todo = {} /\ pc' = "idle" /\ ~CurrencyClash

\* What a ledger entry costs the pool.
LedgerCost(s, committed) ==
  IF committed = None THEN 0
  ELSE IF "replicas" \in DOMAIN committed THEN committed.replicas * Gpr[s]
  ELSE ShapeGpuCost(committed, Group[s])

CostOf(S, vs) == SumOver([s \in S |-> LedgerCost(s, vs[s].committed)], S)

Stepped(p) == {s \in Members(p) \cup PdMembers(p) : views[s].committed # None}

\* A tick never hands out GPUs the pool does not have: what the services it
\* judged are committed to afterwards fits the capacity it read, unless their
\* bookings and raised floors alone already exceed it.  Shapes are granted
\* after the planner has answered, one after the other, out of one leftover.
NoNewOvercommit ==
  [][ Publishing =>
        \A p \in Pools :
          CostOf(Stepped(p), views') <=
            Larger(capacity[p],
                   PdBooked(PdMembers(p)) +
                   SumOver([s \in Members(p) |->
                              Larger(plan[s].booked, plan[s].bounds.lo) * Gpr[s]],
                           Members(p))) ]_vars

\* Whatever the rules, the freeze, the grant and the other services did, a
\* judged service is published inside the window of the CR the tick read, but
\* for a shape below it whose set is at 0p0d.
ServedInWindow ==
  [][ Publishing =>
        /\ \A s \in Contenders : served'[s] # None =>
             served'[s].active \in plan[s].bounds.lo .. plan[s].bounds.hi
        /\ \A s \in PdContenders : served'[s] # None =>
             \/ Within(served'[s].shape, Bounds(crs["llm"][s]))
             \/ /\ Engines(served'[s].shape) <= Bounds(crs["llm"][s]).hi
                /\ Engines(served'[s].live) = 0 ]_vars

\* C7: the rows a tick publishes are of services some CR of its snapshots
\* manages; a deleted or opted-out one is gone in the first tick that sees it.
NoGhostRows ==
  [][ Publishing =>
        \A s \in Services : served'[s] # None =>
          \E k \in Kinds : crs[k][s] # None /\ ~OptedOut(crs[k][s]) ]_vars

\* A service on the wire stays there while every snapshot holds a managing CR
\* for it and no structural skip forgets it, whatever cannot be read of it
\* meanwhile: the operator would read absence as "unmanaged"
\* (controller.py:369).
NoFlicker ==
  [][ Publishing => \A s \in past.steady : served'[s] # None ]_vars

\* "_pd_specs bookkeeping is the only place" that could leave a shape without
\* a row (snapshot.py): every shape in the ledger has the set it is rendered
\* with, through aborted ticks, flips of type, drops and deletions.
EveryShapeHasSpec ==
  \A s \in Services : HasShape(views[s]) => specs[s] # None

\* An unpinned service's pool "doesn't move because a node went down for
\* maintenance" (k8s_state.py): whichever nodes the default pool was chosen
\* from, cordoning some of them leaves it where it is while a GPU of it can
\* still be scheduled.
Drained(before, after) ==
  /\ DOMAIN before = DOMAIN after
  /\ \A i \in DOMAIN before :
       /\ after[i].pool = before[i].pool /\ after[i].gpus = before[i].gpus
       /\ Schedulable(after[i]) => Schedulable(before[i])

PoolSurvivesMaintenance ==
  \A before, after \in Clusters :
    /\ Drained(before, after)
    /\ Refreshed(before, largest) = largest
    /\ largest \in Usable(after)
    => Refreshed(after, largest) = largest

\* controller.py:305: the gap is what is ready less everything committed, and
\* k8s_state.py:596 says the ledger is the last-served decisions.  A tick that
\* grows a service would then keep all the ledger's rows within the pool.
Tracked(p) == {s \in Services : PoolOf(s) = p /\ HasCount(views[s])'}

LedgerFitsPool ==
  [][ Publishing =>
        \A p \in Pools :
          (\E s \in Members(p) : LedgerCost(s, views'[s].committed) >
                                   Larger(plan[s].booked, plan[s].bounds.lo) * Gpr[s]) =>
            CostOf(Tracked(p), views') <= Larger(capacity[p], CostOf(Tracked(p), views)) ]_vars

\* controller.py:270 and :326: sheds "always go through", the leftover guards
\* growth only.
ShedsGoThrough ==
  [][ Publishing =>
        \A s \in PdContenders :
          HasShape(views[s]) /\ Need(s) = 0 => views'[s].committed = pdWants[s].want ]_vars
=============================================================================
