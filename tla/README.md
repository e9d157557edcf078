# decision_gen: TLA+ specification, model checking and proofs

`src/src/decision_gen` turns SLO requirement CRs, Prometheus signals and
cluster state into replica counts, once a minute, and serves them on
`GET /decisions`. This directory holds a specification of the program written
from its source, the TLC runs that check it on small instances and the proofs
that TLAPS checks for every instance.

## 1. The system

| part | state it keeps | operations | interacts with |
|---|---|---|---|
| controller (`controller.py`) | `_views`, `_snapshot`, `_has_ticked`, `_pd_specs` | `_loop`, `tick`, `snapshot`, `ready`, `_drop_pd_view` | reads both CR stores, the cluster and Prometheus; steps views; calls the planner; shares the snapshot with HTTP threads |
| service view (`serviceview.py`) | `committed` (a number of replicas or a shape), `last_change_at`, `comfortable_since` | `step`, `_step_pd`, `_pd_skip`, `commit`, `reset_committed`, `_ensure_seeded` | called by the tick; calls the rules |
| sizing rules (`thresholds.py`, `triggers.py`, `direction.py`) | none | `classify`, `evaluate`, `evaluate_job`, `evaluate_pd`, `reconcile` | pure |
| planner (`planner.py`) | the frame of one call | `resolve` | pure; called once per tick |
| pd engine (`pd.py`) | none | shapes, windows, steps of prefill and decode engines | pure |
| CR store (`slo_store.py`) | `_crs`, `_synced`, the backoff | `_run`, `_stream_once`, `_apply`, `snapshot` | one watch thread per CR kind |
| kubernetes state (`k8s_state.py`) | `_largest_pool` | `resolve_placement`, `pool_capacity` | API reads that may fail; `pool_capacity`, read first in a tick, moves the default pool that the placements after it use |
| signals (`signals.py`) | none | one query per metric | each reading is ok, no_traffic or missing_series |
| wire (`snapshot.py`), server (`server.py`, `__main__.py`) | none | `to_wire`, `do_GET`, `main` | HTTP threads read the flag, then the snapshot |

What makes it hard, and what each part must get right:

* **Controller.** The stores change between a tick's two snapshots; a failed
  read ends the tick with some views already moved; one key may hold a CR in
  both stores. It must publish a row for exactly the managed services, inside
  their windows, never drop one from the wire because it could not be read, and
  not hand out GPUs the pool lacks.
* **Service view.** One clock and one streak, moved by four paths, gate three
  rules over long runs of ticks. No unearned shed, no growth inside the
  cooldown, no turn against a rollout, no compounding; and no lock-up: a hungry
  service must come to its maximum and a calm one to its minimum.
* **The pdengine branch.** A shape is two numbers with one clock: each role is
  frozen against its own rollout, on top of a clamp that moves engines between
  the deltas of the two, on top of rules that look at their sum. A CR whose type
  flips changes the currency of the ledger under the clock.
* **Planner.** Integer roundings between replicas of different sizes. It must
  terminate, conserve GPUs, keep windows and respect priority.
* **CR store.** Watch sessions end, break and lose what they had not delivered,
  while authors go on. The cache must hold what the cluster holds, never forget
  a live CR, forget a deleted one, and not call itself synced on half a list.
* **Server.** Readiness must mean that there is an answer.

`PROJECT.json` lists each hazard at its line, with the property that would
catch it.

## 2. The modules

| module | models |
|---|---|
| `Numbers`, `Sums` | `max`, `min`, `math.ceil(a / b)`; the sum over a finite set |
| `Rules` | thresholds, triggers and direction, as constant-level operators |
| `PdEngine` | `pd.py`, `evaluate_pd`, `reconcile_pd`, likewise |
| `ServiceView` | the ledger record and `step` for a number of replicas |
| `PdView` | the dispatch between the two branches of `step`, `_step_pd`, `_pd_skip` |
| `ServiceLife` | one replica service: CR edits, replica churn, time, ticks |
| `ServiceLiveness` | the same in a working cluster, with fairness |
| `PdLife` | one disaggregated service: flips of type, edits of the set, roles coming and going, time passing and the clock set back, ticks |
| `Planner` | the allocator: its frame, one operator per loop iteration, and `Allocate`, the whole call |
| `Allocation` | one call as a state machine |
| `Arbiter` | what a call promises; `Allocation` implements it |
| `Cluster` | `pool_capacity`, the default pool, the order of `resolve_placement` |
| `Controller` | the tick over several services, composed of `PdView`, `Planner` and `Cluster` |
| `DecisionService` | the controller beside the HTTP handler |
| `SloStore` | the watch thread and its cache, against the API server |
| `ServiceViewProofs`, `ServiceLifeProofs`, `PdViewProofs`, `PdLifeProofs`, `PlannerProofs`, `AllocationProofs`, `ControllerProofs`, `SloStoreProofs` | lemmas and theorems |
| `MC*` | constants for TLC |

Definitions named `Faulty...` are plausible mistakes in the definition that
follows them. No specification uses one; each is there to show that a property
fails when the code is wrong (`PROJECT.json`, `mutants`).

### How state and steps correspond to the code

**Numbers and units.** Replica counts are unbounded integers, as in Python.
Rates are per mille and fractions percent, so the code's floating-point ceilings
are exact integer ceilings here. The code computes `math.ceil(n * 0.15)`,
`n * 1.2` and `n * 1.5` in floats: for every n up to 2000 they equal the integer
ceilings. `r` is clipped to 0.99 as at `triggers.py:88`; its lower clip is dead,
because a rate below the threshold has returned before. `pd.py` scales a shape by
`bound / E` in floats; exact ratios give the same shape for every slice of up to
26 engines, and at 28 engines the rounding may take the residual engine from the
other role. Margins are exact fractions.

**PdEngine.** Where `pd.py` walks one engine at a time (trim, pad, the residual
of the scaled shape) the result is a closed form, so that the prover can use it;
`MCPdLife` states the loops as recursive functions and TLC compares the two on
every shape of up to 8 engines a role.

**ServiceView.** `last_change_at` and `comfortable_since` are only ever compared
with `now` through the three thresholds, so a view keeps their ages, saturated
at the largest threshold they are compared with (`since`, `comfort`; `None` is
no streak). A fresh view has `last_change_at = 0.0`, long ago. `Step` follows
`step` in order: seed, skip when the replica count is missing *or zero*, max
shrink (committed and stamped inside `step`), verdicts, streak, gates, hold on a
missing metric, rules, clamp, freeze. It returns the view, the skip flag and the
want; the caller commits, as in the code. Log texts, hold reasons and the
`Transition` record's display fields are left out.

**PdView.** A number of replicas is `[replicas |-> n]`, a shape
`[prefill |-> p, decode |-> d]`. `StepPd` follows `_step_pd`: structural skip
without a pair of roles or with several slices, seed (after `reset_committed`
when the ledger is a number), transient skip without replicas, bounds fix from
the set's spec, structural skip when nothing fits, streak, gates, rules, clamp,
freeze per role. A structural skip returns `drop`, because the controller calls
`_drop_pd_view` on exactly these. `StepReplicas` is `ServiceView!Step` on the
bare number, after a reset when the ledger is a shape.

**ServiceLife.** `cr`, `ready` and `view` are the CR in the store, the ready
replicas and the controller's view; `hist` is history that no action reads:
when the ledger really moved, when a judged tick last saw less than comfort, and
what the last step was.
It is kept from the ticks themselves and not from the view, which is what the
properties compare it with. A tick is one step, because nothing a single
service can see interleaves with it; it may also fail after the service was
stepped and before anything is committed (`TickAborted`), which covers the first
of two passes over a key that has CRs of both kinds. The planner is represented by what it can
answer: anything from the floor to the clamped want, below the baseline being
preemption. `Allocation` checks, and `AllocationSafe` proves, that its answer
lies there. `Converge` is the operator that applies decisions, `Disturb`
everything else that moves replicas (crashes, drains, hand edits).

**PdLife.** The same for a disaggregated service, with the set's spec (`ds`) and
the ready engines per role; a role's series may be missing. `Pass` and `SetBack`
are the wall clock: the code works with `time.time()`, so every age can shrink,
below zero as well. `hist` ages by a clock that never goes back. A clock set
*forward* is left out (section 5). A judged tick
ends aborted, granted whole or denied whole.

**Planner / Allocation.** A frame holds the locals of `_allocate_in_pool`. The
three phases run one iteration per step: a visit of a sweep, the next sweep, the
next tier, the end of phase 2; dismissing a served member, opening a round,
one donation, closing a round, the end. A list that the code sorts once and
walks is the set of what is left, walked in the same order; this is sound
because a sweep changes a member's deficit only when it visits it. Ties follow
the code: keys inside a sweep, the placement dict's order (`pos`) for the stable
sort and the donors.

**Arbiter.** The promise of a call in one step: any allocation in every window,
affordable (floors, the gap, and what preemption took; what a member sheds by
itself is not credited to the others) and fair to priorities. `Allocation`
refines it with `answer` being the frame's allocation once the call is over.

**Cluster.** A pool is a number in the order of the names. `Refreshed` is the
update of `_largest_pool` in `pool_capacity`; `Resolve` is the order in which
`resolve_placement` asks for the kinds of workload: a 404 goes on to the next
kind, so does a 403 on the DisaggregatedSet only, a malformed one ends without a
placement, and any other error raises.

**Controller.** `pc` is where the tick is: idle, between the two snapshots,
before capacity, stepping. Store writes are possible when the tick can still
see them (idle or between the snapshots). Each entry of `merged` is stepped by
one action, llm entries by key and then job entries by key: it is opted out
(`StepOptedOut`), unplaced (`StepUnplaced`), fails (`PlacementFails`: the tick
ends, the ledger stays as it is), or is stepped as replicas (`StepService`) or
as a shape (`StepShape`). `specs` is `_pd_specs`, the set a shape is rendered
with. A key in both stores is stepped twice, the second pass overwriting the
first's plan at its place in the dict. `AllotAndPublish` is everything after the
loop: gap, planner per pool, the leftover grant of shapes in the order of their
keys, commit, publish. `Row` is `to_wire`. When the key of a judged shape also
has a job CR, the job's pass has turned its ledger into a number and the booking
raises (`CurrencyClash`, `AllotCrashes`). `TickStart` sets the readiness flag,
as the code does, before any result. The watchers' bounded waits before the
first tick are not a guard: they time out, so the first tick may see empty
stores, which `Init` allows.

**DecisionService.** A GET reads the flag and, in a later step, the snapshot.
`past.real` remembers whether any tick has published.

**SloStore.** `api` is what the cluster holds, `listing` and `feed` what an open
session has still to deliver, `crs`, `synced`, `backoff` and `stopping` the
thread's own state, `pc` whether it is about to call the stream, streaming,
waiting or gone. The watch client and the server are external and modelled by
what `_stream_once` asks of them: without a `resourceVersion` every session opens
with an ADDED per existing CR; changes follow in order; bookmarks come after the
list, whenever the server likes, or never; as the comment at
`slo_store.py:153` says, an ERROR comes only after the list; the stream
may raise at any point. An event and the lock it takes are one step, and so is
`snapshot()`. Specs are told apart by the edit that wrote them (`rev`).

## 3. The runs

| run | instance | shows |
|---|---|---|
| `service_life` | 4 CRs (llm 0..2, llm 1..4, job 2..3, one opted out), up to 4 replicas, 9 readings, deployed rule constants, cooldowns 2/4/3 units of 7.5 minutes; 19 thousand states | `ClockIsHonest`, `ShedIsEarned`, `GrowthIsSpaced`, `NoReversal`, `GrowthFollowsEvidence` |
| `pd_life` | 4 CRs (pdengine 0..4, 4..5 and 0..1, replica 1..2), 4 sets (0p0d, 1p1d, 3p2d, one of two slices), 6 readings, cooldowns 1/2/1 units of 20 minutes, the clock set back by up to a unit below a change; 87 thousand states | `ClockNeverOverclaims`, `PdShedIsEarned`, `PdGrowthIsSpaced`, `RolesMoveApart`, `WindowIsKept`, `PairIsKept` |
| `service_liveness` | 2 CRs, cooldowns 2/4/3 units; 6.4 thousand states | `HungryReachesMax`, `CalmReachesMin` |
| `allocation` | three members, six profiles each, ten priority assignments, two dict orders, gaps -1, 0, 2, 5; 183 thousand states | window, budget, conservation, fairness, work conservation, termination and the measure that shows it, and that the call implements `Arbiter` (`KeepsPromise`) |
| `controller` | two services in one pool: the first with a pdengine CR 2..3 and a job CR 1..2, priority 1, 2 GPUs a replica; the second with an llm CR 0..2 and an opt-out, 1 GPU; two clusters, of 2 and 4 schedulable GPUs; a 403, a malformed workload, an API error; 559 thousand states | `NoNewOvercommit`, `ServedInWindow`, `NoGhostRows`, `NoFlicker`, `EveryShapeHasSpec` |
| `decision_service` | two replica services, one allowed to opt out and pinned to no pool; two pools, the larger drained step by step; 21 thousand states | `PoolSurvivesMaintenance`, `RowAppears`, `RowLeaves` |
| `slo_store` | two CRs, an id of the first's own and one that both may carry, a missing id; 3 edits, 2 broken sessions, waits of 1 to 3; 306 thousand states | `CacheKeepsUp`, `FirstSyncIsComplete`, `StaysUsable`, `EveryLiveKeyCached` |

Why the bounds are enough:

* *Ages* are exact: saturating at the threshold loses nothing the code can see.
  Units of 7.5 minutes make the deployed 15/30/20 minutes 2/4/3, the sustain
  time rounded up: the order of the thresholds and room for ticks between them
  are kept.
* *Shapes.* `GrowPct` and `ShedPct` are 30 in `pd_life` instead of the deployed
  15, so that a shape of four engines already sheds two at once: that is the step
  that could take a role's last engines, and that trim and pad have to cut. The
  CR 4..5 cannot be met by growth from 1p1d in one tick when one role is frozen,
  the CR 0..1 is too narrow for a pair.
* *Replicas* up to 4: steps are one replica there, and the fire alarm's caps
  (1.2 and 1.5) still differ (4 to 5 and 4 to 6), as do clamp, ramp and drain.
* *Three members* are the fewest with two donors of one tier below a taker,
  or with a cheap and a dear member of one tier under a higher one. The profiles
  put sizes 1, 2 and 4 against each other, so both roundings bite.
* `Allocate` runs a call for as many iterations as its start can have work for
  (`Work`, at most 89 in the allocation run), so it needs no bound of its own.
  `EveryIterationCounts` checks that this is enough.
* *Cooldowns are zero* in the controller runs: timing is the subject of
  `ServiceLife` and `PdLife`, and zero cooldowns leave more steps open.
* `decision_service` has no shapes: the guards of `StepShape` under fairness are
  too slow for TLC. `pd_life` and `controller` have them.
* The controller leaves an edit that a running tick cannot read until the tick
  is over. The tick's results do not depend on it, and every property of the
  run is about what the tick itself read.
* `MaxEdits` 3 lets a CR be written, renamed and deleted, or two be written and
  one deleted; edits fall before, during, between and after sessions.
  `MaxFaults` 2 lets two sessions in a row break, so that the wait reaches its
  cap. Clean ends of sessions are not bounded.
* `CHECK_DEADLOCK FALSE` in the allocation runs: a call ends. In the store's:
  the thread has left and the authors have used their edits.

### Fairness

`ServiceLiveness` asks weak fairness of the tick, the clock and the operator:
`_loop` ticks for ever and catches every exception, time passes, and the
operator is the program's consumer. In that run every read succeeds and the
pool has room; load and CR may change at any time and need only settle.
`DecisionService` asks weak fairness of the tick's own steps, and strong
fairness of the two kinds of reads that can fail (the nodes, and each service's
own): a read that is attempted again and again succeeds again and again. Nothing
is asked of CR authors, clients or time.

`SloStore` asks weak fairness of the thread's own steps (connecting, taking the
list, waiting) and of the end of a session, which `timeout_seconds=300` bounds.
Bookmarks, changes and faults are owed by nobody.

### Where the code and its documents disagree

Five runs check a sentence of the repository and TLC refutes it:

* `floor_is_honoured`: "mins are CR authority and we will honor them regardless"
  (`controller.py:285`). A service at zero replicas is skipped as having no
  evidence, so a raised minimum never reaches the planner.
* `ledger_fits_pool`: the gap is to subtract the last-served decisions
  (`k8s_state.py:596`). A skipped service is served but not booked.
* `sheds_go_through`: "Sheds always go through" (`controller.py:270`). A shed of a
  shape needs no GPUs, but is granted only if that is at most the leftover, which
  is negative when the pool has lost nodes.
* `no_placeholder_served`: `/decisions` is to stay unready until a real tick has
  completed (`README.md:79`). The flag is set when the first one starts.
* `deleted_crs_leave`: "Deleting the CR removes the service from the next list"
  (`openapi.yaml:41`). A deletion that no session delivers, because it falls
  between two of them or is still under way when one ends, is never made up for:
  lists only add. The cached CR then stays until the process restarts, and
  with it the service's row and its booked GPUs. In the run the one
  CR keeps its id. (With ids that authors may change, an id given up in an edit
  stays in the same way.)

Others were met on the way and have no run:

* `_synced` is "set after first watch event of any kind" (`slo_store.py:48`), and
  `wait_synced` blocks "until the watch has delivered its first event", where "Any
  event counts" (`:84`, `:86`). In the code an ADDED does not count: only a
  BOOKMARK, an ERROR, a MODIFIED or a DELETED sets the flag, so a store whose
  server sends its list and none of these stays unsynced and the first tick waits
  out its ten seconds. The later comment (`:149`) and
  `tests/test_slo_store.py:84` ("first ADDED alone doesn't sync") side with the
  code. `FirstSyncIsComplete` states what these say and holds of the code; it
  fails for the behaviour of the older sentences, which its mutant
  (`FaultyApplySyncsOnAny`) is.
* A missing series is listed as a reset of the comfort streak
  (`serviceview.py:592`); when the replica count is missing or zero in the same
  tick, `step` returns before the reset (`:542`), so comfort from before an
  outage of the metrics counts after it.
* Preemption is to "grant the freed GPUs to the unsatisfied service"
  (`planner.py:31`). Each donor's GPUs are granted alone and rounded down
  (`:122`); the remainders stay in `spare`, which nothing spends.
* `planner.py:36` bounds growth by the gap, which raised floors and preempted
  grants exceed by design (`NeverOverspends`, `NoNewOvercommit` and `Arbiter`
  state what does hold).
* `evaluate_pd` calls its argument the live shape (`triggers.py:182`); it is given
  the committed one.
* The CR's window is to be "authority on the wire" (`serviceview.py:408`). A
  ledger that has left the window while the set's spec is 0p0d is compressed to
  1p1d, which may be below the minimum, and grows from there one unfrozen role
  at a time. A CR raised from 0..2 to 4..5 can so be served 1p1d and 1p2d.
* "A PD service needs at least one of each" role (`pd.py:228`). A set of one role
  only (2p0d, say) seeds a shape of that role, which keeps no engine of the other
  for as long as nobody violates the other's metric, nothing fires and the total
  stays in the window.
* A pdengine CR and a job CR under one key make every tick fail
  (`controller.py:313`), for all services, until one of them goes.
* The docstring of `step` says it does not commit (`serviceview.py:492`), while
  seed, max-shrink and bounds fix do.

## 4. The proofs

All theorems hold for every value of the constants that satisfies the named
assumptions (`RulesAssumption`, `CooldownAssumption`, `LifeAssumption`,
`PdLifeAssumption`, `RequestsAssumption`, `ClusterAssumption`,
`ControllerAssumption`, `StoreAssumption`): any CRs, sets, observations and
thresholds, any number of services, members, engines, GPUs, edits and faults.
TLC evaluates each assumption on the instances of the runs.

* `ServiceViewProofs` proves what one `step` can do: the ceilings are integers
  and monotone, a window is never empty, a clamp stays inside, a fire moves up
  and at most by its cap, a proposal above the live count needs the alarm or an
  open gate, one below needs the shed gate, and the freeze never lets a proposal
  against the phase through (`JudgedFacts`).
* `ServiceLifeProofs`. `ClockIsHonest` (`since = hist.moved`,
  `comfort <= hist.uneasy`) is inductive together with `TypeOK`: every path that
  moves the ledger goes through `Commit`, and the streak restarts whenever a
  judged tick sees less than comfort. It is the strengthening the action
  properties need, for the code's gates look at the view, and the properties at
  what really happened. `JudgedTick` does the case work once: from an honest
  view, a judged tick keeps it honest, grows only as allowed and shrinks only as
  earned. Theorems: `LedgerClock`, `LifeTyped`, `ShedEarned`, `GrowthSpaced`,
  `RolloutNotReversed`, `GrowthBounded`.
* `PdViewProofs` does the same for shapes. The closed forms of trim and pad stay
  between the ledger and the proposal in each role (`TrimFacts`, `PadFacts`), the
  clamp ends in the window (`ClampPdFacts`), freezing roles one by one keeps that
  in the direction in which it matters (`FrozenOnTheWay`), and a scaled shape
  plus its residual lands on the bound (`LandedFacts`, by arithmetic on
  quotients). `StepPdFacts` and `StepReplicasFacts` sum up a step of a view whose
  ledger may be of either currency.
* `PdLifeProofs`. The invariant is `TypeOK`, `ClockNeverOverclaims`, and that a
  view without a ledger has no streak. `SettledMoves` says what a judged tick may
  do to a shape, `GatesEarned` what an open gate says of the time that really
  passed, the clock set back included. The exception in `WindowIsKept` is no
  narrower for a reason: 1p1d alone would not do, since growth from there may be
  half frozen, which TLC shows on a CR of 4..5. Theorems: one for each of
  the run's properties.
* `PlannerProofs` holds what is true of the planner's operators, apart from any
  state machine, so that both `Allocation` and `Controller` can cite it. `Orderly`
  says of a frame everything a call keeps, in six parts, and
  `IterationKeeps` that each iteration keeps it (a lemma per iteration and part):
  * `Sound`: types, windows and budget. The interesting step is `DonateSound`: a
    taker's bumps cost no more than the donor freed, whatever the two sizes.
  * `Balanced`: the GPUs spent and the GPUs left add up to what there was.
  * `Swept`: during a sweep nobody of a higher tier can be bumped, and nobody of
    this tier whom a sweep without progress has passed.
  * `Preempted`: below a hungry member that has had its turn everything is at its
    floor, and so is everything below the donors of a round. Donors only go down,
    and one that goes hungry by giving is above nothing that could give, which
    keeps this true to the end.
  * `Turns`: of two members of one tier and size, the one that wants more is at most
    a bump behind the other, and then it is its turn in this sweep or it no longer
    fits. `RoundRobinFair` is the first half of this, which alone is not inductive.
  * `Earned`: nobody is below its start while the sweeps last, and afterwards whoever
    is has somebody above it who wanted to grow.

  The sums are folds in the model (`Sums`), and the library's induction takes an
  operator, which the provers cannot instantiate. The module therefore proves
  induction for a *set* of numbers or of sets (`NatGrow`, `SetGrow`), that a fold
  over a finite set satisfies its equation (`NatRecursion`, `SumFacts`), and from it
  `SumUnion`, `SumOrder` and `SumChange`.

  `IterationWorks` is the argument for termination. `Work` charges a sweep for every
  place it has still to visit, a bump two sweeps of all members (the one it is in and
  the one its progress asks for), and a replica below the queue three steps (opening a
  round, the donation, closing it); each iteration lowers it. It needs `Offered`: the
  taker of a round is the first in the queue, its need is positive and every donor has
  something to give, so that each donation takes a replica which nobody behind it in
  the queue can win back. The walks are strict orders (`WalksAreOrders`), so
  `Advance` is the only iteration there is. Hence the run that the recursive function
  in `Allocate` makes is orderly throughout and at rest at its end (`AllocateEnds`).
* `AllocationProofs`. The inductive invariant is that the frame is orderly.
  Theorems: `AllocationSafe`, `AllocationTyped`, `AllocationInWindow`,
  `GpusConserved`, `MembersTakeTurns`, `BumpsByPriority`, `PassConservesWork`,
  `NobodyStarvesAbove`, `CallsWindDown` (`EveryIterationCounts`, the measure), and the refinement `PromiseKept`: the initial frame maps to
  no answer, every iteration to a stutter but the one that ends the call, and that
  one answers within `Arbiter`'s windows, budget and priorities.
  `RequestsAssumption` asks only for what `CallWellFormed` proves of the
  controller's calls (a finite set of members with floors, ceilings, sizes and
  distinct places), and that there is a member, as in every pool the code visits.
  The lemma `AllocateIsTheCall` keeps the two forms of a call in these modules in
  step; it says nothing of the code.
* `ControllerProofs`. `BooksKept` (a shape in a ledger has the set it is rendered
  with) is kept because every way into a shape goes through `StepShape`, which
  books the set, and every way out through a drop or a reset. `Accounted` adds that
  each ledger belongs to a CR in the tick's snapshots that manages it or has still
  to be stepped. `Typed` adds the rest: the types of views, plans and rows, what a
  plan's entry says of the ledger it was made from, and which services have been in
  every snapshot since the process started. Its steps cite `StepPdFacts` and
  `StepReplicasFacts` for a view and `AllocateEnds` for the planner's answer.
  Theorems: `ShapesHaveSpecs`, `GhostsLeave`, `ControllerTyped`, `WindowServed`,
  `RowsStay`, and the two about GPUs:
  * `NothingSpentTwice`. What a tick commits in a pool is, service by service, the
    planner's answer, a granted shape, or the booking of a shape that was denied.
    The planner's answer costs at most the gap on top of the bookings, or the floors
    (`CallCosts`, `AnswerBounds`), and the shapes granted in a pool cost together at
    most the leftover they are granted from (`GrantBound`, by induction over the
    order of the keys, as `NatGrow` allows). Added over the pool's members
    (`PoolSpend`) that is the property: the capacity is exceeded only by what the
    bookings and the raised floors exceed it by alone.
  * `PoolStays`. Cordoning nodes changes no inventory and adds no capacity
    (`DrainedCapacity`), so the pool with the largest inventory stays the choice
    while it has a GPU to schedule. It is a fact of `Refreshed` for any two clusters.

  `ControllerAssumption` lets only llm CRs be pdengine, which is what
  `docs/openapi.yaml:63` and every document of the repository say of the type. The
  code itself does not look at the kind, so a job CR of that type is outside the
  model and the theorems.
* `SloStoreProofs`. What the cache holds is settled only at the end of a session,
  so the invariant says what an open session still owes it: the current spec of
  an owner is cached, to be listed, or in the feed (`Owed`), as the last word on
  its id (`Latest`), and nothing else is under way once it is there (`Quiet`).
  An owner is a CR whose id no other CR can carry. Theorems: `StoreTyped`,
  `StoreKeepsUp`, `FirstSyncComplete`, `CacheStaysUsable`.

Every invariant and every action property of the passing runs is a theorem, and so
is the refinement. Only model-checked are the liveness properties, which are out of
the prover's reach: `HungryReachesMax`, `CalmReachesMin`, `RowAppears`, `RowLeaves`,
`EveryLiveKeyCached` and `Termination`. Of the last, `CallsWindDown` proves the
part that is safety: no call can take more iterations than its start has work.

## 5. Not modelled

* `signals.py`, and the parsing of workload specs in `k8s_state.py`: stateless
  I/O. Their outcomes (a value, no traffic, a missing series; a placement, none,
  an error) are inputs of the models. Query strings, retries inside the client
  libraries and the arithmetic of a GPU count in a pod template are not.
* JSON, logging, query filters of the server, its
  other routes.
* `docs/pd_simulations.py`: a harness that drives `pd.py` and prints tables; it
  is no part of the service.
* A wall clock set forward. `now` is `time.time()` (`controller.py:139`), so a
  forward step ages the cooldown and the comfort streak of every view at once and
  opens the gates before their time. The models have no such step, and
  `ClockIsHonest`, `ClockNeverOverclaims` and the properties about spacing and
  earned sheds do not hold for one; `ServiceLife` has no step back either.
* A restart: nothing is persisted, so a restarted process is `Init`.
* Shapes beside HTTP clients and liveness (`decision_service`), for the size of
  the instance.

## 6. Plan

What is left, in order:

1. A run of `decision_service` with one shape, once the reads of a shape have a
   cheaper fairness condition.
2. The closed forms of `PdEngine` against its loops as a theorem, with the
   induction of `PlannerProofs` (`MCPdLife` compares them up to 8 engines a role).
