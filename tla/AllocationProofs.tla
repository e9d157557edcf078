-------------------------- MODULE AllocationProofs --------------------------
(***************************************************************************)
(* What a call of the allocator does to any pool, any wants and any        *)
(* priorities: it stays in every window, spends no GPU the pool does not   *)
(* have and loses none, lets members take turns, serves higher priorities  *)
(* first, ends, and its answer keeps the promise of module Arbiter.        *)
(***************************************************************************)
EXTENDS Allocation, PlannerProofs

(***************************************************************************)
(* The inductive invariant: the frame is orderly.                          *)
(***************************************************************************)
IInv == request \in Requests /\ Orderly(request, frame)

LEMMA InitIInv == Init => IInv
BY RequestsAssumption, StartOrderly DEF Init, IInv

\* Each action is an iteration of the call.
LEMMA NextIterates ==
  ASSUME Next
  PROVE  request' = request /\ Iteration(request, frame, frame')
BY DEF Next, DoVisit, DoNextSweep, DoNextTier, DoEndSweeps, DoDismiss, DoOpenRound,
       DoDonate, DoCloseRound, DoFinish, Iteration

LEMMA NextIInv == IInv /\ [Next]_vars => IInv'
<1> SUFFICES ASSUME IInv, [Next]_vars PROVE IInv'
  OBVIOUS
<1>1. CASE Next
  BY <1>1, RequestsAssumption, NextIterates, IterationKeeps DEF IInv
<1>2. CASE UNCHANGED vars
  BY <1>2 DEF vars, IInv
<1> QED BY <1>1, <1>2

LEMMA IInvAlways == Spec => []IInv
BY InitIInv, NextIInv, PTL DEF Spec

\* What the invariant says of the call and its frame, in parts.
LEMMA IInvParts ==
  ASSUME IInv
  PROVE  /\ CallOK(request) /\ WellFormed(request)
         /\ Sound(request, frame) /\ frame \in Frame(request)
         /\ Swept(request, frame) /\ Preempted(request, frame)
         /\ Balanced(request, frame) /\ Turns(request, frame) /\ Earned(request, frame)
         /\ frame.todo \subseteq request.members
BY RequestsAssumption, FloorCostType DEF IInv, Orderly, Sound, Frame

(***************************************************************************)
(* Safety.                                                                 *)
(***************************************************************************)

\* At every moment of a call each member is inside its window and no GPU beyond
\* the floors' is spent that the pool does not have (planner.py:33-38).
THEOREM AllocationSafe == Spec => [](TypeOK /\ WithinBounds /\ NeverOverspends)
<1>1. IInv => TypeOK /\ WithinBounds /\ NeverOverspends
  BY IInvParts DEF Sound, InWindows, TypeOK, WithinBounds, NeverOverspends
<1> QED BY <1>1, IInvAlways, PTL

\* No iteration leaves a frame the next one cannot work on: its members, sums
\* and shares stay what they are, and no round divides by zero
\* (planner.py:126).
THEOREM AllocationTyped == Spec => []TypeOK
BY AllocationSafe, PTL

\* alloc[s] is in [min, max] in every phase, donors included (planner.py:35).
THEOREM AllocationInWindow == Spec => []WithinBounds
BY AllocationSafe, PTL

\* Whatever donors and takers of different replica sizes pass on to each other
\* in two roundings, allocations and spare together hold the same GPUs from
\* the floors to the answer (planner.py:75 and :123-135).
THEOREM GpusConserved == Spec => []Conservation
<1>1. IInv => Conservation
  BY IInvParts DEF Balanced, Conservation
<1> QED BY <1>1, IInvAlways, PTL

\* Of two members of one tier and one size, the hungry one is never two bumps
\* behind, although a sweep visits them by a deficit that its own bumps change
\* (planner.py:89-107).
THEOREM MembersTakeTurns == Spec => []RoundRobinFair
<1>1. ASSUME IInv PROVE RoundRobinFair
  <2> SUFFICES ASSUME frame.pc = "sweep", NEW k \in request.members, NEW j \in request.members,
                      request.prio[k] = request.prio[j], request.gpr[k] = request.gpr[j],
                      Bumped(k) > Bumped(j) + 1, Deficit(request, frame, j) > 0
               PROVE  FALSE
    <3>1. \A j \in request.members : Deficit(request, frame, j) \in Int
      BY <1>1, IInvParts, WantClampedType DEF Frame, Deficit
    <3> QED BY <3>1 DEF RoundRobinFair
  <2>1. InTurn(request, frame, k, j)
    BY <1>1, IInvParts DEF Turns
  <2>2. Bumped(k) \in Int /\ Bumped(j) \in Int
    BY <1>1, IInvParts, WantClampedType DEF Frame, Bumped
  <2> QED BY <2>1, <2>2 DEF InTurn, Gain, Bumped
<1> QED BY <1>1, IInvAlways, PTL

\* A call never ends with a member short of replicas while one of lower
\* priority could still give one, although donations themselves make donors go
\* hungry and takers grow (planner.py:112-135).
THEOREM NobodyStarvesAbove == Spec => []NoPriorityInversion
<1>1. IInv => NoPriorityInversion
  BY IInvParts DEF Preempted, AtFloor, NoPriorityInversion, Done, Hungry
<1> QED BY <1>1, IInvAlways, PTL

(***************************************************************************)
(* What a step does.                                                       *)
(***************************************************************************)

\* A bump never overtakes: whoever is bumped, nobody of higher priority could
\* be (planner.py:87-107).
THEOREM BumpsByPriority == Spec => PriorityFirst
<1>1. IInv /\ [Next]_vars =>
        [frame.pc = "sweep" =>
           \A k \in request.members : frame'.alloc[k] > frame.alloc[k] =>
             ~ \E j \in request.members :
                 request.prio[j] > request.prio[k] /\ Bumpable(request, frame, j)]_vars
  <2> SUFFICES ASSUME IInv, Next, frame.pc = "sweep", NEW k \in request.members,
                      frame'.alloc[k] > frame.alloc[k],
                      NEW j \in request.members, request.prio[j] > request.prio[k]
               PROVE  ~Bumpable(request, frame, j)
    OBVIOUS
  <2>1. /\ CallOK(request) /\ Sound(request, frame) /\ frame \in Frame(request)
        /\ Swept(request, frame) /\ frame.alloc[k] \in Int
    BY IInvParts DEF Frame
  <2>2. frame'.alloc # frame.alloc
    BY <2>1
  <2>3. PICK m \in frame.todo : frame' = Visit(request, frame, m)
    BY <2>1, <2>2, NextIterates
    DEF Iteration, NextSweep, NextTier, EndSweeps, Neediest, Frame
  <2>4. m \in request.members /\ request.prio[m] = frame.tier
    BY <2>1 DEF Swept, TierMembers
  <2>5. k = m
    BY <2>1, <2>3, <2>4, VisitFacts
  <2> QED BY <2>1, <2>4, <2>5 DEF Swept
<1> QED BY <1>1, IInvAlways, PTL DEF Spec, PriorityFirst

\* The priority pass ends only when no hungry member fits the spare
\* (planner.py:100-109).
THEOREM PassConservesWork == Spec => WorkConserving
<1>1. IInv /\ [Next]_vars =>
        [frame.pc = "sweep" /\ frame'.pc = "preempt" =>
           \A k \in request.members : ~Bumpable(request, frame', k)]_vars
  <2> SUFFICES ASSUME IInv, Next, frame.pc = "sweep", frame'.pc = "preempt",
                      NEW k \in request.members
               PROVE  ~Bumpable(request, frame', k)
    OBVIOUS
  <2>1. /\ CallOK(request) /\ Sound(request, frame) /\ frame \in Frame(request)
        /\ Swept(request, frame) /\ frame.todo \subseteq request.members
    BY IInvParts
  <2>2. /\ frame.todo = {} /\ ~frame.progressed /\ LowerTiers(request, frame) = {}
        /\ frame' = EndSweeps(request, frame)
    <3>1. \A m \in frame.todo : frame' # Visit(request, frame, m)
      BY <2>1, VisitFacts
    <3> QED BY <2>1, <3>1, NextIterates DEF Iteration, NextSweep, NextTier, Neediest, Frame
  <2>3. ~Bumpable(request, frame, k)
    BY <2>1, <2>2, PassLeavesNobody
  <2>4. frame'.alloc = frame.alloc /\ frame'.spare = frame.spare
    BY <2>1, <2>2 DEF EndSweeps, Frame
  <2> QED BY <2>3, <2>4 DEF Bumpable, Deficit
<1> QED BY <1>1, IInvAlways, PTL DEF Spec, WorkConserving

(***************************************************************************)
(* Refinement.  The call's last iteration is the arbiter's decision, and   *)
(* all others are stutters of it.                                          *)
(***************************************************************************)
answerBar == IF Done THEN {frame.alloc} ELSE {}

\* The arbiter speaks of the planner's own windows, floors and costs.
LEMMA PromisedFloors ==
  /\ \A in : Promised!WellFormed(in) <=> WellFormed(in)
  /\ \A in, k : /\ Promised!WantClamped(in, k) = WantClamped(in, k)
                /\ Promised!Floor(in, k) = Floor(in, k)
  /\ \A in : Promised!Floors(in) = Floors(in)
  /\ \A a, b : Promised!Larger(a, b) = Larger(a, b) /\ Promised!Smaller(a, b) = Smaller(a, b)
<1>1. \A a, b : Promised!Larger(a, b) = Larger(a, b) /\ Promised!Smaller(a, b) = Smaller(a, b)
  BY DEF Promised!Larger, Larger, Promised!Smaller, Smaller
<1>2. \A in : Promised!WellFormed(in) <=> WellFormed(in)
  <2>1. \A S : Promised!IsFiniteSet(S) <=> IsFiniteSet(S)
    BY DEF Promised!IsFiniteSet, IsFiniteSet
  <2> QED BY <2>1 DEF Promised!WellFormed, WellFormed
<1>3. \A in, k : Promised!WantClamped(in, k) = WantClamped(in, k)
  BY <1>1 DEF Promised!WantClamped, WantClamped
<1>4. \A in, k : Promised!Floor(in, k) = Floor(in, k)
  BY <1>1, <1>3 DEF Promised!Floor, Floor
<1>5. \A in : Promised!Floors(in) = Floors(in)
  BY <1>4 DEF Promised!Floors, Floors
<1> QED BY <1>1, <1>2, <1>3, <1>4, <1>5

LEMMA PromisedCost == \A in, a : Promised!Cost(in, a) = Cost(in, a)
<1>1. \A f, S : Promised!SumOver(f, S) = Folded(f, S)[S]
  BY DEF Promised!SumOver, Promised!MapThenSumSet, Promised!MapThenFoldSet, Folded, IsSum, First
<1> QED BY <1>1, SumIs DEF Promised!Cost, Cost

LEMMA AnswerAffordable ==
  ASSUME IInv
  PROVE  Promised!Affordable(request, frame.alloc)
<1>1. Cost(request, frame.alloc) <=
        Larger(Cost(request, Floors(request)), request.gap + Cost(request, Retained(request)))
  <2>1. WellFormed(request) /\ Orderly(request, frame)
    BY IInvParts DEF IInv
  <2> QED BY <2>1, OrderlyAffordable
<1> QED BY <1>1, PromisedFloors, PromisedCost DEF Promised!Affordable, Retained

LEMMA AnswerPrioritized ==
  ASSUME IInv, frame.pc = "preempt", frame.queue = {}
  PROVE  Promised!Prioritized(request, frame.alloc)
<1>1. Preempted(request, frame) /\ Earned(request, frame)
  BY IInvParts
<1>2. ASSUME NEW k \in request.members, NEW t \in request.members,
             request.prio[t] < request.prio[k], frame.alloc[k] < WantClamped(request, k)
      PROVE  frame.alloc[t] <= request.lo[t]
  <2>1. Deficit(request, frame, k) > 0
    BY <1>2, IInvParts, WantClampedType DEF Deficit, Frame
  <2> QED BY <1>1, <1>2, <2>1 DEF Preempted, AtFloor
<1> QED BY <1>1, <1>2, PromisedFloors DEF Earned, Eager, Promised!Prioritized

LEMMA AnswerAdmissible ==
  ASSUME IInv, frame.pc = "preempt", frame.queue = {}
  PROVE  Promised!Admissible(request, frame.alloc)
<1>1. frame.alloc \in [request.members -> Nat] /\ InWindows(request, frame)
  BY IInvParts DEF Frame, Sound
<1> QED
  BY <1>1, PromisedFloors, AnswerAffordable, AnswerPrioritized
  DEF Promised!Admissible, Promised!InWindow, InWindows

LEMMA DecideOnce ==
  ASSUME IInv, IInv', [Next]_vars
  PROVE  [Promised!Decide]_<<request, answerBar>>
<1>1. CASE UNCHANGED vars
  BY <1>1 DEF vars, answerBar, Done
<1>2. CASE Next
  <2>1. request' = request /\ Iteration(request, frame, frame')
    BY <1>2, NextIterates
  <2>2. ~Done
    BY <2>1 DEF Iteration, Done
  <2>3. CASE ~Done'
    BY <2>1, <2>2, <2>3 DEF answerBar
  <2>4. CASE Done'
    <3>1. frame.pc = "preempt" /\ frame.queue = {} /\ frame' = Finish(frame)
      <4>1. \A k \in frame.todo : Visit(request, frame, k).pc = frame.pc
        BY IInvParts, VisitFacts
      <4>2. \A d \in frame.donors : frame.pc = "round" => Donate(request, frame, d).pc = "round"
        BY IInvParts, DonateFacts
      <4> QED
        BY <2>1, <2>4, <4>1, <4>2, IInvParts
        DEF Done, Iteration, NextSweep, NextTier, EndSweeps, Dismiss, OpenRound, CloseRound,
            Neediest, FirstMember, Frame
    <3>2. frame'.alloc = frame.alloc
      BY <3>1, IInvParts DEF Finish, Frame
    <3>3. Promised!Admissible(request, frame.alloc)
      BY <3>1, AnswerAdmissible
    <3> QED BY <2>1, <2>2, <2>4, <3>2, <3>3 DEF answerBar, Promised!Decide
  <2> QED BY <2>3, <2>4
<1> QED BY <1>1, <1>2

\* Seen from outside a call is one decision, in every window, affordable and
\* fair to priorities (planner.py:14-38), for any pool: the sweeps and the
\* rounds of preemption implement module Arbiter.
THEOREM PromiseKept == Spec => KeepsPromise
<1>1. Init => Promised!Init
  <2> SUFFICES ASSUME Init PROVE Promised!Init
    OBVIOUS
  <2>1. WellFormed(request) /\ request.members # {}
    BY RequestsAssumption DEF Init
  <2> QED BY <2>1, PromisedFloors DEF Init, Promised!Init, Done, Start
<1>2. IInv /\ IInv' /\ [Next]_vars => [Promised!Decide]_<<request, answerBar>>
  BY DecideOnce
<1> QED BY <1>1, <1>2, IInvAlways, PTL DEF Spec, KeepsPromise, Promised!Spec, answerBar

(***************************************************************************)
(* Every call ends, with the answer of Allocate: what it has done and what *)
(* it still has to do are within the work of its start.                    *)
(***************************************************************************)
Longest == Work(request, Start(request))

OnTrack ==
  /\ Offered(request, frame)
  /\ \E i \in 0..Longest :
       frame = RunOf(request, Longest)[i] /\ i + Work(request, frame) <= Longest

LEMMA InitOnTrack == Init => OnTrack
<1> SUFFICES ASSUME Init PROVE OnTrack
  OBVIOUS
<1>1. request \in Requests /\ frame = Start(request) /\ Work(request, frame) = Longest
  BY DEF Init, Longest
<1>2. Offered(request, frame)
  BY <1>1 DEF Offered, Start
<1>3. CallOK(request) /\ Sound(request, frame)
  BY <1>1, InitIInv, IInvParts
<1>4. Longest \in Nat /\ 0 + Work(request, frame) <= Longest
  <2>1. Work(request, frame) \in Nat
    BY <1>2, <1>3, WorkLeft
  <2> QED BY <1>1, <2>1
<1>5. 0 \in 0..Longest /\ RunOf(request, Longest)[0] = frame
  BY <1>1, <1>4, RunStep
<1> QED BY <1>2, <1>4, <1>5 DEF OnTrack

LEMMA NextOnTrack == IInv /\ OnTrack /\ [Next]_vars => OnTrack'
<1> SUFFICES ASSUME IInv, OnTrack, [Next]_vars PROVE OnTrack'
  OBVIOUS
<1>1. CASE UNCHANGED vars
  BY <1>1 DEF vars, OnTrack, Longest
<1>2. CASE Next
  <2> DEFINE in == request
             run == RunOf(in, Longest)
  <2>1. /\ request' = in /\ Iteration(in, frame, frame') /\ Orderly(in, frame)
        /\ CallOK(in) /\ WellFormed(in) /\ Sound(in, frame) /\ Offered(in, frame)
    BY <1>2, NextIterates, IInvParts DEF IInv, OnTrack
  <2>2. /\ Offered(in, frame') /\ Work(in, frame') < Work(in, frame)
        /\ frame' = Advance(in, frame) /\ Sound(in, frame')
    BY <2>1, IterationWorks, IterationAdvances, IterationKeeps DEF Orderly
  <2>3. Work(in, frame) \in Nat /\ Work(in, frame') \in Nat /\ Longest \in Nat
    BY <2>1, <2>2, WorkLeft, AllocateRuns DEF Longest
  <2>4. PICK i \in 0..Longest : frame = run[i] /\ i + Work(in, frame) <= Longest
    BY DEF OnTrack
  <2>5. Longest' = Longest /\ i < Longest /\ i \in Nat /\ i + 1 \in 0..Longest /\ (i + 1) + Work(in, frame') <= Longest
    BY <2>1, <2>2, <2>3, <2>4 DEF Longest
  <2>6. run[i + 1] = frame'
    BY <2>2, <2>3, <2>4, <2>5, RunStep
  <2>7. \E j \in 0..Longest : frame' = run[j] /\ j + Work(in, frame') <= Longest
    BY <2>5, <2>6
  <2> QED BY <2>1, <2>2, <2>5, <2>7 DEF OnTrack
<1> QED BY <1>1, <1>2

\* Every iteration lowers a measure that is a natural number, so that a call
\* ends, whatever the pool (planner.py:89, 114).
THEOREM CallsWindDown == Spec => EveryIterationCounts
<1>1. IInv /\ OnTrack /\ [Next]_vars =>
        [Work(request, frame') < Work(request, frame) /\ Work(request, frame') >= 0]_vars
  <2> SUFFICES ASSUME IInv, OnTrack, Next
               PROVE  Work(request, frame') < Work(request, frame) /\ Work(request, frame') >= 0
    OBVIOUS
  <2>1. /\ Iteration(request, frame, frame') /\ Orderly(request, frame)
        /\ CallOK(request) /\ WellFormed(request) /\ Offered(request, frame)
    BY NextIterates, IInvParts DEF IInv, OnTrack
  <2>2. /\ Offered(request, frame') /\ Work(request, frame') < Work(request, frame)
        /\ Sound(request, frame')
    BY <2>1, IterationWorks, IterationKeeps DEF Orderly
  <2>3. Work(request, frame') \in Nat
    BY <2>1, <2>2, WorkLeft
  <2> QED BY <2>2, <2>3
<1> QED BY <1>1, InitIInv, NextIInv, InitOnTrack, NextOnTrack, PTL DEF Spec, EveryIterationCounts

\* The two forms of a call in this specification agree: the function that
\* module Controller calls, and the iterations of module Allocation.
LEMMA AllocateIsTheCall == Spec => [](Done => Allocate(request) = frame.alloc)
<1>1. IInv /\ OnTrack => (Done => Allocate(request) = frame.alloc)
  <2> SUFFICES ASSUME IInv, OnTrack, Done PROVE Allocate(request) = frame.alloc
    OBVIOUS
  <2>1. PICK i \in 0..Longest : frame = RunOf(request, Longest)[i]
    BY DEF OnTrack
  <2>2. /\ Longest \in Nat /\ frame.pc = "done"
        /\ Allocate(request) = RunOf(request, Longest)[Longest].alloc
    BY IInvParts, AllocateRuns DEF Done, Longest
  <2>3. RunOf(request, Longest)[Longest] = frame
    BY <2>1, <2>2, RunRests
  <2> QED BY <2>2, <2>3
<1> QED BY <1>1, InitIInv, NextIInv, InitOnTrack, NextOnTrack, PTL DEF Spec
=============================================================================
