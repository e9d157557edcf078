----------------------------- MODULE Allocation -----------------------------
(***************************************************************************)
(* One call of the allocator of module Planner, an iteration of its loops  *)
(* per step, and what its answer promises.                                 *)
(***************************************************************************)
EXTENDS Planner

CONSTANT Requests   \* the calls to consider

\* A pool is one that some service is placed in (planner.py:50).
ASSUME RequestsAssumption ==
  \A in \in Requests : WellFormed(in) /\ in.members # {}

VARIABLES request, frame

vars == <<request, frame>>

Init == request \in Requests /\ frame = Start(request)

DoVisit ==
  /\ frame.pc = "sweep"
  /\ \E k \in Neediest(request, frame) : frame' = Visit(request, frame, k)
  /\ UNCHANGED request

DoNextSweep ==
  /\ frame.pc = "sweep" /\ frame.todo = {} /\ frame.progressed
  /\ frame' = NextSweep(request, frame) /\ UNCHANGED request

DoNextTier ==
  /\ frame.pc = "sweep" /\ frame.todo = {} /\ ~frame.progressed
  /\ LowerTiers(request, frame) # {}
  /\ frame' = NextTier(request, frame) /\ UNCHANGED request

DoEndSweeps ==
  /\ frame.pc = "sweep" /\ frame.todo = {} /\ ~frame.progressed
  /\ LowerTiers(request, frame) = {}
  /\ frame' = EndSweeps(request, frame) /\ UNCHANGED request

DoDismiss ==
  /\ frame.pc = "preempt"
  /\ \E k \in Foremost(request, frame.queue) :
       Served(request, frame, k) /\ frame' = Dismiss(frame, k)
  /\ UNCHANGED request

DoOpenRound ==
  /\ frame.pc = "preempt"
  /\ \E k \in Foremost(request, frame.queue) :
       ~Served(request, frame, k) /\ frame' = OpenRound(request, frame, k)
  /\ UNCHANGED request

DoDonate ==
  /\ frame.pc = "round"
  /\ \E t \in FirstMember(request, frame.donors) : frame' = Donate(request, frame, t)
  /\ UNCHANGED request

DoCloseRound ==
  /\ frame.pc = "round" /\ frame.donors = {}
  /\ frame' = CloseRound(frame) /\ UNCHANGED request

DoFinish ==
  /\ frame.pc = "preempt" /\ frame.queue = {}
  /\ frame' = Finish(frame) /\ UNCHANGED request

Next ==
  \/ DoVisit \/ DoNextSweep \/ DoNextTier \/ DoEndSweeps
  \/ DoDismiss \/ DoOpenRound \/ DoDonate \/ DoCloseRound \/ DoFinish

Spec == Init /\ [][Next]_vars /\ WF_vars(Next)

Done == frame.pc = "done"

\* The type invariant.  A round divides its need by the number of donors it
\* started with (planner.py:126), which is not zero while one is left to ask.
TypeOK ==
  /\ WellFormed(request)
  /\ frame \in Frame(request)
  /\ frame.pc = "round" => frame.taker \in request.members
  /\ frame.donors # {} => frame.share # 0

(***************************************************************************)
(* Safety.                                                                 *)
(***************************************************************************)

\* No member is ever below its floor or above its clamped want, in any phase:
\* a donor gives no more than it has above its minimum, and a taker gets no
\* more than it lacks (planner.py:35 and :38).
WithinBounds ==
  \A k \in request.members :
    request.lo[k] <= frame.alloc[k] /\ frame.alloc[k] <= WantClamped(request, k)

\* Only the floors may take a pool below zero: bumps and preemption never
\* spend GPUs the pool does not have.
NeverOverspends ==
  frame.spare >= Smaller(0, request.gap - FloorCost(request))

\* GPUs are neither made nor lost on their way between donor, taker and
\* spare, although donors and takers count them in replicas of different size.
Conservation ==
  frame.spare + Cost(request, frame.alloc) =
    request.gap - FloorCost(request) + Cost(request, Floors(request))

\* Within a tier members of the same size take turns: one is two bumps ahead
\* of another only when the other has all it wants.
Bumped(k) == frame.alloc[k] - Floor(request, k)

RoundRobinFair ==
  frame.pc = "sweep" =>
    \A k, j \in request.members :
      /\ request.prio[k] = request.prio[j]
      /\ request.gpr[k] = request.gpr[j]
      /\ Bumped(k) > Bumped(j) + 1
      => Deficit(request, frame, j) <= 0

\* A member starves only when everything of lower priority is at its floor: of
\* what KeepsPromise says of the answer, the part that preemption is for.
NoPriorityInversion ==
  Done =>
    \A k \in Hungry(request, frame), t \in request.members :
      request.prio[t] < request.prio[k] => frame.alloc[t] <= request.lo[t]

\* A bump in the priority pass never overtakes: nobody of higher priority
\* still wants a replica that would fit the spare.
PriorityFirst ==
  [][ frame.pc = "sweep" =>
        \A k \in request.members : frame'.alloc[k] > frame.alloc[k] =>
          ~ \E j \in request.members :
              request.prio[j] > request.prio[k] /\ Bumpable(request, frame, j) ]_vars

\* The priority pass ends with no GPU idle that a hungry member could use.
WorkConserving ==
  [][ frame.pc = "sweep" /\ frame'.pc = "preempt" =>
        \A k \in request.members : ~Bumpable(request, frame', k) ]_vars

\* Seen from outside, a call is one decision that keeps every promise of the
\* allocator: whatever the sweeps and the rounds of preemption did on the way,
\* the answer is in every window, affordable and fair to priorities.
Promised == INSTANCE Arbiter WITH answer <- IF Done THEN {frame.alloc} ELSE {}

KeepsPromise == Promised!Spec

\* No iteration is for nothing: each brings the call nearer to its end, so that
\* neither the sweeps (planner.py, "while True") nor the rounds go on for ever.
EveryIterationCounts ==
  [][ Work(request, frame') < Work(request, frame) /\ Work(request, frame') >= 0 ]_vars

\* Every call returns.
Termination == <>Done
=============================================================================
