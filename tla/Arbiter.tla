------------------------------- MODULE Arbiter -------------------------------
(***************************************************************************)
(* What a call of the allocator promises, whatever way it takes to its     *)
(* answer (the docstrings of planner.py, "R8: output is final"): an        *)
(* allocation of the pool, decided once.  Module Allocation implements it. *)
(***************************************************************************)
EXTENDS Planner

VARIABLES
  request,   \* the call
  answer     \* {} until it returns, then the set of the one allocation

InWindow(in, a) ==
  \A k \in in.members : in.lo[k] <= a[k] /\ a[k] <= WantClamped(in, k)

\* Nothing is bought that the gap does not hold, but for the floors.  What a
\* service gives up by itself is not credited to the others, what a
\* preemption takes is.
Affordable(in, a) ==
  Cost(in, a) <= Larger(Cost(in, Floors(in)),
                        in.gap + Cost(in, [k \in in.members |->
                                             Smaller(Floor(in, k), in.current[k])]))

\* Who starves has nobody below it to take from; who is taken from, below what
\* it holds and still wants, has somebody above it who wanted to grow.
Prioritized(in, a) ==
  /\ \A k, t \in in.members :
       in.prio[t] < in.prio[k] /\ a[k] < WantClamped(in, k) => a[t] <= in.lo[t]
  /\ \A t \in in.members :
       a[t] < Floor(in, t) =>
         \E k \in in.members : in.prio[k] > in.prio[t] /\ Floor(in, k) < WantClamped(in, k)

Admissible(in, a) ==
  /\ a \in [in.members -> Nat]
  /\ InWindow(in, a) /\ Affordable(in, a) /\ Prioritized(in, a)

Init == WellFormed(request) /\ answer = {}

Decide ==
  /\ answer = {}
  /\ \E a \in answer' : answer' = {a} /\ Admissible(request, a)
  /\ UNCHANGED request

Spec == Init /\ [][Decide]_<<request, answer>>
=============================================================================
