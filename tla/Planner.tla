------------------------------ MODULE Planner ------------------------------
(***************************************************************************)
(* The allocator of planner.py for one pool: floors, then a round-robin by *)
(* priority tier, then preemption of lower priorities.                     *)
(*                                                                         *)
(* A call "in" holds the arguments of _allocate_in_pool: the members of *)
(* the pool and, per member, want, current, gpr (GPUs per replica), lo and *)
(* hi (the CR's window), prio and pos (its place in the placement dict,    *)
(* which is the order of "members"); and the pool's gap.  Members are      *)
(* numbers in the order of their keys.                                     *)
(*                                                                         *)
(* A state "s" is the frame of the running call.  The loops run one        *)
(* iteration per action; a list the code sorts once and walks is the set   *)
(* of what is left of it, walked in the same order.                        *)
(*                                                                         *)
(* Definitions called Faulty... are plausible mistakes in the definition   *)
(* that follows them; the specification never uses them.  They show that a *)
(* property can fail (PROJECT.json, "mutants").                            *)
(***************************************************************************)
EXTENDS Numbers, FiniteSets, Sums

WellFormed(in) ==
  /\ in.members \subseteq Nat
  /\ IsFiniteSet(in.members)
  /\ in.want \in [in.members -> Int]
  /\ in.current \in [in.members -> Nat]
  /\ in.gpr \in [in.members -> Nat \ {0}]
  /\ in.lo \in [in.members -> Nat]
  /\ in.hi \in [in.members -> Nat]
  /\ in.prio \in [in.members -> Int]
  /\ in.pos \in [in.members -> Nat]
  /\ \A k \in in.members : in.lo[k] <= in.hi[k]
  /\ \A k, j \in in.members : in.pos[k] = in.pos[j] => k = j
  /\ in.gap \in Int

(***************************************************************************)
(* Phase 1: floors.                                                        *)
(***************************************************************************)
WantClamped(in, k) == Larger(in.lo[k], Smaller(in.hi[k], in.want[k]))

FaultyFloorByLedger(in, k) == Smaller(WantClamped(in, k), in.current[k])

Floor(in, k) == Larger(in.lo[k], Smaller(WantClamped(in, k), in.current[k]))

Floors(in) == [k \in in.members |-> Floor(in, k)]

FloorCost(in) ==
  SumOver([k \in in.members |-> Larger(0, Floor(in, k) - in.current[k]) * in.gpr[k]],
          in.members)

Deficit(in, s, k) == WantClamped(in, k) - s.alloc[k]

Hungry(in, s) == {k \in in.members : Deficit(in, s, k) > 0}

(***************************************************************************)
(* The order of the walks: sets that hold the one member whose turn it is. *)
(***************************************************************************)
Tiers(in) == {in.prio[k] : k \in in.members}
TierMembers(in, p) == {k \in in.members : in.prio[k] = p}

\* sorted by deficit in GPUs, largest first, then by key.  A sweep touches a
\* member only when it visits it, so the order is the one at its start.
Neediest(in, s) ==
  {k \in s.todo : \A j \in s.todo :
    \/ Deficit(in, s, k) * in.gpr[k] > Deficit(in, s, j) * in.gpr[j]
    \/ Deficit(in, s, k) * in.gpr[k] = Deficit(in, s, j) * in.gpr[j] /\ k <= j}

\* sorted by priority, highest first; the sort is stable.
Foremost(in, S) ==
  {k \in S : \A j \in S :
    in.prio[k] > in.prio[j] \/ (in.prio[k] = in.prio[j] /\ in.pos[k] <= in.pos[j])}

FirstMember(in, S) == {k \in S : \A j \in S : in.pos[k] <= in.pos[j]}

(***************************************************************************)
(* Phase 2: the priority pass.  One visit of a sweep, the next sweep of    *)
(* the same tier, the next tier, and after the last one phase 3.           *)
(***************************************************************************)
FaultyTopTierAscending(S) == Min(S)

TopTier(S) == Max(S)

Start(in) ==
  [pc |-> IF in.members = {} THEN "done" ELSE "sweep",
   alloc |-> Floors(in),
   spare |-> in.gap - FloorCost(in),
   tier |-> IF in.members = {} THEN 0 ELSE TopTier(Tiers(in)),
   todo |-> IF in.members = {} THEN {} ELSE TierMembers(in, TopTier(Tiers(in))),
   progressed |-> FALSE,
   queue |-> {}, taker |-> 0, need |-> 0, donors |-> {}, share |-> 1]

Plus(alloc, k, n) == [alloc EXCEPT ![k] = @ + n]

FaultyBumpableOnAnySpare(in, s, k) == Deficit(in, s, k) > 0 /\ s.spare > 0

Bumpable(in, s, k) == Deficit(in, s, k) > 0 /\ in.gpr[k] <= s.spare

FaultyVisitChargesOne(in, s, k) ==
  IF Bumpable(in, s, k)
    THEN [s EXCEPT !.alloc = Plus(s.alloc, k, 1), !.spare = @ - 1,
                   !.progressed = TRUE, !.todo = @ \ {k}]
    ELSE [s EXCEPT !.todo = @ \ {k}]

FaultyVisitGreedy(in, s, k) ==
  LET n == Smaller(Deficit(in, s, k), s.spare \div in.gpr[k])
  IN  IF Bumpable(in, s, k)
        THEN [s EXCEPT !.alloc = Plus(s.alloc, k, n), !.spare = @ - n * in.gpr[k],
                       !.progressed = TRUE, !.todo = @ \ {k}]
        ELSE [s EXCEPT !.todo = @ \ {k}]

FaultyVisitBrakesTier(in, s, k) ==
  IF Bumpable(in, s, k)
    THEN [s EXCEPT !.alloc = Plus(s.alloc, k, 1), !.spare = @ - in.gpr[k],
                   !.progressed = TRUE, !.todo = @ \ {k}]
    ELSE [s EXCEPT !.todo = {}]

Visit(in, s, k) ==
  IF Bumpable(in, s, k)
    THEN [s EXCEPT !.alloc = Plus(s.alloc, k, 1), !.spare = @ - in.gpr[k],
                   !.progressed = TRUE, !.todo = @ \ {k}]
    ELSE [s EXCEPT !.todo = @ \ {k}]

FaultyNextSweepStaysProgressed(in, s) == [s EXCEPT !.todo = TierMembers(in, s.tier)]

NextSweep(in, s) ==
  [s EXCEPT !.todo = TierMembers(in, s.tier), !.progressed = FALSE]

LowerTiers(in, s) == {p \in Tiers(in) : p < s.tier}

NextTier(in, s) ==
  [s EXCEPT !.tier = TopTier(LowerTiers(in, s)),
            !.todo = TierMembers(in, TopTier(LowerTiers(in, s)))]

EndSweeps(in, s) == [s EXCEPT !.pc = "preempt", !.queue = Hungry(in, s)]

(***************************************************************************)
(* Phase 3: preemption, highest priority first.  A round asks every donor  *)
(* of the lowest tier that has any for a share of the need the round       *)
(* started with.                                                           *)
(***************************************************************************)
FaultyDonorsAtFloor(in, s, k) ==
  {t \in in.members : in.prio[t] < in.prio[k] /\ s.alloc[t] >= in.lo[t]}

FaultyDonorsPeers(in, s, k) ==
  {t \in in.members \ {k} : in.prio[t] <= in.prio[k] /\ s.alloc[t] > in.lo[t]}

Donors(in, s, k) ==
  {t \in in.members : in.prio[t] < in.prio[k] /\ s.alloc[t] > in.lo[t]}

LowestTier(in, S) == {t \in S : \A u \in S : in.prio[t] <= in.prio[u]}

Served(in, s, k) == Deficit(in, s, k) <= 0 \/ Donors(in, s, k) = {}

Dismiss(s, k) == [s EXCEPT !.queue = @ \ {k}]

OpenRound(in, s, k) ==
  LET donors == LowestTier(in, Donors(in, s, k))
  IN  [s EXCEPT !.pc = "round", !.taker = k, !.donors = donors,
                !.share = Cardinality(donors),
                !.need = Deficit(in, s, k) * in.gpr[k]]

FaultyTakeBelowFloor(in, s, t) == CeilDiv(s.need, s.share * in.gpr[t])

\* ceil(need / share / gpr), at most what the donor has above its floor.
Take(in, s, t) ==
  Smaller(CeilDiv(s.need, s.share * in.gpr[t]), s.alloc[t] - in.lo[t])

FaultyBumpsUnbounded(in, s, freed) == freed \div in.gpr[s.taker]

Bumps(in, s, freed) == Smaller(Deficit(in, s, s.taker), freed \div in.gpr[s.taker])

Donate(in, s, t) ==
  LET take == Take(in, s, t)
      freed == take * in.gpr[t]
      bumps == Bumps(in, s, freed)
  IN  IF take <= 0 THEN [s EXCEPT !.donors = @ \ {t}]
      ELSE [s EXCEPT !.donors = @ \ {t},
                     !.alloc = Plus(Plus(s.alloc, t, -take), s.taker, bumps),
                     !.spare = @ + freed - bumps * in.gpr[s.taker]]

CloseRound(s) == [s EXCEPT !.pc = "preempt"]

Finish(s) == [s EXCEPT !.pc = "done"]

Frame(in) ==
  [pc : {"sweep", "preempt", "round", "done"},
   alloc : [in.members -> Nat], spare : Int,
   tier : Int, todo : SUBSET in.members, progressed : BOOLEAN,
   queue : SUBSET in.members, taker : Nat, need : Int,
   donors : SUBSET in.members, share : Nat]

\* What an allocation costs, in GPUs.
Cost(in, a) == SumOver([k \in in.members |-> a[k] * in.gpr[k]], in.members)

(***************************************************************************)
(* The iterations a call has left, at most.  A bump costs a place in its   *)
(* sweep and perhaps the sweep that follows; a replica below the queue may *)
(* be taken, which opens and closes a round.                               *)
(***************************************************************************)
SweepsFor(in, s, t) ==
  2 * (Cardinality(in.members) + 1) * Deficit(in, s, t) + 3 * (WantClamped(in, t) - in.lo[t])

RoundsFor(in, s, t) ==
  IF \E k \in s.queue : in.prio[t] < in.prio[k]
    THEN 3 * (s.alloc[t] - in.lo[t]) - (IF s.pc = "round" /\ t \in s.donors THEN 2 ELSE 0)
    ELSE 0

SweepsLeft(in, s) ==
  Cardinality({k \in in.members : in.prio[k] < s.tier}) + (IF s.progressed THEN 1 ELSE 0)

Work(in, s) ==
  CASE s.pc = "sweep" ->
         SumOver([t \in in.members |-> SweepsFor(in, s, t)], in.members)
           + (Cardinality(in.members) + 1) * SweepsLeft(in, s)
           + Cardinality(s.todo) + Cardinality(in.members) + 2
    [] s.pc \in {"preempt", "round"} ->
         SumOver([t \in in.members |-> RoundsFor(in, s, t)], in.members)
           + Cardinality(s.queue) + (IF s.pc = "round" THEN 2 ELSE 1)
    [] OTHER -> 0

(***************************************************************************)
(* The whole call: run the frame for as long as there can be work.  An     *)
(* iteration too many would leave it as it is; module Allocation checks    *)
(* that there is none too few.                                             *)
(***************************************************************************)
TheOne(S) == CHOOSE k \in S : TRUE

AdvanceSweep(in, s) ==
  CASE s.todo # {}            -> Visit(in, s, TheOne(Neediest(in, s)))
    [] s.todo = {} /\ s.progressed -> NextSweep(in, s)
    [] OTHER -> IF LowerTiers(in, s) # {} THEN NextTier(in, s) ELSE EndSweeps(in, s)

AdvancePreempt(in, s) ==
  IF s.queue = {} THEN Finish(s)
  ELSE LET k == TheOne(Foremost(in, s.queue))
       IN  IF Served(in, s, k) THEN Dismiss(s, k) ELSE OpenRound(in, s, k)

AdvanceRound(in, s) ==
  IF s.donors = {} THEN CloseRound(s)
  ELSE Donate(in, s, TheOne(FirstMember(in, s.donors)))

Advance(in, s) ==
  CASE s.pc = "sweep"   -> AdvanceSweep(in, s)
    [] s.pc = "preempt" -> AdvancePreempt(in, s)
    [] s.pc = "round"   -> AdvanceRound(in, s)
    [] OTHER            -> s

Allocate(in) ==
  LET limit == Work(in, Start(in))
      run[i \in 0..limit] == IF i = 0 THEN Start(in) ELSE Advance(in, run[i - 1])
  IN  run[limit].alloc
============================================================================
