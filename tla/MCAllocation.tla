---------------------------- MODULE MCAllocation ----------------------------
(***************************************************************************)
(* Pools of three services for TLC.                                        *)
(***************************************************************************)
EXTENDS Allocation

Profile(want, current, gpr, lo, hi) ==
  [want |-> want, current |-> current, gpr |-> gpr, lo |-> lo, hi |-> hi]

Profiles ==
  { Profile(3, 1, 1, 0, 3),    \* wants more, small
    Profile(2, 0, 4, 0, 2),    \* wants more, larger than a donor's replica
    Profile(2, 2, 2, 1, 3),    \* content, one replica above its floor
    Profile(4, 2, 2, 0, 3),    \* wants more than its maximum
    Profile(2, 0, 1, 2, 3),    \* floor raised above the ledger
    Profile(1, 3, 1, 0, 3) }   \* sheds

Priorities ==
  [1..3 -> 0..1] \cup {<<0, 1, 2>>, <<2, 0, 1>>}

Call(p, prio, pos, gap) ==
  [members |-> 1..3, prio |-> prio, pos |-> pos, gap |-> gap,
   want    |-> [k \in 1..3 |-> p[k].want],
   current |-> [k \in 1..3 |-> p[k].current],
   gpr     |-> [k \in 1..3 |-> p[k].gpr],
   lo      |-> [k \in 1..3 |-> p[k].lo],
   hi      |-> [k \in 1..3 |-> p[k].hi]]

MCRequests ==
  { Call(p, prio, pos, gap) : p \in [1..3 -> Profiles], prio \in Priorities,
    pos \in {<<1, 2, 3>>, <<3, 1, 2>>}, gap \in {-1, 0, 2, 5} }
=============================================================================
