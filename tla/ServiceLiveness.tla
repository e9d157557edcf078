-------------------------- MODULE ServiceLiveness --------------------------
(***************************************************************************)
(* What a service is promised in the long run, in a cluster that works:    *)
(* the tick loop keeps ticking, time passes, the operator applies what is  *)
(* served, every replica count is read, and the pool has room for every    *)
(* want.  The load and the CR may change at any time.                      *)
(***************************************************************************)
EXTENDS ServiceLife

CONSTANTS
  HungryReadings,   \* observations under which a service needs more
  CalmReadings      \* observations under which it needs less

VARIABLE load       \* "hungry" or "calm"

liveVars == <<vars, load>>

LiveInit == Init /\ load \in {"hungry", "calm"}

LoadChanges == load' = (IF load = "hungry" THEN "calm" ELSE "hungry") /\ UNCHANGED vars

Readings == IF load = "hungry" THEN HungryReadings ELSE CalmReadings

LiveTick ==
  /\ Managed
  /\ \E obs \in Readings, spec \in SpecReplicas :
       LET t == Step(view, cr, obs, ready, spec)
       IN  /\ view' = IF t.skip THEN t.view ELSE Commit(t.view, Clamp(t.want, Bounds(cr)))
           /\ Remember(IF t.skip THEN "skipped" ELSE "granted", obs)
  /\ UNCHANGED <<cr, ready>>

LiveNext ==
  \/ LoadChanges
  \/ \E c \in CRs : EditCR(c) /\ UNCHANGED load
  \/ Converge /\ UNCHANGED load
  \/ Pass /\ UNCHANGED load
  \/ LiveTick /\ UNCHANGED load

\* The loop of controller.py ticks for ever and survives its exceptions; the
\* other two are the clock's and the operator's part.
LiveSpec ==
  /\ LiveInit
  /\ [][LiveNext]_liveVars
  /\ WF_liveVars(LiveTick /\ UNCHANGED load)
  /\ WF_liveVars(Pass /\ UNCHANGED load)
  /\ WF_liveVars(Converge /\ UNCHANGED load)

\* A service whose objective stays violated is grown to its maximum: neither
\* cooldown, freeze nor an earlier shed in flight holds it back for ever.
HungryReachesMax ==
  \A c \in CRs :
    <>[](cr = c /\ load = "hungry") => <>[](Ledger = Bounds(c).hi)

\* A service that stays comfortable gives its replicas back down to its
\* minimum, one earned shed after another.
CalmReachesMin ==
  \A c \in CRs :
    <>[](cr = c /\ load = "calm") => <>[](Ledger = Bounds(c).lo)

\* README.md:29: the bounds are the CR's authority, and controller.py:285 adds
\* that minimums are honoured regardless.  Once an author settles on a CR the
\* ledger would then come to its floor.
FloorIsHonoured ==
  \A c \in CRs : <>[](cr = c) => <>(Ledger # None /\ Ledger >= Bounds(c).lo)
============================================================================
