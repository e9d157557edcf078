------------------------------ MODULE MCPdLife ------------------------------
(***************************************************************************)
(* One disaggregated service for TLC, with a unit of time of 20 minutes,   *)
(* and the loops of pd.py, which the closed forms of PdEngine must equal.  *)
(***************************************************************************)
EXTENDS PdLife

Cr(type, min, max) ==
  [kind |-> "llm", type |-> type, min |-> min, max |-> max, depth |-> 0,
   threshold |-> [ttft |-> 20, otps |-> 30]]

MCCRs == {Cr("pdengine", 0, 4), Cr("pdengine", 4, 5), Cr("pdengine", 0, 1),
          Cr("replica", 1, 2)}

MCReadies == {Shape(0, 1), Shape(2, 1), Shape(2, 2)}

Set(slices, p, d) == [slices |-> slices, shape |-> Shape(p, d)]

MCSets == {Set(1, 0, 0), Set(1, 1, 1), Set(1, 3, 2), Set(2, 1, 1)}

Ok(v) == [state |-> "ok", value |-> v]
NoTraffic == [state |-> "no_traffic"]
Missing == [state |-> "missing_series"]

Obs(ttft, otps, rejection, rejections) ==
  [slo |-> [ttft |-> ttft, otps |-> otps],
   rejection |-> rejection, rejections |-> rejections, requests |-> 50]

MCObservations ==
  { Obs(Ok(5), Ok(100), 0, 0),         \* comfort, prefill's the deeper
    Obs(NoTraffic, Ok(100), 0, 0),     \* idle prefill
    Obs(Ok(25), Ok(20), 0, 0),         \* both roles violated
    Obs(Ok(5), Ok(20), 0, 0),          \* decode violated
    Obs(Ok(25), Ok(100), 300, 9),      \* on fire
    Obs(Ok(5), Missing, 300, 9) }      \* a metric without series

(***************************************************************************)
(* The loops, as pd.py writes them.                                        *)
(***************************************************************************)
Upto == 0..4

Walk[p \in Upto, d \in Upto, over \in Nat] ==
  IF over = 0 THEN Shape(p, d)
  ELSE IF d >= p /\ d > 0 THEN Walk[p, d - 1, over - 1]
  ELSE IF p > 0 THEN Walk[p - 1, d, over - 1]
  ELSE Shape(p, d)

KeptIsTheWalk ==
  \A p \in Upto, d \in Upto : \A over \in 0..(p + d) :
    Kept(p, d, p + d - over) = Walk[p, d, over]

Residual(shape, bound) ==
  LET total == Engines(shape)
      Above(n, role) == n * total - shape[role] * bound
      f[p \in Nat, d \in Nat] ==
        IF p + d = bound THEN Shape(p, d)
        ELSE IF p + d > bound
          THEN IF p > 1 /\ (Above(p, "prefill") >= Above(d, "decode") \/ d <= 1)
                 THEN f[p - 1, d]
               ELSE IF d > 1 THEN f[p, d - 1] ELSE None
        ELSE IF Above(p, "prefill") <= Above(d, "decode") THEN f[p + 1, d] ELSE f[p, d + 1]
  IN  f

LandedIsTheWalk ==
  \A shape \in [Roles -> 0..8], bound \in 1..17 :
    LET total == Engines(shape)
        shrink == total > bound
        p == Scaled(shape.prefill, bound, total, shrink)
        d == Scaled(shape.decode, bound, total, shrink)
    IN  total \notin {0, bound} =>
          Landed(shape, bound, p, d) = Residual(shape, bound)[p, d]

ASSUME ClosedForms == KeptIsTheWalk /\ LandedIsTheWalk
============================================================================
