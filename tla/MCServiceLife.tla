--------------------------- MODULE MCServiceLife ---------------------------
(***************************************************************************)
(* One service for TLC.  A unit of time is 7.5 minutes, so the deployed    *)
(* cooldowns are 2 and 4 units and the comfort span, rounded up, is 3; the *)
(* rules run with the deployed constants.                                  *)
(***************************************************************************)
EXTENDS ServiceLife

Cr(kind, min, max) ==
  [kind |-> kind, min |-> min, max |-> max, depth |-> 2,
   threshold |-> [ttft |-> 20, otps |-> 30]]

MCCRs == {Cr("llm", 0, 2), Cr("llm", 1, 4), Cr("job", 2, 3), Cr("llm", 3, None)}

Ok(v) == [state |-> "ok", value |-> v]
NoTraffic == [state |-> "no_traffic"]
Missing == [state |-> "missing_series"]

Obs(ttft, otps, queue, rejection, rejections) ==
  [slo |-> [ttft |-> ttft, otps |-> otps], queue |-> queue,
   rejection |-> rejection, rejections |-> rejections, requests |-> 50]

MCObservations ==
  { Obs(Ok(5), Ok(100), Ok(1), 0, 0),              \* comfort
    Obs(NoTraffic, NoTraffic, NoTraffic, 0, 0),    \* idle
    Obs(Ok(15), Ok(100), Ok(4), 0, 0),             \* ttft in the grey zone
    Obs(Ok(5), Ok(20), Ok(9), 0, 0),               \* otps and queue violated
    Obs(Ok(25), Ok(100), Ok(9), 300, 9),           \* violated and on fire
    Obs(Ok(5), Ok(100), Ok(1), 300, 9),            \* on fire, metrics clean
    Obs(Ok(5), Ok(100), Ok(1), 300, 1),            \* one stray rejection
    Obs(Ok(5), Missing, Missing, 300, 9),          \* a metric without series
    Obs(Ok(5), Ok(100), Missing, None, None) }     \* no rejection series
============================================================================
