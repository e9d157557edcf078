------------------------- MODULE MCServiceLiveness -------------------------
(***************************************************************************)
(* The long run of one service for TLC: a unit of time is 7.5 minutes, so  *)
(* the cooldowns are 2 and 4 units and the comfort span is rounded up to 3.*)
(***************************************************************************)
EXTENDS ServiceLiveness

Cr(kind, min, max) ==
  [kind |-> kind, min |-> min, max |-> max, depth |-> 2,
   threshold |-> [ttft |-> 20, otps |-> 30]]

ServedCRs == {Cr("llm", 1, 4), Cr("job", 2, 3)}

\* The second author's edit raises the floor of a service allowed to idle at 0.
IdleCRs == {Cr("llm", 0, 2), Cr("llm", 2, 3)}

Obs(ttft, queue, rejection) ==
  [slo |-> [ttft |-> [state |-> "ok", value |-> ttft],
            otps |-> [state |-> "no_traffic"]],
   queue |-> [state |-> "ok", value |-> queue],
   rejection |-> rejection, rejections |-> 9, requests |-> 50]

Hungry == {Obs(25, 20, 0), Obs(25, 20, 100)}

Calm == {Obs(5, 0, 0)}
============================================================================
