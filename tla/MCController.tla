---------------------------- MODULE MCController ----------------------------
(***************************************************************************)
(* Two services in one pool for TLC: the first large, the second half its  *)
(* size and of lower priority, with CRs of every kind and type.  Cooldowns *)
(* are zero: ServiceLife and PdLife have them.                             *)
(***************************************************************************)
EXTENDS Controller

Cr(kind, type, min, max, prio) ==
  [kind |-> kind, type |-> type, min |-> min, max |-> max, prio |-> prio, depth |-> 2,
   threshold |-> [ttft |-> 20]]

\* The first service may have CRs of both kinds at once, the second
\* an opt-out.
MCCRs == << {Cr("llm", "pdengine", 2, 3, 1), Cr("job", "replica", 1, 2, 1)},
            {Cr("llm", "replica", 0, 2, 0), Cr("llm", "replica", 2, None, 0)} >>

Obs(ttft, queue) ==
  [slo |-> [ttft |-> ttft], queue |-> queue,
   rejection |-> 0, rejections |-> 0, requests |-> 50]

Ok(v) == [state |-> "ok", value |-> v]

MCObservations ==
  { Obs(Ok(5), Ok(0)), Obs(Ok(25), Ok(9)) }

MCSets == {None, [slices |-> 1, shape |-> Shape(1, 1)]}
MCRoleReadings == {Shape(1, 1), Shape(2, 1)}
MCLookups == {<<"found", "absent", "absent", "absent">>,
              <<"forbidden", "absent", "absent", "found">>,
              <<"absent", "malformed", "absent", "found">>,
              <<"absent", "absent", "error", "absent">>}

MCGpr == <<2, 1>>
MCGroup == << [prefill |-> 1, decode |-> 1], [prefill |-> 1, decode |-> 1] >>
MCPin == <<1, 1>>

Up(gpus) == [pool |-> 1, gpus |-> gpus, ready |-> TRUE, cordoned |-> FALSE]

MCClusters == { <<Up(2), [Up(2) EXCEPT !.cordoned = TRUE]>>, <<Up(2), Up(2)>> }
=============================================================================
