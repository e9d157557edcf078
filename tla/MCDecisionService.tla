-------------------------- MODULE MCDecisionService ----------------------------
(***************************************************************************)
(* The controller under its server for TLC: two replica services, one of   *)
(* each kind; the first may opt out and names no pool.  There are two      *)
(* pools, of which the larger can be drained.                              *)
(***************************************************************************)
EXTENDS DecisionService

Cr(kind, type, min, max, prio) ==
  [kind |-> kind, type |-> type, min |-> min, max |-> max, prio |-> prio, depth |-> 2,
   threshold |-> [ttft |-> 20]]

MCCRs == << {Cr("job", "replica", 1, 2, 0), Cr("job", "replica", 2, None, 0)},
            {Cr("llm", "replica", 1, 2, 1)} >>

Obs(ttft, queue) ==
  [slo |-> [ttft |-> ttft], queue |-> queue,
   rejection |-> 0, rejections |-> 0, requests |-> 50]

Ok(v) == [state |-> "ok", value |-> v]

MCObservations == {Obs(Ok(25), Ok(9))}

MCSets == {None}
MCRoleReadings == {None}
MCLookups == {<<"found", "absent", "absent", "absent">>,
              <<"absent", "malformed", "absent", "found">>,
              <<"absent", "absent", "error", "absent">>}

MCGpr == <<1, 2>>
MCGroup == << [prefill |-> 1, decode |-> 1], [prefill |-> 1, decode |-> 2] >>
MCPin == <<NoPool, 2>>

On(pool, gpus) == [pool |-> pool, gpus |-> gpus, ready |-> TRUE, cordoned |-> FALSE]

\* Pool 2 has two nodes; the second and larger one is drained, or both are.
MCClusters ==
  LET up == <<On(1, 3), On(2, 2), On(2, 4)>>
      drained == [up EXCEPT ![3].cordoned = TRUE]
  IN  {up, drained, [drained EXCEPT ![2].ready = FALSE]}
=============================================================================
