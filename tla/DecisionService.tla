-------------------------- MODULE DecisionService --------------------------
(***************************************************************************)
(* The process as __main__.py wires it: the controller's tick thread and   *)
(* the HTTP server's handler threads, which share the published snapshot   *)
(* and the readiness flag.  A GET /decisions checks the flag and takes the *)
(* snapshot in two steps.                                                  *)
(***************************************************************************)
EXTENDS Controller

VARIABLES
  client,   \* a GET between its readiness check and its body
  answer    \* the last answer: none, a 503, or whose snapshot a 200 carried

httpVars == <<client, answer>>
serviceVars == <<vars, httpVars>>

ServiceInit == Init /\ client = "idle" /\ answer = "none"

GetUnready ==
  /\ client = "idle" /\ ~ticked
  /\ answer' = "unready"
  /\ UNCHANGED <<vars, client>>

GetReady ==
  /\ client = "idle" /\ ticked
  /\ client' = "ready"
  /\ UNCHANGED <<vars, answer>>

Answer ==
  /\ client = "ready"
  /\ client' = "idle"
  /\ answer' = IF past.real THEN "decisions" ELSE "placeholder"
  /\ UNCHANGED vars

ServiceNext ==
  \/ Next /\ UNCHANGED httpVars
  \/ GetUnready \/ GetReady \/ Answer

\* The loop outlives every exception; reads that can fail do not fail for
\* ever, neither the nodes' nor any service's.  With nothing left to step only
\* AllotAndPublish ends the tick.
Reads(s) ==
  /\ todo # {} /\ FirstEntry[2] = s
  /\ StepOptedOut \/ StepService \/ \E ds \in Sets \ {None} : StepShape(ds)

Fairness ==
  /\ WF_vars(TickStart)
  /\ WF_vars(SnapshotJobs)
  /\ SF_vars(\E nodes \in Clusters : ReadCapacity(nodes))
  /\ \A s \in Services : SF_vars(Reads(s))
  /\ WF_pc(Publishing)

ServiceSpec == ServiceInit /\ [][ServiceNext]_serviceVars /\ Fairness

\* README.md:79: /decisions stays unready "until the controller has completed
\* a real tick", so no answer carries the boot placeholder.
NoPlaceholderServed == answer # "placeholder"

\* A service whose CR stays managed comes onto the wire and stays there,
\* whichever ticks fail on the way.
RowAppears ==
  \A s \in Services : <>[](s \in ManagedIn(store)) => <>[](served[s] # None)

\* A service whose CRs stay deleted leaves the wire for good.
RowLeaves ==
  \A s \in Services : <>[](s \notin Live(store)) => <>[](served[s] = None)
============================================================================
