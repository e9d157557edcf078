------------------------------ MODULE Cluster ------------------------------
(***************************************************************************)
(* What k8s_state.py makes of the cluster: which workload a service is     *)
(* placed by, the capacity of each pool, and the default pool of the       *)
(* workloads that name none.                                               *)
(*                                                                         *)
(* A pool is a number, in the order of the names; a cluster is a function  *)
(* from nodes to [pool, gpus, ready, cordoned].                            *)
(*                                                                         *)
(* Definitions called Faulty... are plausible mistakes in the definition   *)
(* that follows them; the specification never uses them.  They show that a *)
(* property can fail (PROJECT.json, "mutants").                            *)
(***************************************************************************)
EXTENDS Integers, FiniteSets, Sums

CONSTANTS
  NoPool,           \* no default configured, no capacity read yet
  DefaultGpuPool,   \* DEFAULT_GPU_POOL, or NoPool
  FallbackGpuPool   \* FALLBACK_GPU_POOL

ASSUME ClusterAssumption ==
  /\ NoPool \notin Nat
  /\ DefaultGpuPool \in Nat \cup {NoPool}
  /\ FallbackGpuPool \in Nat

Node == [pool : Nat, gpus : Nat, ready : BOOLEAN, cordoned : BOOLEAN]

(***************************************************************************)
(* pool_capacity                                                           *)
(***************************************************************************)
Schedulable(n) == n.ready /\ ~n.cordoned

PoolsOf(nodes) == {nodes[i].pool : i \in DOMAIN nodes}

GpusOf(nodes, S) == SumOver([i \in S |-> nodes[i].gpus], S)

\* All nodes count, the ones that are down included.
FaultyInventorySchedulable(nodes, p) ==
  GpusOf(nodes, {i \in DOMAIN nodes : nodes[i].pool = p /\ Schedulable(nodes[i])})

Inventory(nodes, p) == GpusOf(nodes, {i \in DOMAIN nodes : nodes[i].pool = p})

PoolCapacity(nodes, p) ==
  GpusOf(nodes, {i \in DOMAIN nodes : nodes[i].pool = p /\ Schedulable(nodes[i])})

Usable(nodes) == {p \in PoolsOf(nodes) : PoolCapacity(nodes, p) > 0}

Largest(nodes) ==
  CHOOSE p \in Usable(nodes) : \A q \in Usable(nodes) :
    \/ Inventory(nodes, p) > Inventory(nodes, q)
    \/ Inventory(nodes, p) = Inventory(nodes, q) /\ p <= q

\* The refresh of _largest_pool.
Refreshed(nodes, last) == IF Usable(nodes) = {} THEN last ELSE Largest(nodes)

DefaultPool(largest) ==
  IF DefaultGpuPool # NoPool THEN DefaultGpuPool
  ELSE IF largest # NoPool THEN largest
  ELSE FallbackGpuPool

(***************************************************************************)
(* resolve_placement.  "look" is what each kind of workload answers, in    *)
(* the order the kinds are asked.  Forbidden is absent for the first only. *)
(***************************************************************************)
Workloads == <<"ds", "lws", "sts", "deploy">>

Answers == {"absent", "forbidden", "malformed", "found", "error"}

Absent(look, i) == look[i] = "absent" \/ (i = 1 /\ look[i] = "forbidden")

\* The kind of the workload, "none", or "raise" for an API error.
Resolve(look) ==
  LET present == {i \in DOMAIN Workloads : ~Absent(look, i)}
      first == Min(present)
  IN  CASE present = {}              -> "none"
        [] look[first] = "malformed" -> "none"
        [] look[first] = "found"     -> Workloads[first]
        [] OTHER                     -> "raise"
============================================================================
