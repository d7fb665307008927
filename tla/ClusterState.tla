--------------------------- MODULE ClusterState ---------------------------
(***************************************************************************)
(* The picture of the Kubernetes cluster that scheduling works with        *)
(* (app/dispatch/k8s_state_collector.py). A cluster, which is external, is *)
(* a record: does the API answer, can the pods be listed, and its nodes,   *)
(* each with what it can allocate and what its running pods request;       *)
(* floating is requested by pods that name no node.                        *)
(***************************************************************************)
EXTENDS SlotCapacity, FiniteSetsExt

Nodes == [name : STRING, ready : BOOLEAN, allocatable : Amounts, requested : Amounts]

\* The nodes of the snapshot that stands in when there is no cluster: only one
\* of them has a gpu.
SimulatedNodes ==
    {[name |-> "worker-gpu", ready |-> TRUE,
      allocatable |-> [r \in Resources |-> 2], requested |-> Nothing],
     [name |-> "worker", ready |-> TRUE,
      allocatable |-> [r \in Resources |-> IF r = "gpu" THEN 0 ELSE 1], requested |-> Nothing]}

\* max(0, a - b), for every resource
Less(a, b) == [r \in Resources |-> IF a[r] > b[r] THEN a[r] - b[r] ELSE 0]
TotalOf(field, nodes) ==
    [r \in Resources |-> MapThenSumSet(LAMBDA n : n[field][r], nodes)]

FreeOn(n) == Less(n.allocatable, n.requested)

\* The aggregates count every node, ready or not; without the list of pods
\* nothing is known to be in use.
Snapshot(nodes, floating, podsListed, health) ==
    LET seen == IF podsListed THEN nodes ELSE {[n EXCEPT !.requested = Nothing] : n \in nodes}
        used == [r \in Resources |->
                    IF podsListed THEN TotalOf("requested", nodes)[r] + floating[r] ELSE 0]
    IN  [connected |-> health \in {"HEALTHY", "DEGRADED"},
         health    |-> health,
         nodes     |-> seen,
         free      |-> Less(TotalOf("allocatable", nodes), used)]

CollectClusterState(cluster) ==
    CASE ~cluster.available -> Snapshot(SimulatedNodes, Nothing, TRUE, "SIMULATED")
      [] cluster.available /\ ~cluster.answers -> Snapshot({}, Nothing, TRUE, "DISCONNECTED")
      [] OTHER -> Snapshot(cluster.nodes, cluster.floating, cluster.podsListed,
                           IF cluster.nodes # {} /\ \A n \in cluster.nodes : n.ready
                           THEN "HEALTHY" ELSE "DEGRADED")

NodeFits(n, demand) ==
    n.ready /\ \A r \in Resources : demand[r] =< FreeOn(n)[r]

\* is_resource_feasible: a cluster that does not answer refuses nothing.
ResourceFeasible(snapshot, demand) ==
    \/ ~snapshot.connected /\ snapshot.health # "SIMULATED"
    \/ /\ \A r \in Resources : demand[r] =< snapshot.free[r]
       /\ snapshot.nodes = {} \/ \E n \in snapshot.nodes : NodeFits(n, demand)
===========================================================================
