------------------------------- MODULE Dijkstra -------------------------------
(***************************************************************************)
(* dijkstra(graph, source, target) of a3/virtualrouter.py as a machine:    *)
(* any graph, source and target, one round of the loop per step, compared  *)
(* with the distances that the definition of a shortest path gives.        *)
(***************************************************************************)
EXTENDS Paths

CONSTANT Costs   \* the costs an edge may have

ASSUME CostAssumption == Costs \subseteq Nat

VARIABLES graph, source, target, search

vars == <<graph, source, target, search>>

Pairs == {p \in Vertices \X Vertices : p[1] < p[2]}

\* The graph with the given cost, or None, for each pair of vertices.
GraphOf(weight) ==
  [u \in Vertices |-> [v \in Vertices |->
     CASE u < v -> weight[<<u, v>>] [] v < u -> weight[<<v, u>>] [] OTHER -> None]]

\* update_from_LSA calls dijkstra for vertices of the graph: each has an edge.
Init ==
  /\ \E weight \in [Pairs -> Costs \cup {None}] : graph = GraphOf(weight)
  /\ source \in Vertices /\ Neighbours(graph, source) # {}
  /\ target \in Vertices \ {source} /\ Neighbours(graph, target) # {}
  /\ search = Start(source)

Step ==
  /\ ~Over(target, search)
  /\ search' = Round(graph, target, search)
  /\ UNCHANGED <<graph, source, target>>

Spec == Init /\ [][Step]_vars /\ WF_vars(Step)

-----------------------------------------------------------------------------
TypeOK ==
  /\ graph \in [Vertices -> [Vertices -> Costs \cup {None}]]
  /\ source \in Vertices /\ target \in Vertices \ {source}
  /\ search \in [cost : [Vertices -> Nat \cup {Inf}],
                 parent : [Vertices -> Vertices \cup {None}],
                 pq : SUBSET (Nat \X Vertices),
                 visited : SUBSET Vertices]

\* A vertex is visited once and for all: its cost is its distance then. The
\* early stop at the target relies on this.
VisitedAreFinal ==
  \A v \in search.visited : search.cost[v] = Distance(graph, source, v)

\* What the function returns: the distance of the target, infinite only if there
\* is no way; and a neighbour of the source from which the way goes on with
\* what remains of the distance.
ReturnsShortestPath ==
  Over(target, search) =>
    IsShortestRoute(graph, source, target, search.cost[target], NextHop(search, source, target))

\* The loop ends, although a vertex may be pushed several times.
Ends == <>Over(target, search)
=============================================================================
