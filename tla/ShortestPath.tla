----------------------------- MODULE ShortestPath -----------------------------
(***************************************************************************)
(* VirtualRouter.dijkstra of a3/virtualrouter.py: one round of its loop,   *)
(* and the next hop read off the parents. Module Dijkstra runs the rounds  *)
(* as a machine, module RoutingTable as a function.                        *)
(*                                                                         *)
(* A graph gives each pair of vertices the cost of their edge, or None. A  *)
(* search is the record of the four local variables of the function.       *)
(***************************************************************************)
EXTENDS Integers, FiniteSets

CONSTANT Vertices

ASSUME VertexAssumption == Vertices \subseteq Nat /\ IsFiniteSet(Vertices)

None == -1   \* no edge, no parent
Inf == -2    \* float('inf')

\* Faulty variant: every other vertex is taken for a neighbour.
NeighboursAll(graph, u) == Vertices \ {u}

Neighbours(graph, u) == {v \in Vertices : graph[u][v] # None}

\* Before the loop. (parent[source] = -1, which is no router either, is never read.)
Start(source) ==
  [cost |-> [v \in Vertices |-> IF v = source THEN 0 ELSE Inf],
   parent |-> [v \in Vertices |-> None],
   pq |-> {<<0, source>>},
   visited |-> {}]

\* Faulty variant: the pairs are ordered by id, then by cost.
LeastId(pq) ==
  CHOOSE p \in pq : \A q \in pq : p[2] < q[2] \/ (p[2] = q[2] /\ p[1] <= q[1])

\* heappop takes the least pair, and the smaller id when costs are equal.
Least(pq) ==
  CHOOSE p \in pq : \A q \in pq : p[1] < q[1] \/ (p[1] = q[1] /\ p[2] <= q[2])

\* Faulty variant: equal costs replace the parent.
ImprovesOrEquals(new_cost, cost) == cost = Inf \/ new_cost <= cost

Improves(new_cost, cost) == cost = Inf \/ new_cost < cost

\* The neighbours of u that are cheaper to reach through u. Each is pushed
\* with its new cost; its old pairs stay in the heap.
Relax(graph, search, current_cost, u) ==
  LET better == {v \in Neighbours(graph, u) :
                   Improves(current_cost + graph[u][v], search.cost[v])}
      new_cost == [v \in better |-> current_cost + graph[u][v]]
  IN [cost |-> [v \in Vertices |-> IF v \in better THEN new_cost[v] ELSE search.cost[v]],
      parent |-> [v \in Vertices |-> IF v \in better THEN u ELSE search.parent[v]],
      pq |-> search.pq \cup {<<new_cost[v], v>> : v \in better},
      visited |-> search.visited]

\* Faulty variant: the pair is looked at and stays.
Peeked(search) == search

\* The search with its least pair taken from the heap.
Popped(search) == [search EXCEPT !.pq = @ \ {Least(search.pq)}]

\* One round of the loop. The search is over when the target is visited.
Round(graph, target, search) ==
  LET u == Least(search.pq)[2]
      entered == [Popped(search) EXCEPT !.visited = @ \cup {u}]
  IN IF u \in search.visited THEN Popped(search)
     ELSE IF u = target THEN entered
     ELSE Relax(graph, entered, Least(search.pq)[1], u)

\* Faulty variant: the search ends when the target is reached, not visited.
OverWhenReached(target, search) == search.pq = {} \/ search.cost[target] # Inf

Over(target, search) == search.pq = {} \/ target \in search.visited

\* Faulty variant: the target is taken for the next hop.
NextHopTarget(search, source, target) == target

\* The walk along the parents from target to the vertex after source. The
\* function returns target itself when it has no parent.
NextHop(search, source, target) ==
  LET hop[v \in Vertices] ==
        IF search.parent[v] \in {source, None} THEN v ELSE hop[search.parent[v]]
  IN hop[target]

\* A bound on the rounds: each takes a pair from the heap, and a vertex pushes its
\* neighbours in one round only.
RoundLimit == 1 + Cardinality(Vertices) * Cardinality(Vertices)

RoundUnlessOver(graph, target, search) ==
  IF Over(target, search) THEN search ELSE Round(graph, target, search)

\* The search when the loop has come to its end.
Finished(graph, source, target) ==
  LET after[n \in 0 .. RoundLimit] ==
        IF n = 0 THEN Start(source) ELSE RoundUnlessOver(graph, target, after[n - 1])
  IN after[RoundLimit]

\* What the function returns.
Route(graph, source, target) ==
  LET search == Finished(graph, source, target)
  IN [cost |-> search.cost[target], hop |-> NextHop(search, source, target)]
=============================================================================
