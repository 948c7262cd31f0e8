----------------------------- MODULE DijkstraInv -----------------------------
(***************************************************************************)
(* The inductive invariant behind the safety properties of Dijkstra. It is *)
(* stated of a graph g, a source s, a target t and a search `now`, not of  *)
(* the variables: what is proved of it holds wherever the rounds are run,  *)
(* as steps of the machine Dijkstra or inside the function Finished.       *)
(***************************************************************************)
EXTENDS Dijkstra

Graphs == [Vertices -> [Vertices -> Nat \cup {None}]]

SearchTyped(g, s, t, now) ==
  /\ g \in Graphs
  /\ s \in Vertices /\ t \in Vertices \ {s}
  /\ now \in [cost : [Vertices -> Nat \cup {Inf}],
              parent : [Vertices -> Vertices \cup {None}],
              pq : SUBSET (Nat \X Vertices),
              visited : SUBSET Vertices]
  /\ IsFiniteSet(now.pq)

Reached(now, v) == now.cost[v] # Inf

\* What has been reached and not visited waits in the heap with its cost; the
\* other pairs of the heap are leftovers, which cost more.
HeapInv(now) ==
  /\ \A v \in Vertices \ now.visited : Reached(now, v) => <<now.cost[v], v>> \in now.pq
  /\ \A p \in now.pq : Reached(now, p[2]) /\ now.cost[p[2]] <= p[1]

\* Visited vertices are no farther than those that are not, their edges but for
\* the target's have been followed, and the target was the last of them.
VisitedInv(g, t, now) ==
  \A u \in now.visited :
    /\ Reached(now, u)
    /\ \A v \in Vertices \ now.visited : Reached(now, v) => now.cost[u] <= now.cost[v]
    /\ u # t => \A v \in Neighbours(g, u) :
         Reached(now, v) /\ now.cost[v] <= now.cost[u] + g[u][v]
    /\ t \in now.visited => now.cost[u] <= now.cost[t]

\* The walk along the parents, which are all visited, from the source to v.
TreePath(g, s, now, p, v) ==
  /\ p \in PathsBetween[s][v]
  /\ \A i \in Edges(p) : /\ g[p[i]][p[i + 1]] # None
                         /\ p[i] \in now.visited
                         /\ now.parent[p[i + 1]] = p[i]

\* The source keeps cost 0 and no parent. To what has been reached a path along
\* the parents leads whose length is the cost, and the function that walks back
\* along the parents is defined.
TreeInv(g, s, now) ==
  /\ now.cost[s] = 0 /\ now.parent[s] = None
  /\ \A v \in Vertices : Reached(now, v) =>
       \E p \in PathsBetween[s][v] : TreePath(g, s, now, p, v) /\ Length(g, p) = now.cost[v]
  /\ \E hop \in [Vertices -> Vertices] : \A v \in Vertices :
       hop[v] = IF now.parent[v] \in {s, None} THEN v ELSE hop[now.parent[v]]

\* A cost is infinite until the vertex has a parent, and then it is the cost of
\* the walk along the parents: a parent is visited, so its own cost no longer
\* changes behind the back of the vertex. NextHop and cost[target] agree.
CostsAreWalks(g, s, now) ==
  \A v \in Vertices \ {s} :
    /\ now.cost[v] = Inf <=> now.parent[v] = None
    /\ now.cost[v] # Inf =>
         LET u == now.parent[v]
         IN u \in now.visited /\ now.cost[v] = now.cost[u] + g[u][v]

\* The walk back at the end of the function ends: no vertex is its own ancestor,
\* although edges may cost nothing. Among any vertices there is one whose parent
\* is not among them.
ParentsAcyclic(now) ==
  \A part \in (SUBSET Vertices) \ {{}} : \E v \in part : now.parent[v] \notin part

SearchInvariant(g, s, t, now) ==
  /\ SearchTyped(g, s, t, now)
  /\ HeapInv(now)
  /\ VisitedInv(g, t, now)
  /\ TreeInv(g, s, now)
  /\ CostsAreWalks(g, s, now)
  /\ ParentsAcyclic(now)

DijkstraInvariant == TypeOK /\ SearchInvariant(graph, source, target, search)
=============================================================================
