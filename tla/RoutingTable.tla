----------------------------- MODULE RoutingTable -----------------------------
(***************************************************************************)
(* The routing tables of a3/virtualrouter.py on top of the flooding: after *)
(* each new LSA, update_from_LSA runs dijkstra for every router it knows.  *)
(***************************************************************************)
EXTENDS LinkState

VARIABLE routing_table   \* VirtualRouter.routing_table: cost and next hop

tablevars == <<vars, routing_table>>

SP == INSTANCE Paths WITH Vertices <- Routers

\* update_graph: the links whose two ends are known. It never takes a link back,
\* so the graph is what links and link_costs say now.
Graph(ends, costs) ==
  LET complete == {l \in Links : Cardinality(ends[l]) = 2}
      joining(u, v) == {l \in complete : u # v /\ ends[l] = {u, v}}
  IN [u \in Routers |-> [v \in Routers |->
        IF joining(u, v) = {} THEN SP!None ELSE costs[CHOOSE l \in joining(u, v) : TRUE]]]

\* The keys of the graph.
InGraph(graph) == {v \in Routers : SP!Neighbours(graph, v) # {}}

\* Faulty variant: only routers that have no entry yet get one.
TableOnce(old, graph, r) ==
  [t \in (InGraph(graph) \cup DOMAIN old) \ {r} |->
     IF t \in DOMAIN old THEN old[t] ELSE SP!Route(graph, r, t)]

\* The table r computes anew for every router of its graph.
Table(old, graph, r) ==
  [t \in (InGraph(graph) \cup DOMAIN old) \ {r} |->
     IF t \in InGraph(graph) THEN SP!Route(graph, r, t) ELSE old[t]]

UpdateTable(r) ==
  \E graph \in {Graph(links'[r], link_costs'[r])} :
    routing_table' = [routing_table EXCEPT ![r] = Table(@, graph, r)]

TablesInit == Init /\ routing_table = [r \in Routers |-> <<>>]

\* Nothing goes wrong here.
TablesNext ==
  \/ NfeReply /\ UNCHANGED routing_table
  \/ \E r \in Routers :
       \/ (SendInit(r) \/ ReceiveInitReply(r) \/ SendNext(r)) /\ UNCHANGED routing_table
       \/ ReceiveNewLsa(r) /\ UpdateTable(r)

TablesSpec == TablesInit /\ [][TablesNext]_tablevars

-----------------------------------------------------------------------------
\* The network as it is.
Network == Graph(Ends, Cost)
Distance == [u \in Routers |-> [v \in Routers |-> SP!Distance(Network, u, v)]]

\* A route with a finite cost is never better than the network allows, and its
\* next hop is a router at the other end of a link: also while LSAs are on their
\* way, a packet sent there arrives at a neighbour.
RoutesReal ==
  \A r \in Routers : \A t \in DOMAIN routing_table[r] :
    LET route == routing_table[r][t]
    IN route.cost # SP!Inf =>
         /\ route.hop \in SP!Neighbours(Network, r)
         /\ Distance[route.hop][t] # SP!Inf
         /\ route.cost >= Network[r][route.hop] + Distance[route.hop][t]

\* When flooding has come to an end, every table holds a shortest path to every
\* other router: following the next hops, the remaining distance shrinks by
\* the cost of the link, so that no packet goes round in circles.
TablesShortest ==
  AtRest =>
    \A r \in Routers : \A t \in Routers \ {r} :
      LET route == routing_table[r][t]
      IN /\ t \in DOMAIN routing_table[r]
         /\ route.cost # SP!Inf
         /\ SP!IsShortestRoute(Network, r, t, route.cost, route.hop)

\* What an LSA brings is never worse: no route is lost, none that leads somewhere
\* ends to, and none gets longer.
RoutesOnlyImprove ==
  [][\A r \in Routers : \A t \in DOMAIN routing_table[r] :
       LET old == routing_table[r][t].cost
           new == routing_table'[r][t].cost
       IN /\ t \in DOMAIN routing_table'[r]
          /\ old # SP!Inf => new # SP!Inf /\ new <= old]_routing_table
=============================================================================
