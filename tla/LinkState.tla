------------------------------ MODULE LinkState ------------------------------
(***************************************************************************)
(* The link state routing of a3/: the network forwarding emulator (NFE) of *)
(* nfe.py, which waits for an init message of every router, answers each   *)
(* with its links and then forwards link state advertisements (LSAs), and  *)
(* the routers of virtualrouter.py, which flood what they learn.           *)
(*                                                                         *)
(* All talk UDP. The NFE handles one datagram after the other and forwards *)
(* each as it is, so a datagram in its socket queue is here already at the *)
(* end of the queue of the router it goes to.                              *)
(*                                                                         *)
(* UDP may lose each of them: init messages, init replies and LSAs. And    *)
(* routers may be killed and started again.                                *)
(***************************************************************************)
EXTENDS Integers, Sequences, Networks

CONSTANTS
  Routers,   \* router ids of the topology file
  Links,     \* link ids of the topology file
  Ends,      \* the two routers each link joins
  Cost,      \* the cost of each link
  InboxLimit, \* datagrams on the way to one router: a bound, the router keeps up
  RestartLimit \* routers started again when the NFE has an address of them: a bound

\* The NFE has validated that the links form one network (IsNetwork: the module
\* Topology). That ids and costs are no negative numbers it does not look at: that
\* is assumed of the file.
ASSUME TopologyAssumption ==
  /\ Routers \subseteq Nat
  /\ Links \subseteq Nat
  /\ IsNetwork(Routers, Links, Ends)
  /\ Cost \in [Links -> Nat]
  /\ InboxLimit \in Nat \ {0}
  /\ RestartLimit \in Nat

VARIABLES
  clients,     \* the routers whose init message the NFE has received
  replied,     \* the NFE has sent the routers their links: it forwards
  inbox,       \* datagrams on their way to each router
  phase,       \* where each router is: "start", "wait", "forward", "ignored" or "dead"
  neighbors,   \* VirtualRouter.neighbors: the ids of its links
  link_costs,  \* VirtualRouter.link_costs, Unknown where it has no entry
  links,       \* VirtualRouter.links: the routers known at each link
  seen,        \* VirtualRouter.lsa_seen_before
  unsent,      \* the datagrams a loop over neighbors has still to send
  faults       \* what has gone wrong: "init", "reply", "lsa" (lost ones), "restart"

vars == <<clients, replied, inbox, phase, neighbors, link_costs, links, seen, unsent, faults>>

Unknown == -1

\* The links of a router, with their costs; Unknown for the others.
InitReply(costs) == [type |-> "reply", costs |-> costs]
Listed(costs) == {l \in Links : costs[l] # Unknown}

\* Router `sender` tells over its link slink that router has the link rlink.
Lsa(sender, slink, router, rlink, cost) ==
  [type |-> "lsa", sender |-> sender, slink |-> slink,
   router |-> router, rlink |-> rlink, cost |-> cost]

\* What makes two LSAs the same one for seen_before.
Key(m) == <<m.router, m.rlink, m.cost>>

IncidentCosts(r) == [l \in Links |-> IF r \in Ends[l] THEN Cost[l] ELSE Unknown]

Init ==
  /\ clients = {}
  /\ replied = FALSE
  /\ inbox = [r \in Routers |-> <<>>]
  /\ phase = [r \in Routers |-> "start"]
  /\ neighbors = [r \in Routers |-> {}]
  /\ link_costs = [r \in Routers |-> [l \in Links |-> Unknown]]
  /\ links = [r \in Routers |-> [l \in Links |-> {}]]
  /\ seen = [r \in Routers |-> {}]
  /\ unsent = [r \in Routers |-> {}]
  /\ faults = {}

-----------------------------------------------------------------------------
(* The NFE.                                                                *)

\* Faulty variant: the first client is answered at once.
SomeKnown == clients # {}

\* The first loop ends when every router of the topology is known.
AllKnown == clients = Routers

\* What is sent to the address of a router that has died, or has been started again
\* elsewhere, is lost.
Reachable(r) == phase[r] \notin {"ignored", "dead"}

\* Every client gets its links and their costs.
NfeReply ==
  /\ AllKnown
  /\ ~replied
  /\ replied' = TRUE
  /\ inbox' = [r \in Routers |->
                 IF r \in clients /\ Reachable(r)
                 THEN Append(inbox[r], InitReply(IncidentCosts(r)))
                 ELSE inbox[r]]
  /\ UNCHANGED <<clients, phase, neighbors, link_costs, links, seen, unsent, faults>>

\* Router r drops what it has seen before (forward), which changes nothing. Here
\* that is done on arrival where it can be: what is seen stays seen.
DropsAtOnce(r, m) == Key(m) \in seen[r]

\* Faulty variant: by the link the LSA is about.
ForwardByRouterLink(m) ==
  [r \in Routers |->
     IF m.sender # r /\ Ends[m.rlink] = {m.sender, r} /\ Reachable(r) /\ ~DropsAtOnce(r, m)
     THEN Append(inbox[r], m) ELSE inbox[r]]

\* An LSA goes to the router at the other end of the link it is sent on; one
\* on a link its sender does not have is ignored.
Forward(m) ==
  [r \in Routers |->
     IF m.sender # r /\ Ends[m.slink] = {m.sender, r} /\ Reachable(r) /\ ~DropsAtOnce(r, m)
     THEN Append(inbox[r], m) ELSE inbox[r]]

-----------------------------------------------------------------------------
(* The virtual routers.                                                    *)

SendInit(r) ==
  /\ phase[r] = "start"
  /\ clients' = clients \cup {r}
  /\ phase' = [phase EXCEPT ![r] = "wait"]
  /\ UNCHANGED <<replied, inbox, neighbors, link_costs, links, seen, unsent, faults>>

\* Faulty variant: over all links there are.
BroadcastAllLinks(r, costs) == {Lsa(r, l, r, l, costs[l]) : l \in Links}

\* The initial broadcast: over each link, the LSA about this link.
Broadcast(r, costs) == {Lsa(r, l, r, l, costs[l]) : l \in Listed(costs)}

\* Faulty variant: the costs are not kept.
CostsNotKept(known, costs) == known

\* The costs of the init reply, written over those known.
KeepCosts(known, costs) ==
  [l \in Links |-> IF l \in Listed(costs) THEN costs[l] ELSE known[l]]

\* init() reads the type of the first datagram and never looks at it. Of an LSA, it
\* takes the sender's id for the number of links, slink with the router's id for
\* the first link and its cost, and rlink with its cost for the second.
LinksRead(m) ==
  IF m.type = "reply" THEN m.costs
  ELSE [l \in Links |-> IF m.sender >= 2 /\ l = m.rlink THEN m.cost
                        ELSE IF m.sender >= 1 /\ l = m.slink THEN m.router
                        ELSE Unknown]

\* An LSA has no third: struct.unpack raises struct.error.
TooShort(m) == m.type = "lsa" /\ m.sender > 2

\* The end of init() and the start of forward().
ReceiveInitReply(r) ==
  /\ phase[r] = "wait"
  /\ inbox[r] # <<>>
  /\ ~TooShort(Head(inbox[r]))
  /\ LET costs == LinksRead(Head(inbox[r]))
     IN /\ neighbors' = [neighbors EXCEPT ![r] = Listed(costs)]
        /\ link_costs' = [link_costs EXCEPT ![r] = KeepCosts(@, costs)]
        /\ unsent' = [unsent EXCEPT ![r] = Broadcast(r, costs)]
  /\ inbox' = [inbox EXCEPT ![r] = Tail(@)]
  /\ phase' = [phase EXCEPT ![r] = "forward"]
  /\ UNCHANGED <<clients, replied, links, seen, faults>>

\* init() ends in struct.error, and the router with it.
DieInInit(r) ==
  /\ phase[r] = "wait"
  /\ inbox[r] # <<>>
  /\ TooShort(Head(inbox[r]))
  /\ phase' = [phase EXCEPT ![r] = "dead"]
  /\ inbox' = [inbox EXCEPT ![r] = <<>>]
  /\ UNCHANGED <<clients, replied, neighbors, link_costs, links, seen, unsent, faults>>

\* One sendto of a loop over neighbors; a set is in no particular order.
SendNext(r) ==
  /\ \E m \in unsent[r] :
       /\ inbox' = Forward(m)
       /\ \A v \in Routers : Len(inbox'[v]) <= InboxLimit
       /\ unsent' = [unsent EXCEPT ![r] = @ \ {m}]
  /\ UNCHANGED <<clients, replied, phase, neighbors, link_costs, links, seen, faults>>

\* The router waits in recv of its endless loop.
Waiting(r) == phase[r] = "forward" /\ unsent[r] = {}

\* Faulty variant: an LSA is not sent back where it came from.
PropagateElsewhere(r, m) ==
  {Lsa(r, l, m.router, m.rlink, m.cost) : l \in neighbors[r] \ {m.slink}}

\* The LSAs propagate sends about m, also to where it came from: it is this echo
\* that makes a router propagate its own LSA, which it has sent on one link only.
Propagate(r, m) == {Lsa(r, l, m.router, m.rlink, m.cost) : l \in neighbors[r]}

\* Faulty variant: the router the LSA is about is taken for its sender.
LearnOrigin(known, r, m) ==
  [l \in Links |-> known[l] \cup {v \in Routers :
                                    \/ l = m.rlink /\ v = m.router
                                    \/ l = m.slink /\ v \in {m.router, r}}]

\* update_from_LSA: who is at the LSA's link, and who is at both ends of the
\* link it came by.
LearnEnds(known, r, m) ==
  [l \in Links |-> known[l] \cup {v \in Routers :
                                    \/ l = m.rlink /\ v = m.router
                                    \/ l = m.slink /\ v \in {m.sender, r}}]

\* update_graph reads the cost of every link whose two ends are known, without
\* testing that there is one; a KeyError ends the router.
KeyError(ends, costs) ==
  \E l \in Links : Cardinality(ends[l]) = 2 /\ costs[l] = Unknown

\* forward() has not handled the i-th datagram's LSA before.
IsNew(r, i) == Key(inbox[r][i]) \notin seen[r]

\* forward() until it has handled an LSA it has not seen before: those it has
\* seen meanwhile, which come first, are dropped. The new one is propagated, then learnt;
\* nobody but the router itself reads what it learns, so this may as well be in
\* place before the datagrams are sent, and its death known.
ReceiveNewLsa(r) ==
  /\ Waiting(r)
  /\ \E i \in 1 .. Len(inbox[r]) :
       LET m == inbox[r][i]
       IN /\ IsNew(r, i)
          /\ \A j \in 1 .. i - 1 : ~IsNew(r, j)
          /\ inbox' = [inbox EXCEPT ![r] = SubSeq(@, i + 1, Len(@))]
          /\ seen' = [seen EXCEPT ![r] = @ \cup {Key(m)}]
          /\ unsent' = [unsent EXCEPT ![r] = Propagate(r, m)]
          /\ links' = [links EXCEPT ![r] = LearnEnds(@, r, m)]
          /\ link_costs' = [link_costs EXCEPT ![r][m.rlink] = m.cost]
  /\ phase' = [phase EXCEPT ![r] = IF KeyError(links'[r], link_costs'[r]) THEN "dead" ELSE @]
  /\ UNCHANGED <<clients, replied, neighbors, faults>>

Router(r) ==
  \/ SendInit(r) \/ ReceiveInitReply(r) \/ DieInInit(r)
  \/ SendNext(r) \/ ReceiveNewLsa(r)

-----------------------------------------------------------------------------
(* What goes wrong.                                                        *)

\* UDP may lose an LSA on its way, or an init reply, which is sent once.
LoseDatagram(r) ==
  /\ inbox[r] # <<>>
  /\ inbox' = [inbox EXCEPT ![r] = Tail(@)]
  /\ faults' = faults \cup {Head(inbox[r]).type}
  /\ UNCHANGED <<clients, replied, phase, neighbors, link_costs, links, seen, unsent>>

\* It may lose an init message, sent once as well.
LoseInit(r) ==
  /\ phase[r] = "start"
  /\ phase' = [phase EXCEPT ![r] = "wait"]
  /\ faults' = faults \cup {"init"}
  /\ UNCHANGED <<clients, replied, inbox, neighbors, link_costs, links, seen, unsent>>

\* Router r is killed and started again, with a new address. The NFE ignores the
\* init message of a router it knows ("already been received") and whatever comes
\* from an address it does not; r then waits for a reply for ever.
Restart(r) ==
  /\ phase[r] \in {"wait", "forward", "dead"}
  /\ \/ r \notin clients
     \/ Cardinality({v \in Routers : phase[v] = "ignored"}) < RestartLimit
  /\ IF r \in clients
     THEN /\ phase' = [phase EXCEPT ![r] = "ignored"]
          /\ faults' = faults \cup {"restart"}
     ELSE /\ phase' = [phase EXCEPT ![r] = "start"]
          /\ UNCHANGED faults
  /\ inbox' = [inbox EXCEPT ![r] = <<>>]
  /\ neighbors' = [neighbors EXCEPT ![r] = {}]
  /\ link_costs' = [link_costs EXCEPT ![r] = [l \in Links |-> Unknown]]
  /\ links' = [links EXCEPT ![r] = [l \in Links |-> {}]]
  /\ seen' = [seen EXCEPT ![r] = {}]
  /\ unsent' = [unsent EXCEPT ![r] = {}]
  /\ UNCHANGED <<clients, replied>>

Fault(r) == LoseDatagram(r) \/ LoseInit(r) \/ Restart(r)

Next == NfeReply \/ \E r \in Routers : Router(r) \/ Fault(r)

Spec == Init /\ [][Next]_vars

\* The NFE and every router, each a process of its own, go on.
FairSpec ==
  /\ Spec
  /\ WF_vars(NfeReply)
  /\ \A r \in Routers : WF_vars(Router(r))

-----------------------------------------------------------------------------
LsaMessage ==
  [type : {"lsa"}, sender : Routers, slink : Links, router : Routers, rlink : Links, cost : Nat]

Reply == [type : {"reply"}, costs : [Links -> Nat \cup {Unknown}]]

TypeOK ==
  /\ clients \subseteq Routers
  /\ replied \in BOOLEAN
  /\ inbox \in [Routers -> Seq(LsaMessage \cup Reply)]
  /\ phase \in [Routers -> {"start", "wait", "forward", "ignored", "dead"}]
  /\ neighbors \in [Routers -> SUBSET Links]
  /\ link_costs \in [Routers -> [Links -> Nat \cup {Unknown}]]
  /\ links \in [Routers -> [Links -> SUBSET Routers]]
  /\ seen \in [Routers -> SUBSET (Routers \X Links \X Nat)]
  /\ unsent \in [Routers -> SUBSET LsaMessage]
  /\ faults \subseteq {"init", "reply", "lsa", "restart"}

\* Every router that waited for its links has got them.
RepliesArrive == "reply" \notin faults

\* What a router believes of the network is true, and stays true when
\* advertisements are lost: it knows only real ends of links, though all it has
\* are other routers' words (update_from_LSA), and, unless a router took an LSA for
\* its links and told wrong costs, only real costs.
KnowledgeTrue ==
  \A r \in Routers, l \in Links :
    /\ links[r][l] \subseteq Ends[l]
    /\ RepliesArrive => link_costs[r][l] \in {Unknown, Cost[l]}

\* No router dies: update_graph finds a cost for each link whose ends are known,
\* and init() its links in the reply.
NoKeyError == RepliesArrive => \A r \in Routers : phase[r] # "dead"

\* init() takes the first datagram for the init reply without looking at its
\* type ("Wait for 'init-reply'"): no neighbour's LSA may overtake the reply.
ReplyFirst ==
  RepliesArrive =>
    \A r \in Routers :
      phase[r] = "wait" /\ inbox[r] # <<>> => Head(inbox[r]).type = "reply"

\* "Wait for 'init-reply'" (init()): a router forwards only when it has got its links.
\* It does not hold: when the reply is lost, the first LSA is read in its place.
ForwardsOverOwnLinks ==
  \A r \in Routers : phase[r] = "forward" => neighbors[r] = {l \in Links : r \in Ends[l]}

\* Nothing is on its way but LSAs that will be dropped. A router whose reply was lost
\* waits.
AtRest ==
  \A r \in Routers : Reachable(r) =>
    \/ Waiting(r) /\ \A i \in 1 .. Len(inbox[r]) : ~IsNew(r, i)
    \/ ~RepliesArrive /\ phase[r] = "wait" /\ inbox[r] = <<>>

\* A lost init message does no harm once the router has been started again.
Undisturbed == faults \subseteq {"init"}

\* When nothing new is on its way any more and nothing was lost, every router
\* knows every link: each half of a link is told once, over that link alone, and
\* the rest is echo.
CompleteAtRest == AtRest /\ Undisturbed => \A r \in Routers : links[r] = Ends

\* Flooding comes to an end, whatever is lost and whoever is started again, and
\* with it the differences between the routers, unless something was lost. Only
\* a lost init message keeps the NFE from answering (`while len(clients) !=
\* expected_clients`), and then nobody floods.
Converges ==
  \/ <>[](AtRest /\ (Undisturbed => \A r \in Routers : links[r] = Ends))
  \/ <>[]("init" \in faults /\ ~AllKnown /\ \A r \in Routers : inbox[r] = <<>>)
=============================================================================
