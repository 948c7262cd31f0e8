----------------------------- MODULE TopologyInv -----------------------------
(***************************************************************************)
(* The inductive invariant behind AcceptsExactlySound and LinksLeadBack of *)
(* Topology; and the network that an accepted file describes.              *)
(***************************************************************************)
EXTENDS Topology, Networks

\* The lists say what the links say: the routers are those of the links, none of
\* them listed twice, and the neighbours of a router those at the other end of its
\* links. No key is spelled twice.
FileInv ==
  /\ \A i, j \in 1 .. Len(links) : links[i].key = links[j].key => i = j
  /\ IsInjective(routers)
  /\ Range(routers) = Mentioned
  /\ \A r \in RouterIds : \A n \in Range(neighbours[r]) : n.link.ends \in {<<r, n.id>>, <<n.id, r>>}
  /\ \A link \in Range(links), r, other \in RouterIds :
       link.ends \in {<<r, other>>, <<other, r>>} => [id |-> other, link |-> link] \in Range(neighbours[r])

\* Nobody has been searched for while the file is read.
ParsedInv ==
  pc = "parse" => visited = <<>> /\ to_be_visited_temp = <<>> /\ neighbours_left = <<>>

\* What the first two validations have let pass.
ValidatedInv ==
  pc \in {"visit", "accepted"} => links # <<>> /\ ~ConnectsToItself /\ ~MoreThanOneLink

Found == Range(visited) \cup Range(to_be_visited) \cup Range(to_be_visited_temp)

\* No neighbour of a router of this set is outside it.
Closed(part) == \A r \in part : \A n \in Range(neighbours[r]) : n.id \in part

\* No router is found twice, the neighbours of the visited ones are found but for
\* those still to be looked at, and only routers that can be reached from the first.
SearchInv ==
  pc = "visit" =>
    /\ IsInjective(visited) /\ IsInjective(to_be_visited) /\ IsInjective(to_be_visited_temp)
    /\ Range(visited) \cap Range(to_be_visited) = {}
    /\ Range(visited) \cap Range(to_be_visited_temp) = {}
    /\ Range(to_be_visited) \cap Range(to_be_visited_temp) = {}
    /\ Found \subseteq Mentioned
    /\ routers[1] \in Found
    /\ \A r \in Range(visited) : \A n \in Range(neighbours[r]) :
         n.id \in Found \/ n \in Range(neighbours_left)
    /\ \A n \in Range(neighbours_left) : \E r \in Range(visited) : n \in Range(neighbours[r])
    /\ \A part \in SUBSET Mentioned : routers[1] \in part /\ Closed(part) => Found \subseteq part

TopologyInv ==
  /\ TypeOK
  /\ FileInv
  /\ ParsedInv
  /\ ValidatedInv
  /\ SearchInv
  /\ AcceptsExactlySound

-----------------------------------------------------------------------------
(* The network of a file, in the terms of LinkState.                       *)

Ids == {links[i].id : i \in 1 .. Len(links)}
LinkOf(id) == CHOOSE link \in Range(links) : link.id = id
EndsOf == [id \in Ids |-> Range(LinkOf(id).ends)]

\* A file that is accepted, and whose link ids are different numbers, describes a
\* network as LinkState takes one for granted, and the list of a router, of which
\* the NFE makes its init reply, has exactly the links that the router is an end of.
AcceptedIsNetwork ==
  /\ pc = "accepted"
  /\ \A i, j \in 1 .. Len(links) : links[i].id = links[j].id => i = j
  => /\ IsNetwork(Range(routers), Ids, EndsOf)
     /\ \A r \in Range(routers) :
          {n.link.id : n \in Range(neighbours[r])} = {id \in Ids : r \in EndsOf[id]}
=============================================================================
