------------------------------- MODULE Topology -------------------------------
(***************************************************************************)
(* The class Topology of a3/nfe.py: the links of the topology file, in the *)
(* order of the file, are turned into routers with lists of neighbours,    *)
(* which are then validated. What it accepts is the network that module    *)
(* LinkState takes as given.                                               *)
(***************************************************************************)
EXTENDS Integers, Sequences, FiniteSets, SequencesExt

CONSTANTS
  RouterIds,  \* router ids the file may mention
  Keys,       \* link ids as they are spelled in the file
  IntOf,      \* the number each of them is, "01" and "1" being the same
  Costs,      \* costs of links: any integers, nothing is asked of them
  MaxLinks    \* links in the file: a bound

ASSUME FileAssumption ==
  /\ IntOf \in [Keys -> Int]
  /\ Costs \subseteq Int
  /\ MaxLinks \in Nat

VARIABLES
  pc,             \* "parse", "visit"; "accepted" or "rejected"
  links,          \* Topology.links with what the file says of each: its ends, in order
  routers,        \* Topology.routers: their ids
  neighbours,     \* Router.neighbours: who is at the other end of which link
  visited,        \* validate_connected: the routers visited,
  to_be_visited,  \* those of this round still to come
  to_be_visited_temp, \* those of the next round
  neighbours_left \* and the neighbours of the router just visited still to be looked at

search == <<visited, to_be_visited, to_be_visited_temp, neighbours_left>>
vars == <<pc, links, routers, neighbours, search>>

Init ==
  /\ pc = "parse"
  /\ links = <<>>
  /\ routers = <<>>
  /\ neighbours = [r \in RouterIds |-> <<>>]
  /\ visited = <<>> /\ to_be_visited = <<>> /\ to_be_visited_temp = <<>>
  /\ neighbours_left = <<>>

\* add_router_connection, for both ends of a link.
WithRouter(rs, r) == IF r \in Range(rs) THEN rs ELSE Append(rs, r)
WithNeighbour(lists, r, link, other) == [lists EXCEPT ![r] = Append(@, [id |-> other, link |-> link])]

\* Faulty variant: only the first end gets to know the other.
ConnectOne(link) == WithNeighbour(neighbours, link.ends[1], link, link.ends[2])

Connect(link) ==
  WithNeighbour(WithNeighbour(neighbours, link.ends[1], link, link.ends[2]),
                link.ends[2], link, link.ends[1])

\* One link of the file. (dup_key_verify has refused a file that spells an id twice.)
ParseLink ==
  /\ pc = "parse"
  /\ Len(links) < MaxLinks
  /\ \E key \in Keys \ {links[i].key : i \in 1 .. Len(links)}, r1, r2 \in RouterIds, cost \in Costs :
       LET link == [key |-> key, id |-> IntOf[key], ends |-> <<r1, r2>>, cost |-> cost]
       IN /\ links' = Append(links, link)
          /\ routers' = WithRouter(WithRouter(routers, r1), r2)
          /\ neighbours' = Connect(link)
  /\ UNCHANGED <<pc, search>>

\* validate_no_self_connection.
ConnectsToItself == \E r \in Range(routers) : \E n \in Range(neighbours[r]) : n.id = r

\* Faulty variant: the pairs as they are in the file.
MoreThanOneUnsorted ==
  \E i, j \in 1 .. Len(links) : i # j /\ links[i].ends = links[j].ends

\* validate_only_1_link: two sorted pairs are equal.
MoreThanOneLink ==
  \E i, j \in 1 .. Len(links) : i # j /\ Range(links[i].ends) = Range(links[j].ends)

\* The file has ended. The search starts at the first router.
Validate ==
  /\ pc = "parse"
  /\ \/ /\ links = <<>> \/ ConnectsToItself \/ MoreThanOneLink
        /\ pc' = "rejected"
        /\ UNCHANGED search
     \/ /\ links # <<>> /\ ~ConnectsToItself /\ ~MoreThanOneLink
        /\ pc' = "visit"
        /\ to_be_visited' = <<routers[1]>>
        /\ UNCHANGED <<visited, to_be_visited_temp, neighbours_left>>
  /\ UNCHANGED <<links, routers, neighbours>>

\* Faulty variant: a router planned for the next round is planned again.
NewIfNotVisited(id) == id \notin Range(visited) \cup Range(to_be_visited)

\* A neighbour that has not been visited and is not planned for this round or the next.
New(id) == id \notin Range(visited) \cup Range(to_be_visited) \cup Range(to_be_visited_temp)

\* One router of the round: the loop over its neighbours begins.
Visit ==
  /\ pc = "visit" /\ neighbours_left = <<>> /\ to_be_visited # <<>>
  /\ visited' = Append(visited, Head(to_be_visited))
  /\ neighbours_left' = neighbours[Head(to_be_visited)]
  /\ to_be_visited' = Tail(to_be_visited)
  /\ UNCHANGED <<pc, links, routers, neighbours, to_be_visited_temp>>

\* One round of this loop.
Look ==
  /\ pc = "visit" /\ neighbours_left # <<>>
  /\ LET id == Head(neighbours_left).id
     IN to_be_visited_temp' = IF New(id) THEN Append(to_be_visited_temp, id) ELSE to_be_visited_temp
  /\ neighbours_left' = Tail(neighbours_left)
  /\ UNCHANGED <<pc, links, routers, neighbours, visited, to_be_visited>>

NextRound ==
  /\ pc = "visit" /\ neighbours_left = <<>> /\ to_be_visited = <<>> /\ to_be_visited_temp # <<>>
  /\ to_be_visited' = to_be_visited_temp
  /\ to_be_visited_temp' = <<>>
  /\ UNCHANGED <<pc, links, routers, neighbours, visited, neighbours_left>>

\* Only the numbers of routers are compared.
EndOfSearch ==
  /\ pc = "visit" /\ neighbours_left = <<>> /\ to_be_visited = <<>> /\ to_be_visited_temp = <<>>
  /\ pc' = IF Len(visited) = Len(routers) THEN "accepted" ELSE "rejected"
  /\ UNCHANGED <<links, routers, neighbours, search>>

Next == ParseLink \/ Validate \/ Visit \/ Look \/ NextRound \/ EndOfSearch

Spec == Init /\ [][Next]_vars

-----------------------------------------------------------------------------
TypeOK ==
  /\ pc \in {"parse", "visit", "accepted", "rejected"}
  /\ links \in Seq([key : Keys, id : Range(IntOf), ends : RouterIds \X RouterIds, cost : Costs])
  /\ routers \in Seq(RouterIds)
  /\ neighbours \in [RouterIds -> Seq([id : RouterIds, link : Range(links)])]
  /\ visited \in Seq(RouterIds) /\ to_be_visited \in Seq(RouterIds)
  /\ to_be_visited_temp \in Seq(RouterIds)
  /\ neighbours_left \in Seq([id : RouterIds, link : Range(links)])

(* The file by itself.                                                     *)

Joins(u, v) == {i \in 1 .. Len(links) : Range(links[i].ends) = {u, v}}
Mentioned == UNION {Range(links[i].ends) : i \in 1 .. Len(links)}

\* At most one link joins two routers, none a router to itself, and there is no
\* way to part the routers without cutting a link.
Sound ==
  /\ links # <<>>
  /\ \A u, v \in Mentioned : Cardinality(Joins(u, v)) <= IF u = v THEN 0 ELSE 1
  /\ \A part \in SUBSET Mentioned : part \notin {{}, Mentioned} =>
       \E u \in part, v \in Mentioned \ part : Joins(u, v) # {}

\* The file is accepted exactly if it is sound, although the search is over lists
\* and ends by comparing two lengths: a router visited twice would make up for
\* one that cannot be reached.
AcceptsExactlySound ==
  /\ pc = "accepted" => Sound
  /\ pc = "rejected" => ~Sound

\* Of an accepted file whose link ids are different numbers, every link id in the
\* list of a router leads to one neighbour, in whose list it leads back: the NFE,
\* which forwards by the id alone, sends over the link that was meant. Ids that
\* are different strings, as dup_key_verify asks, are not enough.
LinksLeadBack ==
  /\ pc = "accepted"
  /\ \A i, j \in 1 .. Len(links) : links[i].id = links[j].id => i = j
  => \A r \in Range(routers) : \A n \in Range(neighbours[r]) :
       /\ \A m \in Range(neighbours[r]) : m.link.id = n.link.id => m = n
       /\ \E back \in Range(neighbours[n.id]) : back.link = n.link /\ back.id = r
=============================================================================
