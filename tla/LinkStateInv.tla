----------------------------- MODULE LinkStateInv -----------------------------
(***************************************************************************)
(* The inductive invariants behind the safety properties of LinkState:     *)
(* LinkInv behind KnowledgeTrue, NoKeyError and ReplyFirst, FloodInv       *)
(* behind CompleteAtRest.                                                  *)
(***************************************************************************)
EXTENDS LinkState

\* The start: the NFE knows no router that has not sent its init message, and
\* nothing is on its way before it has heard from all.
StartInv ==
  /\ \A r \in Routers : phase[r] = "start" => r \notin clients
  /\ replied => clients = Routers
  /\ ~replied => \A r \in Routers :
       inbox[r] = <<>> /\ unsent[r] = {} /\ phase[r] \notin {"forward", "dead"}

\* An init reply comes first in the queue of a router that waits for it, with its
\* own links.
QueueInv ==
  \A r \in Routers : \A i \in 1 .. Len(inbox[r]) : inbox[r][i].type = "reply" =>
    i = 1 /\ phase[r] = "wait" /\ inbox[r][i] = InitReply(IncidentCosts(r))

\* What an LSA says of who is at the ends of its link is true.
TrueEnd(m) == m.router \in Ends[m.rlink]

\* Every LSA on its way came over a link of its receiver and names a real end; so
\* does every LSA still to be sent that the NFE will not ignore.
LsaInv ==
  \A r \in Routers :
    /\ \A i \in 1 .. Len(inbox[r]) : inbox[r][i].type = "lsa" =>
         TrueEnd(inbox[r][i]) /\ Ends[inbox[r][i].slink] = {inbox[r][i].sender, r}
    /\ \A m \in unsent[r] : m.sender = r /\ (r \in Ends[m.slink] => TrueEnd(m))

\* Every known end of a link is one.
EndsKnown == \A r \in Routers, l \in Links : links[r][l] \subseteq Ends[l]

\* A router that waits for its links finds them in its queue.
ReplyComes ==
  \A r \in Routers : replied /\ phase[r] = "wait" =>
    inbox[r] # <<>> /\ inbox[r][1].type = "reply"

\* What an LSA says is true.
TrueLsa(m) == TrueEnd(m) /\ m.cost = Cost[m.rlink]

\* Every LSA is true.
LsasTrue ==
  \A r \in Routers :
    /\ \A i \in 1 .. Len(inbox[r]) : inbox[r][i].type = "lsa" => TrueLsa(inbox[r][i])
    /\ \A m \in unsent[r] : TrueLsa(m)

\* No router dies; one knows its own links, a cost for every link it has heard of,
\* and no wrong cost.
KnownInv ==
  \A r \in Routers :
    /\ phase[r] # "dead"
    /\ phase[r] # "forward" => unsent[r] = {}
    /\ \A l \in Links :
         /\ phase[r] = "forward" /\ r \in Ends[l] => link_costs[r][l] # Unknown
         /\ links[r][l] # {} => link_costs[r][l] # Unknown
         /\ link_costs[r][l] \in {Unknown, Cost[l]}

\* Until an init reply is lost.
CostsInv == RepliesArrive => ReplyComes /\ LsasTrue /\ KnownInv

LinkInv ==
  /\ TypeOK
  /\ StartInv
  /\ QueueInv
  /\ LsaInv
  /\ EndsKnown
  /\ CostsInv

-----------------------------------------------------------------------------
\* What a router sends goes out over its own links, all of which it knows when it
\* forwards; only a router that forwards has seen an LSA, and it has learnt what
\* that says. Nobody is ignored unless someone was started again.
OwnInv ==
  \A r \in Routers :
    /\ RepliesArrive /\ phase[r] = "forward" => neighbors[r] = {l \in Links : r \in Ends[l]}
    /\ phase[r] \notin {"forward", "dead"} => seen[r] = {}
    /\ \A k \in seen[r] : k[1] \in links[r][k[2]]
    /\ phase[r] = "ignored" => "restart" \in faults

\* The key of the LSA that router v has link l.
Half(v, l) == <<v, l, Cost[l]>>

\* Router r has still to send an LSA with this key over link l.
Owes(r, l, key) == \E m \in unsent[r] : m.slink = l /\ Key(m) = key

\* One is on its way to r.
Comes(r, key) ==
  \E i \in 1 .. Len(inbox[r]) : inbox[r][i].type = "lsa" /\ Key(inbox[r][i]) = key

\* While nothing is lost, whatever a router tells, its own links first and then all
\* that it hears, has been heard by the router at the other end of each link, or is
\* on its way to it, or has still to be sent there.
FloodedInv ==
  Undisturbed =>
    \A a, b \in Routers, l \in Links : Ends[l] = {a, b} /\ a # b =>
      \A key \in seen[a] \cup (IF phase[a] = "forward" THEN {Half(a, l)} ELSE {}) :
        Owes(a, l, key) \/ Comes(b, key) \/ key \in seen[b]

FloodInv ==
  /\ LinkInv
  /\ OwnInv
  /\ FloodedInv
=============================================================================
