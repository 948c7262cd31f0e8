--------------------------- MODULE LinkStateProofs ---------------------------
(***************************************************************************)
(* Proofs about LinkState for every topology: whatever is lost and whoever *)
(* is started again, what the routers know of the ends of links is true;   *)
(* until an init reply is lost, so are the costs, no router dies, and none *)
(* takes an LSA for the NFE's reply. With nothing lost, their tables hold  *)
(* real routes at any time, and shortest ones when flooding has come to an *)
(* end.                                                                    *)
(***************************************************************************)
EXTENDS RoutingTableInv, Lemmas

Message == LsaMessage \cup Reply

\* The assumption, spelled out.
LEMMA TopologyFacts ==
  /\ Routers \subseteq Nat /\ IsFiniteSet(Routers)
  /\ Links \subseteq Nat
  /\ Ends \in [Links -> SUBSET Routers]
  /\ \A l \in Links : \E u, v \in Routers : u # v /\ Ends[l] = {u, v}
  /\ \A k, l \in Links : Ends[k] = Ends[l] => k = l
  /\ \A part \in SUBSET Routers : part \notin {{}, Routers} =>
       \E l \in Links : Ends[l] \cap part # {} /\ ~ Ends[l] \subseteq part
  /\ Cost \in [Links -> Nat]
  /\ InboxLimit \in Nat \ {0}
  /\ RestartLimit \in Nat
BY TopologyAssumption DEF IsNetwork

-----------------------------------------------------------------------------
(* The invariant holds in every reachable state. One lemma per action.     *)

LEMMA InitInv == Init => LinkInv
<1> SUFFICES ASSUME Init PROVE LinkInv
  OBVIOUS
<1>1. TypeOK
  BY EmptySeq DEF Init, TypeOK
<1>2. StartInv
  BY DEF Init, StartInv
<1>3. QueueInv /\ LsaInv /\ EndsKnown
  BY EmptySeq DEF Init, QueueInv, LsaInv, EndsKnown
<1>4. CostsInv
  <2>1. ReplyComes /\ LsasTrue
    BY EmptySeq DEF Init, ReplyComes, LsasTrue
  <2>2. KnownInv
    BY TopologyFacts DEF Init, KnownInv
  <2> QED
    BY <2>1, <2>2 DEF CostsInv
<1> QED
  BY <1>1, <1>2, <1>3, <1>4 DEF LinkInv

\* What was lost stays lost.
LEMMA RepliesArrived ==
  ASSUME CostsInv, RepliesArrive', faults \subseteq faults'
  PROVE  RepliesArrive /\ ReplyComes /\ LsasTrue /\ KnownInv
BY DEF CostsInv, RepliesArrive

LEMMA NfeReplyInv ==
  ASSUME LinkInv, NfeReply
  PROVE  LinkInv'
<1>1. ASSUME NEW r \in Routers
      PROVE  /\ inbox'[r] \in Seq(Message)
             /\ phase[r] \in {"wait", "ignored"}
             /\ phase[r] = "wait" => inbox'[r] # <<>> /\ inbox'[r][1].type = "reply"
             /\ \A i \in 1 .. Len(inbox'[r]) :
                  /\ i = 1 /\ phase[r] = "wait" /\ inbox'[r][i].type = "reply"
                  /\ inbox'[r][i] = InitReply(IncidentCosts(r))
  <2>1. /\ InitReply(IncidentCosts(r)) \in Message
        /\ InitReply(IncidentCosts(r)).type = "reply"
    BY TopologyFacts DEF InitReply, IncidentCosts, Message, Reply, Unknown
  <2>2. inbox[r] = <<>>
    BY DEF LinkInv, StartInv, NfeReply
  <2>3. phase[r] \in {"wait", "ignored"}
    BY DEF LinkInv, TypeOK, StartInv, NfeReply, AllKnown
  <2>4. inbox[r] \in Seq(Message) /\ Len(inbox[r]) = 0
    BY <2>2, EmptySeq
  <2>5. CASE phase[r] = "wait"
    <3>1. inbox'[r] = Append(inbox[r], InitReply(IncidentCosts(r)))
      BY <2>5 DEF NfeReply, AllKnown, Reachable
    <3>2. Len(inbox'[r]) = 1
      BY <2>1, <2>4, <3>1, AppendResult
    <3> QED
      BY <2>1, <2>4, <2>5, <3>1, <3>2, AppendResult
  <2>6. CASE phase[r] = "ignored"
    <3>1. inbox'[r] = inbox[r]
      BY <2>6 DEF NfeReply, Reachable
    <3> QED
      BY <2>4, <2>6, <3>1
  <2> QED
    BY <2>3, <2>5, <2>6
<1>2. inbox' \in [Routers -> Seq(Message)]
  <2>1. inbox' = [r \in Routers |-> inbox'[r]]
    BY DEF NfeReply
  <2> QED
    BY <1>1, <2>1
<1>3. TypeOK'
  BY <1>2 DEF NfeReply, TypeOK, Message, LinkInv
<1>4. StartInv'
  BY DEF NfeReply, StartInv, LinkInv, AllKnown
<1>5. phase' = phase /\ faults' = faults /\ unsent' = unsent
  BY DEF NfeReply
<1>6. QueueInv'
  BY <1>1, <1>5 DEF QueueInv, InitReply, IncidentCosts, Unknown
<1>7. \A r \in Routers : \A i \in 1 .. Len(inbox'[r]) : inbox'[r][i].type # "lsa"
  BY <1>1
<1>8. LsaInv' /\ EndsKnown'
  BY <1>7 DEF LinkInv, LsaInv, TrueEnd, EndsKnown, NfeReply
<1>9. CostsInv'
  <2> SUFFICES ASSUME RepliesArrive' PROVE ReplyComes' /\ LsasTrue' /\ KnownInv'
    BY DEF CostsInv
  <2>1. LsasTrue /\ KnownInv
    BY <1>5, RepliesArrived DEF LinkInv
  <2>2. ReplyComes'
    BY <1>1, <1>5 DEF ReplyComes
  <2>3. LsasTrue'
    BY <1>5, <1>7, <2>1 DEF LsasTrue, TrueLsa, TrueEnd
  <2>4. KnownInv'
    BY <2>1 DEF KnownInv, Unknown, NfeReply
  <2> QED
    BY <2>2, <2>3, <2>4
<1> QED
  BY <1>3, <1>4, <1>6, <1>8, <1>9 DEF LinkInv

\* A router that starts, and one whose init message is lost, only waits.
LEMMA StartsInv ==
  ASSUME LinkInv, NEW r \in Routers, SendInit(r) \/ LoseInit(r)
  PROVE  LinkInv'
<1>1. /\ phase' = [phase EXCEPT ![r] = "wait"]
      /\ phase \in [Routers -> {"start", "wait", "forward", "ignored", "dead"}]
      /\ phase[r] = "start" /\ faults \subseteq faults'
      /\ clients \subseteq clients' /\ clients' \subseteq clients \cup {r}
      /\ UNCHANGED <<replied, inbox, neighbors, link_costs, links, seen, unsent>>
  BY DEF SendInit, LoseInit, LinkInv, TypeOK
<1>2. ~replied /\ \A v \in Routers : inbox[v] = <<>>
  BY <1>1 DEF LinkInv, StartInv
<1>3. TypeOK'
  BY <1>1 DEF SendInit, LoseInit, LinkInv, TypeOK
<1>4. StartInv'
  BY <1>1, <1>2 DEF LinkInv, StartInv
<1>5. QueueInv'
  BY <1>1, <1>2, EmptySeq DEF QueueInv
<1>6. LsaInv' /\ EndsKnown'
  BY <1>1 DEF LinkInv, LsaInv, TrueEnd, EndsKnown
<1>7. CostsInv'
  <2> SUFFICES ASSUME RepliesArrive' PROVE ReplyComes' /\ LsasTrue' /\ KnownInv'
    BY DEF CostsInv
  <2>1. LsasTrue /\ KnownInv
    BY <1>1, RepliesArrived DEF LinkInv
  <2>2. ReplyComes' /\ LsasTrue'
    BY <1>1, <1>2, <2>1 DEF ReplyComes, LsasTrue, TrueLsa, TrueEnd
  <2>3. KnownInv'
    BY <1>1, <2>1 DEF KnownInv, Unknown
  <2> QED
    BY <2>2, <2>3
<1> QED
  BY <1>3, <1>4, <1>5, <1>6, <1>7 DEF LinkInv

LEMMA LinksReadType ==
  ASSUME NEW m \in Message
  PROVE  LinksRead(m) \in [Links -> Nat \cup {Unknown}]
<1>1. CASE m \in LsaMessage
  BY <1>1, TopologyFacts DEF LinksRead, LsaMessage
<1>2. CASE m \in Reply
  BY <1>2 DEF LinksRead, Reply
<1> QED
  BY <1>1, <1>2 DEF Message

\* What init() sends when it has read these links.
LEMMA BroadcastResult ==
  ASSUME NEW r \in Routers, NEW costs \in [Links -> Nat \cup {Unknown}],
         NEW m \in Broadcast(r, costs)
  PROVE  /\ m \in LsaMessage
         /\ m.sender = r /\ m.router = r
         /\ m.rlink = m.slink /\ m.slink \in Listed(costs) /\ m.cost = costs[m.slink]
<1>1. PICK l \in Listed(costs) : m = Lsa(r, l, r, l, costs[l])
  BY DEF Broadcast
<1>2. l \in Links /\ costs[l] \in Nat
  BY DEF Listed
<1> QED
  BY <1>1, <1>2 DEF Lsa, LsaMessage

LEMMA IncidentResult ==
  ASSUME NEW r \in Routers
  PROVE  /\ Listed(IncidentCosts(r)) = {l \in Links : r \in Ends[l]}
         /\ \A l \in Listed(IncidentCosts(r)) : IncidentCosts(r)[l] = Cost[l]
<1> DEFINE costs == IncidentCosts(r)
<1>1. \A l \in Links : Cost[l] # Unknown
  BY TopologyFacts DEF Unknown
<1>2. \A l \in Links : costs[l] = IF r \in Ends[l] THEN Cost[l] ELSE Unknown
  BY DEF IncidentCosts
<1> HIDE DEF costs
<1> QED
  BY <1>1, <1>2 DEF Listed, costs

\* Until a reply is lost, init() reads what the NFE has replied.
LEMMA OwnLinksRead ==
  ASSUME LinkInv, RepliesArrive, NEW r \in Routers, phase[r] = "wait", inbox[r] # <<>>
  PROVE  /\ Head(inbox[r]).type = "reply"
         /\ LinksRead(Head(inbox[r])) = IncidentCosts(r)
<1>1. inbox[r] \in Seq(Message)
  BY DEF LinkInv, TypeOK, Message
<1>2. Head(inbox[r]) = inbox[r][1] /\ 1 \in 1 .. Len(inbox[r])
  BY <1>1, TailResult
<1>3. replied
  BY DEF LinkInv, StartInv
<1>4. inbox[r][1].type = "reply"
  BY <1>3 DEF LinkInv, CostsInv, ReplyComes
<1>5. inbox[r][1] = InitReply(IncidentCosts(r))
  BY <1>2, <1>4 DEF LinkInv, QueueInv
<1> QED
  BY <1>2, <1>4, <1>5 DEF LinksRead, InitReply

LEMMA ReceiveInitReplyInv ==
  ASSUME LinkInv, NEW r \in Routers, ReceiveInitReply(r)
  PROVE  LinkInv'
<1> DEFINE costs == LinksRead(Head(inbox[r]))
<1>1. /\ TypeOK /\ StartInv /\ QueueInv /\ LsaInv /\ EndsKnown /\ CostsInv
      /\ phase[r] = "wait" /\ inbox[r] # <<>>
      /\ inbox \in [Routers -> Seq(Message)]
  BY DEF LinkInv, ReceiveInitReply, TypeOK, Message
<1>2. replied
  BY <1>1 DEF StartInv
<1>3. costs \in [Links -> Nat \cup {Unknown}]
  <2>1. Head(inbox[r]) \in Message
    BY <1>1, TailResult
  <2> QED
    BY <2>1, LinksReadType
<1>4. RepliesArrive => costs = IncidentCosts(r)
  BY <1>1, OwnLinksRead
<1>5. /\ neighbors' = [neighbors EXCEPT ![r] = Listed(costs)]
      /\ link_costs' = [link_costs EXCEPT ![r] = KeepCosts(@, costs)]
      /\ unsent' = [unsent EXCEPT ![r] = Broadcast(r, costs)]
      /\ inbox' = [inbox EXCEPT ![r] = Tail(@)]
      /\ phase' = [phase EXCEPT ![r] = "forward"]
      /\ UNCHANGED <<clients, replied, links, seen, faults>>
  BY DEF ReceiveInitReply
<1> HIDE DEF costs
<1>6. \A m \in Broadcast(r, costs) :
        m \in LsaMessage /\ m.sender = r /\ (r \in Ends[m.slink] => TrueEnd(m))
  BY <1>3, BroadcastResult DEF TrueEnd
<1>7. KeepCosts(link_costs[r], costs) \in [Links -> Nat \cup {Unknown}]
  BY <1>1, <1>3 DEF KeepCosts, TypeOK
<1>8. /\ Tail(inbox[r]) \in Seq(Message)
      /\ Len(inbox[r]) \in Nat \ {0}
      /\ Len(Tail(inbox[r])) = Len(inbox[r]) - 1
      /\ \A i \in 1 .. Len(inbox[r]) - 1 : Tail(inbox[r])[i] = inbox[r][i + 1]
  BY <1>1, TailResult
<1>9. TypeOK'
  <2>1. inbox' \in [Routers -> Seq(Message)]
    BY <1>1, <1>5, <1>8
  <2>2. Listed(costs) \subseteq Links
    BY DEF Listed
  <2>3. Broadcast(r, costs) \subseteq LsaMessage
    BY <1>6
  <2> QED
    BY <1>1, <1>5, <1>7, <2>1, <2>2, <2>3 DEF TypeOK, Message
<1>10. StartInv'
  BY <1>1, <1>2, <1>5 DEF StartInv, TypeOK
<1>11. /\ inbox'[r] = Tail(inbox[r]) /\ unsent'[r] = Broadcast(r, costs) /\ phase'[r] = "forward"
       /\ \A v \in Routers : v # r =>
            inbox'[v] = inbox[v] /\ unsent'[v] = unsent[v] /\ phase'[v] = phase[v]
  BY <1>1, <1>5 DEF TypeOK
<1>12. \A i \in 1 .. Len(inbox'[r]) :
         /\ i + 1 \in 1 .. Len(inbox[r]) /\ i + 1 # 1
         /\ inbox'[r][i] = inbox[r][i + 1]
  BY <1>8, <1>11
<1>13. QueueInv'
  <2> SUFFICES ASSUME NEW v \in Routers, NEW i \in 1 .. Len(inbox'[v]), inbox'[v][i].type = "reply"
               PROVE  i = 1 /\ phase'[v] = "wait" /\ inbox'[v][i] = InitReply(IncidentCosts(v))
    BY DEF QueueInv, InitReply, IncidentCosts, Unknown
  <2>1. CASE v # r
    BY <1>1, <1>11, <2>1 DEF QueueInv
  <2>2. CASE v = r
    <3>1. /\ i + 1 \in 1 .. Len(inbox[r]) /\ i + 1 # 1
          /\ inbox'[r][i] = inbox[r][i + 1]
      BY <1>12, <2>2
    <3>2. inbox[r][i + 1].type = "reply"
      BY <2>2, <3>1
    <3> QED
      BY <1>1, <3>1, <3>2 DEF QueueInv
  <2> QED
    BY <2>1, <2>2
<1>14. LsaInv'
  <2>1. ASSUME NEW v \in Routers, NEW i \in 1 .. Len(inbox'[v]), inbox'[v][i].type = "lsa"
        PROVE  TrueEnd(inbox'[v][i]) /\ Ends[inbox'[v][i].slink] = {inbox'[v][i].sender, v}
    <3>1. CASE v # r
      <4>1. inbox'[v] = inbox[v]
        BY <1>11, <3>1
      <4>2. \A k \in 1 .. Len(inbox[v]) : inbox[v][k].type = "lsa" =>
              TrueEnd(inbox[v][k]) /\ Ends[inbox[v][k].slink] = {inbox[v][k].sender, v}
        BY <1>1 DEF LsaInv
      <4> QED
        BY <2>1, <4>1, <4>2, Zenon
    <3>2. CASE v = r
      <4> DEFINE j == i + 1
      <4>1. j \in 1 .. Len(inbox[v]) /\ inbox'[v][i] = inbox[v][j]
        BY <1>12, <3>2
      <4>2. \A k \in 1 .. Len(inbox[v]) : inbox[v][k].type = "lsa" =>
              TrueEnd(inbox[v][k]) /\ Ends[inbox[v][k].slink] = {inbox[v][k].sender, v}
        BY <1>1 DEF LsaInv
      <4> HIDE DEF j
      <4> QED
        BY <2>1, <4>1, <4>2, Zenon
    <3> QED
      BY <3>1, <3>2
  <2>2. ASSUME NEW v \in Routers, NEW m \in unsent'[v]
        PROVE  m.sender = v /\ (v \in Ends[m.slink] => TrueEnd(m))
    BY <1>1, <1>6, <1>11 DEF LsaInv
  <2> QED
    BY <2>1, <2>2 DEF LsaInv, TrueEnd
<1>15. EndsKnown'
  BY <1>1, <1>5 DEF EndsKnown
<1>16. CostsInv'
  <2> SUFFICES ASSUME RepliesArrive' PROVE ReplyComes' /\ LsasTrue' /\ KnownInv'
    BY DEF CostsInv
  <2>1. RepliesArrive /\ ReplyComes /\ LsasTrue /\ KnownInv
    BY <1>1, <1>5, RepliesArrived
  <2>2. /\ costs = IncidentCosts(r)
        /\ Listed(costs) = {l \in Links : r \in Ends[l]}
        /\ \A l \in Listed(costs) : costs[l] = Cost[l]
    BY <1>4, <2>1, IncidentResult
  <2>3. ReplyComes'
    BY <1>5, <1>11, <2>1 DEF ReplyComes
  <2>4. LsasTrue'
    <3>1. ASSUME NEW v \in Routers, NEW i \in 1 .. Len(inbox'[v]), inbox'[v][i].type = "lsa"
          PROVE  TrueLsa(inbox'[v][i])
      <4>1. CASE v # r
        BY <1>11, <2>1, <3>1, <4>1 DEF LsasTrue
      <4>2. CASE v = r
        BY <1>12, <2>1, <3>1, <4>2 DEF LsasTrue
      <4> QED
        BY <4>1, <4>2
    <3>2. ASSUME NEW v \in Routers, NEW m \in unsent'[v]
          PROVE  TrueLsa(m)
      <4>1. CASE v # r
        BY <1>11, <2>1, <3>2, <4>1 DEF LsasTrue
      <4>2. CASE v = r
        BY <1>3, <1>11, <2>2, <3>2, <4>2, BroadcastResult DEF TrueLsa, TrueEnd
      <4> QED
        BY <4>1, <4>2
    <3> QED
      BY <3>1, <3>2 DEF LsasTrue, TrueLsa, TrueEnd
  <2>5. KnownInv'
    <3>1. \A l \in Links : KeepCosts(link_costs[r], costs)[l] =
                              IF r \in Ends[l] THEN Cost[l] ELSE link_costs[r][l]
      BY <2>2 DEF KeepCosts
    <3>2. \A v \in Routers, l \in Links :
            link_costs'[v][l] = IF v = r /\ r \in Ends[l] THEN Cost[l] ELSE link_costs[v][l]
      BY <1>1, <1>5, <3>1 DEF TypeOK
    <3>3. \A l \in Links : Cost[l] # Unknown
      BY TopologyFacts DEF Unknown
    <3> SUFFICES ASSUME NEW v \in Routers
                 PROVE  /\ phase'[v] # "dead"
                        /\ phase'[v] # "forward" => unsent'[v] = {}
                        /\ \A l \in Links :
                             /\ phase'[v] = "forward" /\ v \in Ends[l] => link_costs'[v][l] # Unknown
                             /\ links'[v][l] # {} => link_costs'[v][l] # Unknown
                             /\ link_costs'[v][l] \in {Unknown, Cost[l]}
      BY DEF KnownInv, Unknown
    <3>4. CASE v = r
      BY <1>5, <1>11, <2>1, <3>2, <3>3, <3>4 DEF KnownInv
    <3>5. CASE v # r
      BY <1>5, <1>11, <2>1, <3>2, <3>5 DEF KnownInv
    <3> QED
      BY <3>4, <3>5
  <2> QED
    BY <2>3, <2>4, <2>5
<1> QED
  BY <1>9, <1>10, <1>13, <1>14, <1>15, <1>16 DEF LinkInv

LEMMA DieInInitInv ==
  ASSUME LinkInv, NEW r \in Routers, DieInInit(r)
  PROVE  LinkInv'
<1>1. /\ TypeOK /\ StartInv /\ QueueInv /\ LsaInv /\ EndsKnown /\ CostsInv
      /\ phase[r] = "wait" /\ inbox[r] # <<>> /\ Head(inbox[r]).type = "lsa"
      /\ phase' = [phase EXCEPT ![r] = "dead"]
      /\ inbox' = [inbox EXCEPT ![r] = <<>>]
      /\ UNCHANGED <<clients, replied, neighbors, link_costs, links, seen, unsent, faults>>
      /\ <<>> \in Seq(LsaMessage \cup Reply) /\ Len(<<>>) = 0
  BY EmptySeq DEF LinkInv, DieInInit, TooShort
<1>2. replied
  BY <1>1 DEF StartInv
<1>3. /\ inbox'[r] = <<>> /\ phase'[r] = "dead"
      /\ \A v \in Routers : v # r => inbox'[v] = inbox[v] /\ phase'[v] = phase[v]
  BY <1>1 DEF TypeOK
<1>4. TypeOK'
  BY <1>1 DEF TypeOK
<1>5. StartInv'
  BY <1>1, <1>2, <1>3 DEF StartInv
<1>6. QueueInv'
  BY <1>1, <1>3 DEF QueueInv
<1>7. LsaInv' /\ EndsKnown'
  <2>1. \A v \in Routers : inbox'[v] = inbox[v] \/ Len(inbox'[v]) = 0
    BY <1>1, <1>3
  <2>2. ASSUME NEW v \in Routers, NEW i \in 1 .. Len(inbox'[v]), inbox'[v][i].type = "lsa"
        PROVE  TrueEnd(inbox'[v][i]) /\ Ends[inbox'[v][i].slink] = {inbox'[v][i].sender, v}
    <3>1. inbox'[v] = inbox[v]
      BY <2>1, <2>2
    <3>2. i \in 1 .. Len(inbox[v]) /\ inbox[v][i].type = "lsa"
      BY <2>2, <3>1
    <3>3. TrueEnd(inbox[v][i]) /\ Ends[inbox[v][i].slink] = {inbox[v][i].sender, v}
      BY <1>1, <3>2 DEF LsaInv
    <3> QED
      BY <3>1, <3>3
  <2>3. LsaInv'
    BY <1>1, <2>2 DEF LsaInv, TrueEnd
  <2> QED
    BY <1>1, <2>3 DEF EndsKnown
<1>8. CostsInv'
  <2>1. ~RepliesArrive
    BY <1>1, OwnLinksRead
  <2> QED
    BY <1>1, <2>1 DEF CostsInv, RepliesArrive
<1> QED
  BY <1>4, <1>5, <1>6, <1>7, <1>8 DEF LinkInv

LEMMA SendNextInv ==
  ASSUME LinkInv, NEW r \in Routers, SendNext(r)
  PROVE  LinkInv'
<1>1. PICK m \in unsent[r] : inbox' = Forward(m) /\ unsent' = [unsent EXCEPT ![r] = @ \ {m}]
  BY DEF SendNext
<1>2. /\ UNCHANGED <<clients, replied, phase, neighbors, link_costs, links, seen, faults>>
      /\ TypeOK /\ StartInv /\ QueueInv /\ LsaInv /\ EndsKnown /\ CostsInv
  BY DEF SendNext, LinkInv
<1>3. /\ m \in Message /\ m \in LsaMessage /\ m.type = "lsa"
      /\ m.sender = r /\ (r \in Ends[m.slink] => TrueEnd(m))
      /\ inbox \in [Routers -> Seq(Message)]
  BY <1>2 DEF TypeOK, LsaInv, LsaMessage, Message
<1>4. replied
  BY <1>2 DEF StartInv
<1>5. ASSUME NEW v \in Routers
      PROVE  \/ inbox'[v] = inbox[v]
             \/ Ends[m.slink] = {m.sender, v} /\ inbox'[v] = Append(inbox[v], m)
  BY <1>1 DEF Forward
<1>6. ASSUME NEW v \in Routers
      PROVE  /\ inbox'[v] \in Seq(Message)
             /\ inbox[v] # <<>> => inbox'[v] # <<>> /\ inbox'[v][1] = inbox[v][1]
             /\ \A i \in 1 .. Len(inbox'[v]) :
                  \/ i \in 1 .. Len(inbox[v]) /\ inbox'[v][i] = inbox[v][i]
                  \/ Ends[m.slink] = {m.sender, v} /\ inbox'[v][i] = m
  <2>1. CASE inbox'[v] = inbox[v]
    BY <1>3, <2>1
  <2>2. CASE Ends[m.slink] = {m.sender, v} /\ inbox'[v] = Append(inbox[v], m)
    <3>1. inbox[v] \in Seq(Message) /\ Len(inbox[v]) \in Nat
      BY <1>3, LenProperties
    <3>2. inbox[v] # <<>> => Len(inbox[v]) > 0
      BY <3>1, EmptySeq
    <3> QED
      BY <1>3, <2>2, <3>1, <3>2, AppendResult
  <2> QED
    BY <1>5, <2>1, <2>2
<1>7. TypeOK'
  <2>1. inbox' = [v \in Routers |-> inbox'[v]]
    BY <1>1 DEF Forward
  <2>2. inbox' \in [Routers -> Seq(Message)]
    BY <1>6, <2>1
  <2> QED
    BY <1>1, <1>2, <2>2 DEF TypeOK, Message
<1>8. StartInv'
  BY <1>2, <1>4 DEF StartInv
<1>9. QueueInv'
  <2> SUFFICES ASSUME NEW v \in Routers, NEW i \in 1 .. Len(inbox'[v]), inbox'[v][i].type = "reply"
               PROVE  i = 1 /\ phase'[v] = "wait" /\ inbox'[v][i] = InitReply(IncidentCosts(v))
    BY DEF QueueInv, InitReply, IncidentCosts, Unknown
  <2>1. CASE i \in 1 .. Len(inbox[v]) /\ inbox'[v][i] = inbox[v][i]
    <3>1. inbox[v][i].type = "reply"
      BY <2>1
    <3> QED
      BY <1>2, <2>1, <3>1 DEF QueueInv
  <2>2. CASE inbox'[v][i] = m
    BY <1>3, <2>2
  <2> QED
    BY <1>6, <2>1, <2>2
<1>10. \A v \in Routers : unsent'[v] \subseteq unsent[v]
  BY <1>1, <1>2 DEF TypeOK
<1>11. LsaInv' /\ EndsKnown'
  <2>1. ASSUME NEW v \in Routers, NEW i \in 1 .. Len(inbox'[v]), inbox'[v][i].type = "lsa"
        PROVE  TrueEnd(inbox'[v][i]) /\ Ends[inbox'[v][i].slink] = {inbox'[v][i].sender, v}
    <3>1. CASE i \in 1 .. Len(inbox[v]) /\ inbox'[v][i] = inbox[v][i]
      <4>1. inbox[v][i].type = "lsa"
        BY <2>1, <3>1
      <4>2. TrueEnd(inbox[v][i]) /\ Ends[inbox[v][i].slink] = {inbox[v][i].sender, v}
        BY <1>2, <3>1, <4>1 DEF LsaInv
      <4> QED
        BY <3>1, <4>2
    <3>2. CASE Ends[m.slink] = {m.sender, v} /\ inbox'[v][i] = m
      BY <1>3, <3>2
    <3> QED
      BY <1>6, <3>1, <3>2
  <2>2. LsaInv'
    BY <1>2, <1>10, <2>1 DEF LsaInv, TrueEnd
  <2> QED
    BY <1>2, <2>2 DEF EndsKnown
<1>12. CostsInv'
  <2> SUFFICES ASSUME RepliesArrive' PROVE ReplyComes' /\ LsasTrue' /\ KnownInv'
    BY DEF CostsInv
  <2>1. ReplyComes /\ LsasTrue /\ KnownInv
    BY <1>2, RepliesArrived
  <2>2. ReplyComes'
    BY <1>2, <1>6, <2>1 DEF ReplyComes
  <2>3. ASSUME NEW v \in Routers, NEW i \in 1 .. Len(inbox'[v]), inbox'[v][i].type = "lsa"
        PROVE  TrueLsa(inbox'[v][i])
    <3>1. CASE i \in 1 .. Len(inbox[v]) /\ inbox'[v][i] = inbox[v][i]
      <4>1. inbox[v][i].type = "lsa"
        BY <2>3, <3>1
      <4>2. TrueLsa(inbox[v][i])
        BY <2>1, <3>1, <4>1 DEF LsasTrue
      <4> QED
        BY <3>1, <4>2
    <3>2. CASE inbox'[v][i] = m
      BY <2>1, <3>2 DEF LsasTrue
    <3> QED
      BY <1>6, <3>1, <3>2
  <2>4. LsasTrue'
    BY <1>10, <2>1, <2>3 DEF LsasTrue, TrueLsa, TrueEnd
  <2>5. KnownInv'
    BY <1>2, <1>10, <2>1 DEF KnownInv, Unknown
  <2> QED
    BY <2>2, <2>4, <2>5
<1> QED
  BY <1>7, <1>8, <1>9, <1>11, <1>12 DEF LinkInv

\* What a router learns of an LSA that came by one of its links.
LEMMA LearnResult ==
  ASSUME NEW r \in Routers, NEW m \in LsaMessage, NEW known \in [Links -> SUBSET Routers],
         TrueEnd(m), Ends[m.slink] = {m.sender, r}
  PROVE  /\ LearnEnds(known, r, m) \in [Links -> SUBSET Routers]
         /\ \A l \in Links :
              /\ known[l] \subseteq Ends[l] => LearnEnds(known, r, m)[l] \subseteq Ends[l]
              /\ LearnEnds(known, r, m)[l] = known[l] \/ l = m.rlink \/ r \in Ends[l]
<1>1. \A l \in Links : LearnEnds(known, r, m)[l] =
        known[l] \cup {v \in Routers : \/ l = m.rlink /\ v = m.router
                                       \/ l = m.slink /\ v \in {m.sender, r}}
  BY DEF LearnEnds
<1>2. LearnEnds(known, r, m) \in [Links -> SUBSET Routers]
  BY DEF LearnEnds
<1>3. ASSUME NEW l \in Links, known[l] \subseteq Ends[l]
      PROVE  LearnEnds(known, r, m)[l] \subseteq Ends[l]
  BY <1>1, <1>3 DEF TrueEnd
<1>4. ASSUME NEW l \in Links, l # m.rlink, r \notin Ends[l]
      PROVE  LearnEnds(known, r, m)[l] = known[l]
  <2>1. l # m.slink
    BY <1>4
  <2>2. LearnEnds(known, r, m)[l] = known[l] \cup {}
    BY <1>1, <1>4, <2>1
  <2> QED
    BY <2>2
<1> QED
  BY <1>2, <1>3, <1>4

LEMMA ReceiveNewLsaInv ==
  ASSUME LinkInv, NEW r \in Routers, ReceiveNewLsa(r)
  PROVE  LinkInv'
<1>1. /\ TypeOK /\ StartInv /\ QueueInv /\ LsaInv /\ EndsKnown /\ CostsInv
      /\ phase[r] = "forward"
      /\ inbox \in [Routers -> Seq(Message)]
      /\ phase' = [phase EXCEPT ![r] = IF KeyError(links'[r], link_costs'[r]) THEN "dead" ELSE @]
      /\ UNCHANGED <<clients, replied, neighbors, faults>>
  BY DEF LinkInv, ReceiveNewLsa, Waiting, TypeOK, Message
<1>2. PICK k \in 1 .. Len(inbox[r]) :
        /\ inbox' = [inbox EXCEPT ![r] = SubSeq(@, k + 1, Len(@))]
        /\ seen' = [seen EXCEPT ![r] = @ \cup {Key(inbox[r][k])}]
        /\ unsent' = [unsent EXCEPT ![r] = Propagate(r, inbox[r][k])]
        /\ links' = [links EXCEPT ![r] = LearnEnds(@, r, inbox[r][k])]
        /\ link_costs' = [link_costs EXCEPT ![r][inbox[r][k].rlink] = inbox[r][k].cost]
  BY DEF ReceiveNewLsa
<1> DEFINE m == inbox[r][k]
<1>3. m \in LsaMessage /\ m.type = "lsa"
  <2>1. m \in Message
    BY <1>1, ElementOfSeq
  <2>2. m.type # "reply"
    BY <1>1 DEF QueueInv
  <2> QED
    BY <2>1, <2>2 DEF Message, Reply, LsaMessage
<1>4. /\ m.sender \in Routers /\ m.slink \in Links /\ m.router \in Routers
      /\ m.rlink \in Links /\ m.cost \in Nat
  BY <1>3 DEF LsaMessage
<1>5. /\ TrueEnd(m)
      /\ Ends[m.slink] = {m.sender, r}
  BY <1>1, <1>3 DEF LsaInv
<1>6. /\ \A v \in Routers : v # r => inbox'[v] = inbox[v]
      /\ inbox'[r] = SubSeq(inbox[r], k + 1, Len(inbox[r]))
      /\ inbox'[r] \in Seq(Message)
      /\ \A i \in 1 .. Len(inbox'[r]) :
           k + i \in 1 .. Len(inbox[r]) /\ inbox'[r][i] = inbox[r][k + i]
  <2>1. inbox[r] \in Seq(Message) /\ Len(inbox[r]) \in Nat
    BY <1>1, LenProperties
  <2>2. /\ \A v \in Routers : v # r => inbox'[v] = inbox[v]
        /\ inbox'[r] = SubSeq(inbox[r], k + 1, Len(inbox[r]))
    BY <1>1, <1>2
  <2>3. /\ inbox'[r] \in Seq(Message)
        /\ Len(inbox'[r]) = Len(inbox[r]) - k
        /\ \A i \in 1 .. Len(inbox[r]) - k : inbox'[r][i] = inbox[r][k + i]
    BY <2>1, <2>2, SuffixResult
  <2> QED
    BY <2>1, <2>2, <2>3
<1>7. \A n \in Propagate(r, m) :
        n \in LsaMessage /\ n.sender = r /\ TrueEnd(n) /\ (TrueLsa(m) => TrueLsa(n))
  <2> SUFFICES ASSUME NEW l \in neighbors[r]
               PROVE  LET n == Lsa(r, l, m.router, m.rlink, m.cost)
                      IN n \in LsaMessage /\ n.sender = r /\ TrueEnd(n) /\ (TrueLsa(m) => TrueLsa(n))
    BY DEF Propagate
  <2>1. l \in Links
    BY <1>1 DEF TypeOK
  <2> HIDE DEF m
  <2> QED
    BY <1>4, <1>5, <2>1 DEF Lsa, LsaMessage, TrueLsa, TrueEnd
<1> HIDE DEF m
<1>8. /\ seen' = [seen EXCEPT ![r] = @ \cup {Key(m)}]
      /\ unsent' = [unsent EXCEPT ![r] = Propagate(r, m)]
      /\ links' = [links EXCEPT ![r] = LearnEnds(@, r, m)]
      /\ link_costs' = [link_costs EXCEPT ![r][m.rlink] = m.cost]
  BY <1>2 DEF m
<1>9. /\ LearnEnds(links[r], r, m) \in [Links -> SUBSET Routers]
      /\ \A l \in Links :
           /\ links[r][l] \subseteq Ends[l] => LearnEnds(links[r], r, m)[l] \subseteq Ends[l]
           /\ LearnEnds(links[r], r, m)[l] = links[r][l] \/ l = m.rlink \/ r \in Ends[l]
  <2>1. links[r] \in [Links -> SUBSET Routers]
    BY <1>1 DEF TypeOK
  <2> QED
    BY <1>3, <1>5, <2>1, LearnResult
<1>10. TypeOK'
  <2>1. inbox' \in [Routers -> Seq(Message)]
    BY <1>1, <1>2, <1>6
  <2>2. Key(m) \in Routers \X Links \X Nat
    BY <1>4 DEF Key
  <2>3. seen' \in [Routers -> SUBSET (Routers \X Links \X Nat)]
    BY <1>1, <1>8, <2>2 DEF TypeOK
  <2>4. link_costs' \in [Routers -> [Links -> Nat \cup {Unknown}]]
    BY <1>1, <1>4, <1>8 DEF TypeOK
  <2>5. unsent' \in [Routers -> SUBSET LsaMessage]
    BY <1>1, <1>7, <1>8 DEF TypeOK
  <2>6. links' \in [Routers -> [Links -> SUBSET Routers]]
    BY <1>1, <1>8, <1>9 DEF TypeOK
  <2>7. phase' \in [Routers -> {"start", "wait", "forward", "ignored", "dead"}]
    BY <1>1 DEF TypeOK
  <2> QED
    BY <1>1, <2>1, <2>3, <2>4, <2>5, <2>6, <2>7 DEF TypeOK, Message
<1>11. /\ phase'[r] \in {"forward", "dead"} /\ unsent'[r] = Propagate(r, m)
       /\ links'[r] = LearnEnds(links[r], r, m)
       /\ \A v \in Routers : v # r =>
            /\ phase'[v] = phase[v] /\ unsent'[v] = unsent[v]
            /\ links'[v] = links[v] /\ link_costs'[v] = link_costs[v]
  BY <1>1, <1>8 DEF TypeOK
<1>12. StartInv'
  <2>1. replied
    BY <1>1 DEF StartInv
  <2> QED
    BY <1>1, <1>11, <2>1 DEF StartInv
<1>13. QueueInv'
  <2> SUFFICES ASSUME NEW v \in Routers, NEW i \in 1 .. Len(inbox'[v]), inbox'[v][i].type = "reply"
               PROVE  i = 1 /\ phase'[v] = "wait" /\ inbox'[v][i] = InitReply(IncidentCosts(v))
    BY DEF QueueInv, InitReply, IncidentCosts, Unknown
  <2>1. CASE v # r
    <3>1. inbox'[v] = inbox[v] /\ phase'[v] = phase[v]
      BY <1>6, <1>11, <2>1
    <3> QED
      BY <1>1, <3>1 DEF QueueInv
  <2>2. CASE v = r
    <3>1. k + i \in 1 .. Len(inbox[r]) /\ inbox[r][k + i].type = "reply"
      BY <1>6, <2>2
    <3> QED
      BY <1>1, <3>1 DEF QueueInv
  <2> QED
    BY <2>1, <2>2
<1>14. ASSUME NEW v \in Routers, NEW i \in 1 .. Len(inbox'[v]), inbox'[v][i].type = "lsa"
       PROVE  \E j \in 1 .. Len(inbox[v]) : inbox'[v][i] = inbox[v][j]
  <2>1. CASE v # r
    BY <1>6, <2>1
  <2>2. CASE v = r
    BY <1>6, <2>2
  <2> QED
    BY <2>1, <2>2
<1>15. LsaInv'
  <2>1. ASSUME NEW v \in Routers, NEW i \in 1 .. Len(inbox'[v]), inbox'[v][i].type = "lsa"
        PROVE  TrueEnd(inbox'[v][i]) /\ Ends[inbox'[v][i].slink] = {inbox'[v][i].sender, v}
    <3>1. PICK j \in 1 .. Len(inbox[v]) : inbox'[v][i] = inbox[v][j]
      BY <1>14, <2>1
    <3>2. \A o \in 1 .. Len(inbox[v]) : inbox[v][o].type = "lsa" =>
            TrueEnd(inbox[v][o]) /\ Ends[inbox[v][o].slink] = {inbox[v][o].sender, v}
      BY <1>1 DEF LsaInv
    <3> QED
      BY <2>1, <3>1, <3>2, Zenon
  <2>2. ASSUME NEW v \in Routers, NEW n \in unsent'[v]
        PROVE  n.sender = v /\ (v \in Ends[n.slink] => TrueEnd(n))
    <3>1. \A w \in Routers : \A o \in unsent[w] :
            o.sender = w /\ (w \in Ends[o.slink] => TrueEnd(o))
      BY <1>1 DEF LsaInv
    <3>2. CASE v = r
      BY <1>7, <1>11, <2>2, <3>2, Zenon
    <3>3. CASE v # r
      BY <1>11, <2>2, <3>1, <3>3, Zenon
    <3> QED
      BY <3>2, <3>3
  <2> QED
    BY <2>1, <2>2 DEF LsaInv, TrueEnd
<1>16. EndsKnown'
  BY <1>1, <1>9, <1>11 DEF EndsKnown
<1>17. CostsInv'
  <2> SUFFICES ASSUME RepliesArrive' PROVE ReplyComes' /\ LsasTrue' /\ KnownInv'
    BY DEF CostsInv
  <2>1. ReplyComes /\ LsasTrue /\ KnownInv
    BY <1>1, RepliesArrived
  <2>2. TrueLsa(m) /\ m.cost # Unknown
    BY <1>3, <1>4, <2>1 DEF LsasTrue, m, Unknown
  <2>3. ReplyComes'
    BY <1>1, <1>6, <1>11, <2>1 DEF ReplyComes
  <2>4. LsasTrue'
    <3>1. ASSUME NEW v \in Routers, NEW i \in 1 .. Len(inbox'[v]), inbox'[v][i].type = "lsa"
          PROVE  TrueLsa(inbox'[v][i])
      <4>1. PICK j \in 1 .. Len(inbox[v]) : inbox'[v][i] = inbox[v][j]
        BY <1>14, <3>1
      <4> QED
        BY <2>1, <3>1, <4>1 DEF LsasTrue
    <3>2. ASSUME NEW v \in Routers, NEW n \in unsent'[v]
          PROVE  TrueLsa(n)
      BY <1>7, <1>11, <2>1, <2>2 DEF LsasTrue
    <3> QED
      BY <3>1, <3>2 DEF LsasTrue, TrueLsa, TrueEnd
  <2>5. \A l \in Links :
          link_costs'[r][l] = IF l = m.rlink THEN m.cost ELSE link_costs[r][l]
    BY <1>1, <1>4, <1>8 DEF TypeOK
  <2>6. ASSUME NEW l \in Links
        PROVE  /\ r \in Ends[l] => link_costs'[r][l] # Unknown
               /\ links'[r][l] # {} => link_costs'[r][l] # Unknown
               /\ link_costs'[r][l] \in {Unknown, Cost[l]}
    <3>1. CASE l = m.rlink
      <4>1. m.cost = Cost[l]
        BY <2>2, <3>1 DEF TrueLsa
      <4> QED
        BY <2>2, <2>5, <3>1, <4>1
    <3>2. CASE l # m.rlink
      <4>1. /\ r \in Ends[l] => link_costs[r][l] # Unknown
            /\ links[r][l] # {} => link_costs[r][l] # Unknown
            /\ link_costs[r][l] \in {Unknown, Cost[l]}
        BY <1>1, <2>1 DEF KnownInv
      <4> QED
        BY <1>9, <1>11, <2>5, <3>2, <4>1
    <3> QED
      BY <3>1, <3>2
  <2>7. phase'[r] = "forward"
    <3>1. \A l \in Links : Cardinality(links'[r][l]) = 2 => links'[r][l] # {}
      BY FS_EmptySet
    <3>2. ~KeyError(links'[r], link_costs'[r])
      BY <2>6, <3>1 DEF KeyError
    <3> QED
      BY <1>1, <3>2 DEF TypeOK
  <2>8. KnownInv'
    <3> SUFFICES ASSUME NEW v \in Routers
                 PROVE  /\ phase'[v] # "dead"
                        /\ phase'[v] # "forward" => unsent'[v] = {}
                        /\ \A l \in Links :
                             /\ phase'[v] = "forward" /\ v \in Ends[l] => link_costs'[v][l] # Unknown
                             /\ links'[v][l] # {} => link_costs'[v][l] # Unknown
                             /\ link_costs'[v][l] \in {Unknown, Cost[l]}
      BY DEF KnownInv, Unknown
    <3>1. CASE v = r
      BY <2>6, <2>7, <3>1
    <3>2. CASE v # r
      BY <1>11, <2>1, <3>2 DEF KnownInv
    <3> QED
      BY <3>1, <3>2
  <2> QED
    BY <2>3, <2>4, <2>8
<1> QED
  BY <1>10, <1>12, <1>13, <1>15, <1>16, <1>17 DEF LinkInv

LEMMA LoseDatagramInv ==
  ASSUME LinkInv, NEW r \in Routers, LoseDatagram(r)
  PROVE  LinkInv'
<1>1. /\ TypeOK /\ StartInv /\ QueueInv /\ LsaInv /\ EndsKnown /\ CostsInv
      /\ inbox[r] # <<>>
      /\ inbox \in [Routers -> Seq(Message)]
      /\ inbox' = [inbox EXCEPT ![r] = Tail(@)]
      /\ faults' = faults \cup {Head(inbox[r]).type}
      /\ UNCHANGED <<clients, replied, phase, neighbors, link_costs, links, seen, unsent>>
  BY DEF LinkInv, LoseDatagram, TypeOK, Message
<1>2. /\ \A v \in Routers : v # r => inbox'[v] = inbox[v]
      /\ inbox'[r] \in Seq(Message)
      /\ Head(inbox[r]) = inbox[r][1] /\ Head(inbox[r]) \in Message
      /\ \A i \in 1 .. Len(inbox'[r]) :
           /\ i + 1 \in 1 .. Len(inbox[r]) /\ i + 1 # 1
           /\ inbox'[r][i] = inbox[r][i + 1]
  <2>1. inbox'[r] = Tail(inbox[r]) /\ \A v \in Routers : v # r => inbox'[v] = inbox[v]
    BY <1>1
  <2> QED
    BY <1>1, <2>1, TailResult
<1>3. replied
  BY <1>1 DEF StartInv
<1>4. TypeOK'
  <2>1. inbox' \in [Routers -> Seq(Message)]
    BY <1>1, <1>2
  <2>2. Head(inbox[r]).type \in {"lsa", "reply"}
    BY <1>2 DEF Message, LsaMessage, Reply
  <2> QED
    BY <1>1, <2>1, <2>2 DEF TypeOK, Message
<1>5. StartInv'
  BY <1>1, <1>3 DEF StartInv
<1>6. ASSUME NEW v \in Routers, NEW i \in 1 .. Len(inbox'[v])
      PROVE  \/ inbox'[v] = inbox[v]
             \/ \E j \in 1 .. Len(inbox[v]) : j # 1 /\ inbox'[v][i] = inbox[v][j]
  <2>1. CASE v # r
    BY <1>2, <2>1
  <2>2. CASE v = r
    BY <1>2, <2>2
  <2> QED
    BY <2>1, <2>2
<1>7. QueueInv'
  <2> SUFFICES ASSUME NEW v \in Routers, NEW i \in 1 .. Len(inbox'[v]), inbox'[v][i].type = "reply"
               PROVE  i = 1 /\ phase[v] = "wait" /\ inbox'[v][i] = InitReply(IncidentCosts(v))
    BY <1>1 DEF QueueInv, InitReply, IncidentCosts, Unknown
  <2>1. CASE inbox'[v] = inbox[v]
    BY <1>1, <2>1 DEF QueueInv
  <2>2. ASSUME NEW j \in 1 .. Len(inbox[v]), j # 1, inbox'[v][i] = inbox[v][j] PROVE FALSE
    BY <1>1, <2>2 DEF QueueInv
  <2> QED
    BY <1>6, <2>1, <2>2
<1>8. LsaInv' /\ EndsKnown'
  <2>1. ASSUME NEW v \in Routers, NEW i \in 1 .. Len(inbox'[v]), inbox'[v][i].type = "lsa"
        PROVE  TrueEnd(inbox'[v][i]) /\ Ends[inbox'[v][i].slink] = {inbox'[v][i].sender, v}
    <3>1. PICK j \in 1 .. Len(inbox[v]) : inbox'[v][i] = inbox[v][j]
      BY <1>6
    <3>2. inbox[v][j].type = "lsa"
      BY <2>1, <3>1
    <3>3. TrueEnd(inbox[v][j]) /\ Ends[inbox[v][j].slink] = {inbox[v][j].sender, v}
      BY <1>1, <3>2 DEF LsaInv
    <3> QED
      BY <3>1, <3>3
  <2>2. LsaInv'
    BY <1>1, <2>1 DEF LsaInv, TrueEnd
  <2> QED
    BY <1>1, <2>2 DEF EndsKnown
<1>9. CostsInv'
  <2> SUFFICES ASSUME RepliesArrive' PROVE ReplyComes' /\ LsasTrue' /\ KnownInv'
    BY DEF CostsInv
  <2>1. RepliesArrive /\ ReplyComes /\ LsasTrue /\ KnownInv
    BY <1>1, RepliesArrived
  <2>2. Head(inbox[r]).type # "reply"
    BY <1>1 DEF RepliesArrive
  <2>3. phase[r] # "wait"
    BY <1>1, <2>1, <2>2, OwnLinksRead
  <2>4. ReplyComes'
    BY <1>1, <1>2, <2>1, <2>3 DEF ReplyComes
  <2>5. LsasTrue'
    <3>1. ASSUME NEW v \in Routers, NEW i \in 1 .. Len(inbox'[v]), inbox'[v][i].type = "lsa"
          PROVE  TrueLsa(inbox'[v][i])
      <4>1. PICK j \in 1 .. Len(inbox[v]) : inbox'[v][i] = inbox[v][j]
        BY <1>6
      <4> QED
        BY <2>1, <3>1, <4>1 DEF LsasTrue
    <3> QED
      BY <1>1, <2>1, <3>1 DEF LsasTrue, TrueLsa, TrueEnd
  <2>6. KnownInv'
    BY <1>1, <2>1 DEF KnownInv, Unknown
  <2> QED
    BY <2>4, <2>5, <2>6
<1> QED
  BY <1>4, <1>5, <1>7, <1>8, <1>9 DEF LinkInv

LEMMA RestartInv ==
  ASSUME LinkInv, NEW r \in Routers, Restart(r)
  PROVE  LinkInv'
<1> DEFINE p == IF r \in clients THEN "ignored" ELSE "start"
<1>1. /\ TypeOK /\ StartInv /\ QueueInv /\ LsaInv /\ EndsKnown /\ CostsInv
      /\ phase' = [phase EXCEPT ![r] = p]
      /\ inbox' = [inbox EXCEPT ![r] = <<>>]
      /\ neighbors' = [neighbors EXCEPT ![r] = {}]
      /\ link_costs' = [link_costs EXCEPT ![r] = [l \in Links |-> Unknown]]
      /\ links' = [links EXCEPT ![r] = [l \in Links |-> {}]]
      /\ seen' = [seen EXCEPT ![r] = {}]
      /\ unsent' = [unsent EXCEPT ![r] = {}]
      /\ faults \subseteq faults'
      /\ faults' \subseteq {"init", "reply", "lsa", "restart"}
      /\ UNCHANGED <<clients, replied>>
  BY DEF LinkInv, Restart, TypeOK
<1>2. /\ p \in {"start", "ignored"}
      /\ p = "start" => r \notin clients
      /\ <<>> \in Seq(LsaMessage \cup Reply)
      /\ Len(<<>>) = 0
  BY EmptySeq
<1> HIDE DEF p
<1>3. /\ phase'[r] = p /\ inbox'[r] = <<>> /\ unsent'[r] = {}
      /\ \A v \in Routers : v # r =>
           /\ phase'[v] = phase[v] /\ inbox'[v] = inbox[v] /\ unsent'[v] = unsent[v]
           /\ link_costs'[v] = link_costs[v] /\ links'[v] = links[v]
  BY <1>1 DEF TypeOK
<1>4. \A l \in Links : link_costs'[r][l] = Unknown /\ links'[r][l] = {}
  BY <1>1 DEF TypeOK
<1>5. TypeOK'
  BY <1>1, <1>2 DEF TypeOK
<1>6. StartInv'
  BY <1>1, <1>2, <1>3 DEF StartInv
<1>7. ASSUME NEW v \in Routers, NEW i \in 1 .. Len(inbox'[v])
      PROVE  v # r /\ inbox'[v] = inbox[v] /\ phase'[v] = phase[v]
  BY <1>2, <1>3
<1>8. QueueInv'
  <2> SUFFICES ASSUME NEW v \in Routers, NEW i \in 1 .. Len(inbox'[v]), inbox'[v][i].type = "reply"
               PROVE  i = 1 /\ phase'[v] = "wait" /\ inbox'[v][i] = InitReply(IncidentCosts(v))
    BY DEF QueueInv, InitReply, IncidentCosts, Unknown
  <2>1. inbox'[v] = inbox[v] /\ phase'[v] = phase[v]
    BY <1>7
  <2> QED
    BY <1>1, <2>1 DEF QueueInv
<1>9. LsaInv'
  <2>1. ASSUME NEW v \in Routers, NEW i \in 1 .. Len(inbox'[v]), inbox'[v][i].type = "lsa"
        PROVE  TrueEnd(inbox'[v][i]) /\ Ends[inbox'[v][i].slink] = {inbox'[v][i].sender, v}
    <3>1. inbox'[v] = inbox[v]
      BY <1>7
    <3>2. i \in 1 .. Len(inbox[v]) /\ inbox[v][i].type = "lsa"
      BY <2>1, <3>1
    <3>3. TrueEnd(inbox[v][i]) /\ Ends[inbox[v][i].slink] = {inbox[v][i].sender, v}
      BY <1>1, <3>2 DEF LsaInv
    <3> QED
      BY <3>1, <3>3
  <2>2. \A v \in Routers : unsent'[v] \subseteq unsent[v]
    BY <1>3
  <2> QED
    BY <1>1, <2>1, <2>2 DEF LsaInv, TrueEnd
<1>10. EndsKnown'
  BY <1>1, <1>3, <1>4 DEF EndsKnown
<1>11. CostsInv'
  <2> SUFFICES ASSUME RepliesArrive' PROVE ReplyComes' /\ LsasTrue' /\ KnownInv'
    BY DEF CostsInv
  <2>1. ReplyComes /\ LsasTrue /\ KnownInv
    BY <1>1, RepliesArrived
  <2>2. ReplyComes'
    <3> SUFFICES ASSUME NEW v \in Routers, replied, phase'[v] = "wait"
                 PROVE  inbox'[v] # <<>> /\ inbox'[v][1].type = "reply"
      BY <1>1 DEF ReplyComes
    <3>1. v # r
      BY <1>2, <1>3
    <3> QED
      BY <1>3, <2>1, <3>1 DEF ReplyComes
  <2>3. LsasTrue'
    <3>1. ASSUME NEW v \in Routers, NEW i \in 1 .. Len(inbox'[v]), inbox'[v][i].type = "lsa"
          PROVE  TrueLsa(inbox'[v][i])
      <4>1. inbox'[v] = inbox[v]
        BY <1>7
      <4> QED
        BY <2>1, <3>1, <4>1 DEF LsasTrue
    <3>2. \A v \in Routers : unsent'[v] \subseteq unsent[v]
      BY <1>3
    <3> QED
      BY <2>1, <3>1, <3>2 DEF LsasTrue, TrueLsa, TrueEnd
  <2>4. KnownInv'
    <3> SUFFICES ASSUME NEW v \in Routers
                 PROVE  /\ phase'[v] # "dead"
                        /\ phase'[v] # "forward" => unsent'[v] = {}
                        /\ \A l \in Links :
                             /\ phase'[v] = "forward" /\ v \in Ends[l] => link_costs'[v][l] # Unknown
                             /\ links'[v][l] # {} => link_costs'[v][l] # Unknown
                             /\ link_costs'[v][l] \in {Unknown, Cost[l]}
      BY DEF KnownInv, Unknown
    <3>1. CASE v = r
      BY <1>2, <1>3, <1>4, <3>1
    <3>2. CASE v # r
      BY <1>3, <2>1, <3>2 DEF KnownInv
    <3> QED
      BY <3>1, <3>2
  <2> QED
    BY <2>2, <2>3, <2>4
<1> QED
  BY <1>5, <1>6, <1>8, <1>9, <1>10, <1>11 DEF LinkInv

LEMMA StepInv ==
  ASSUME LinkInv, [Next]_vars
  PROVE  LinkInv'
<1>1. CASE NfeReply
  BY <1>1, NfeReplyInv
<1>2. ASSUME NEW r \in Routers, SendInit(r) \/ LoseInit(r) PROVE LinkInv'
  BY <1>2, StartsInv
<1>3. ASSUME NEW r \in Routers, ReceiveInitReply(r) PROVE LinkInv'
  BY <1>3, ReceiveInitReplyInv
<1>4. ASSUME NEW r \in Routers, DieInInit(r) PROVE LinkInv'
  BY <1>4, DieInInitInv
<1>5. ASSUME NEW r \in Routers, SendNext(r) PROVE LinkInv'
  BY <1>5, SendNextInv
<1>6. ASSUME NEW r \in Routers, ReceiveNewLsa(r) PROVE LinkInv'
  BY <1>6, ReceiveNewLsaInv
<1>7. ASSUME NEW r \in Routers, LoseDatagram(r) PROVE LinkInv'
  BY <1>7, LoseDatagramInv
<1>8. ASSUME NEW r \in Routers, Restart(r) PROVE LinkInv'
  BY <1>8, RestartInv
<1>9. CASE UNCHANGED vars
  <2>1. TypeOK' /\ StartInv' /\ QueueInv' /\ EndsKnown'
    BY <1>9 DEF vars, LinkInv, TypeOK, StartInv, QueueInv, EndsKnown
  <2>2. LsaInv'
    BY <1>9 DEF vars, LinkInv, LsaInv, TrueEnd
  <2>3. CostsInv'
    BY <1>9 DEF vars, LinkInv, CostsInv, RepliesArrive, ReplyComes, LsasTrue, TrueLsa, TrueEnd, KnownInv
  <2> QED
    BY <2>1, <2>2, <2>3 DEF LinkInv
<1> QED
  BY <1>1, <1>2, <1>3, <1>4, <1>5, <1>6, <1>7, <1>8, <1>9 DEF Next, Router, Fault

-----------------------------------------------------------------------------
(* Flooding: FloodInv, again with one lemma per action.                    *)

\* What FloodInv says of one link and one key.
Delivered(a, b, l, key) == Owes(a, l, key) \/ Comes(b, key) \/ key \in seen[b]

\* The keys router a tells over its link l.
Told(a, l) == seen[a] \cup (IF phase[a] = "forward" THEN {Half(a, l)} ELSE {})

LEMMA FloodedInvForm ==
  /\ FloodedInv <=> (Undisturbed =>
       \A a, b \in Routers, l \in Links : Ends[l] = {a, b} /\ a # b =>
         \A key \in Told(a, l) : Delivered(a, b, l, key))
  /\ FloodedInv' <=> (Undisturbed' =>
       \A a, b \in Routers, l \in Links : Ends[l] = {a, b} /\ a # b =>
         \A key \in Told(a, l)' : Delivered(a, b, l, key)')
BY DEF FloodedInv, Delivered, Told, Undisturbed, Half, Owes, Comes

\* Nothing is told before the NFE has replied.
LEMMA FloodNotYet ==
  ASSUME OwnInv', \A r \in Routers : phase'[r] \notin {"forward", "dead"}
  PROVE  FloodedInv'
BY DEF OwnInv, FloodedInv

LEMMA FloodInitInv == Init => FloodInv
<1> SUFFICES ASSUME Init PROVE FloodInv
  OBVIOUS
<1>1. OwnInv /\ FloodedInv
  BY DEF Init, OwnInv, FloodedInv
<1> QED
  BY <1>1, InitInv DEF FloodInv

\* While nothing is lost, init() reads the links of its router.
LEMMA UndisturbedFacts ==
  ASSUME FloodInv, Undisturbed
  PROVE  RepliesArrive /\ ReplyComes /\ LsasTrue /\ KnownInv
BY DEF FloodInv, LinkInv, CostsInv, Undisturbed, RepliesArrive

LEMMA FloodNfeReply ==
  ASSUME FloodInv, NfeReply
  PROVE  OwnInv' /\ FloodedInv'
<1>1. OwnInv'
  BY DEF FloodInv, OwnInv, RepliesArrive, NfeReply
<1>2. \A r \in Routers : phase'[r] \notin {"forward", "dead"}
  BY DEF FloodInv, LinkInv, StartInv, NfeReply
<1> QED
  BY <1>1, <1>2, FloodNotYet

\* A router that starts, and one whose init message is lost, forwards nothing yet.
LEMMA FloodStart ==
  ASSUME FloodInv, NEW r \in Routers, SendInit(r) \/ LoseInit(r)
  PROVE  OwnInv' /\ FloodedInv'
<1>1. /\ ~replied /\ phase' = [phase EXCEPT ![r] = "wait"] /\ faults \subseteq faults'
      /\ phase \in [Routers -> {"start", "wait", "forward", "ignored", "dead"}]
      /\ \A v \in Routers : phase[v] \notin {"forward", "dead"}
      /\ UNCHANGED <<neighbors, links, seen, unsent>>
  BY DEF FloodInv, LinkInv, TypeOK, StartInv, SendInit, LoseInit
<1>2. OwnInv'
  BY <1>1 DEF FloodInv, OwnInv, RepliesArrive
<1> QED
  BY <1>1, <1>2, FloodNotYet

LEMMA FloodReceiveInitReply ==
  ASSUME FloodInv, NEW r \in Routers, ReceiveInitReply(r)
  PROVE  OwnInv' /\ FloodedInv'
<1> DEFINE costs == LinksRead(Head(inbox[r]))
<1>1. /\ TypeOK /\ OwnInv /\ FloodedInv
      /\ phase[r] = "wait" /\ inbox[r] # <<>>
      /\ inbox \in [Routers -> Seq(Message)]
  BY DEF FloodInv, LinkInv, ReceiveInitReply, TypeOK, Message
<1>2. /\ Head(inbox[r]) = inbox[r][1]
      /\ Len(inbox[r]) \in Nat \ {0}
      /\ Len(Tail(inbox[r])) = Len(inbox[r]) - 1
      /\ \A i \in 1 .. Len(inbox[r]) - 1 : Tail(inbox[r])[i] = inbox[r][i + 1]
  BY <1>1, TailResult
<1>3. /\ neighbors' = [neighbors EXCEPT ![r] = Listed(costs)]
      /\ unsent' = [unsent EXCEPT ![r] = Broadcast(r, costs)]
      /\ inbox' = [inbox EXCEPT ![r] = Tail(@)]
      /\ phase' = [phase EXCEPT ![r] = "forward"]
      /\ UNCHANGED <<links, seen, faults>>
  BY DEF ReceiveInitReply
<1>4. RepliesArrive =>
        /\ Head(inbox[r]).type = "reply"
        /\ Listed(costs) = {l \in Links : r \in Ends[l]}
        /\ \A l \in Listed(costs) : costs[l] = Cost[l]
  BY <1>1, OwnLinksRead, IncidentResult DEF FloodInv
<1>5. Undisturbed' => Undisturbed /\ RepliesArrive
  BY <1>3 DEF Undisturbed, RepliesArrive
<1> HIDE DEF costs
<1>6. /\ neighbors'[r] = Listed(costs) /\ unsent'[r] = Broadcast(r, costs)
      /\ inbox'[r] = Tail(inbox[r]) /\ phase'[r] = "forward" /\ seen'[r] = {}
      /\ \A v \in Routers : v # r =>
           /\ neighbors'[v] = neighbors[v] /\ unsent'[v] = unsent[v]
           /\ inbox'[v] = inbox[v] /\ phase'[v] = phase[v]
  <2>1. inbox'[r] = Tail(inbox[r]) /\ \A v \in Routers : v # r => inbox'[v] = inbox[v]
    BY <1>1, <1>3
  <2>2. seen'[r] = {}
    BY <1>1, <1>3 DEF OwnInv
  <2>3. /\ neighbors'[r] = Listed(costs) /\ unsent'[r] = Broadcast(r, costs) /\ phase'[r] = "forward"
        /\ \A v \in Routers : v # r => /\ neighbors'[v] = neighbors[v] /\ unsent'[v] = unsent[v]
                                       /\ phase'[v] = phase[v]
    BY <1>1, <1>3 DEF TypeOK
  <2> QED
    BY <2>1, <2>2, <2>3
<1>7. OwnInv'
  BY <1>1, <1>3, <1>4, <1>6 DEF OwnInv, RepliesArrive
<1>8. ASSUME NEW v \in Routers, NEW key, Comes(v, key), RepliesArrive
      PROVE  Comes(v, key)'
  <2>1. CASE v # r
    BY <1>6, <1>8, <2>1 DEF Comes, Key
  <2>2. CASE v = r
    <3>1. PICK i \in 1 .. Len(inbox[r]) : inbox[r][i].type = "lsa" /\ Key(inbox[r][i]) = key
      BY <1>8, <2>2 DEF Comes
    <3>2. i # 1
      BY <1>2, <1>4, <1>8, <3>1
    <3>3. i - 1 \in 1 .. Len(inbox'[r]) /\ inbox'[r][i - 1] = inbox[r][i]
      BY <1>2, <1>6, <3>2
    <3> QED
      BY <2>2, <3>1, <3>3 DEF Comes, Key
  <2> QED
    BY <2>1, <2>2
<1>9. ASSUME Undisturbed', NEW a \in Routers, NEW b \in Routers, NEW l \in Links,
             Ends[l] = {a, b}, a # b, NEW key \in Told(a, l)'
      PROVE  Delivered(a, b, l, key)'
  <2>1. CASE a = r
    <3>1. key = Half(r, l) /\ l \in Listed(costs) /\ costs[l] = Cost[l]
      BY <1>3, <1>4, <1>5, <1>6, <1>9, <2>1 DEF Told, Half
    <3>2. Lsa(r, l, r, l, costs[l]) \in unsent'[r]
      BY <1>6, <3>1 DEF Broadcast
    <3>3. Owes(r, l, key)'
      BY <3>1, <3>2 DEF Owes, Lsa, Key, Half
    <3> QED
      BY <2>1, <3>3 DEF Delivered
  <2>2. CASE a # r
    <3>1. key \in Told(a, l) /\ Undisturbed /\ RepliesArrive
      BY <1>3, <1>5, <1>6, <1>9, <2>2 DEF Told, Half
    <3>2. Delivered(a, b, l, key)
      BY <1>1, <1>9, <3>1, FloodedInvForm
    <3>3. unsent'[a] = unsent[a] /\ seen' = seen
      BY <1>3, <1>6, <2>2
    <3> QED
      BY <1>8, <3>1, <3>2, <3>3 DEF Delivered, Owes, Key
  <2> QED
    BY <2>1, <2>2
<1> QED
  BY <1>7, <1>9, FloodedInvForm

LEMMA FloodDieInInit ==
  ASSUME FloodInv, NEW r \in Routers, DieInInit(r)
  PROVE  OwnInv' /\ FloodedInv'
<1>1. /\ TypeOK /\ phase[r] = "wait" /\ inbox[r] # <<>> /\ Head(inbox[r]).type = "lsa"
      /\ phase' = [phase EXCEPT ![r] = "dead"]
      /\ UNCHANGED <<neighbors, links, seen, faults>>
  BY DEF FloodInv, LinkInv, DieInInit, TooShort
<1>2. OwnInv'
  <2>1. phase'[r] = "dead" /\ \A v \in Routers : v # r => phase'[v] = phase[v]
    BY <1>1 DEF TypeOK
  <2> QED
    BY <1>1, <2>1 DEF FloodInv, OwnInv, RepliesArrive
<1>3. ~RepliesArrive
  BY <1>1, OwnLinksRead DEF FloodInv
<1>4. ~Undisturbed'
  BY <1>1, <1>3 DEF Undisturbed, RepliesArrive
<1> QED
  BY <1>2, <1>4 DEF FloodedInv

LEMMA FloodSendNext ==
  ASSUME FloodInv, NEW r \in Routers, SendNext(r)
  PROVE  OwnInv' /\ FloodedInv'
<1>1. PICK m \in unsent[r] : inbox' = Forward(m) /\ unsent' = [unsent EXCEPT ![r] = @ \ {m}]
  BY DEF SendNext
<1>2. /\ UNCHANGED <<phase, neighbors, links, seen, faults>>
      /\ TypeOK /\ LsaInv /\ OwnInv /\ FloodedInv
      /\ inbox \in [Routers -> Seq(Message)]
  BY DEF SendNext, FloodInv, LinkInv, TypeOK, Message
<1>3. m \in Message /\ m.type = "lsa" /\ m.sender = r
  BY <1>2 DEF TypeOK, LsaInv, LsaMessage, Message
<1>4. /\ unsent'[r] = unsent[r] \ {m}
      /\ \A v \in Routers : v # r => unsent'[v] = unsent[v]
  BY <1>1, <1>2 DEF TypeOK
<1>5. OwnInv'
  BY <1>2, <1>4 DEF OwnInv, RepliesArrive
<1>6. ASSUME NEW v \in Routers
      PROVE  /\ \A key : Comes(v, key) => Comes(v, key)'
             /\ inbox'[v] = Append(inbox[v], m) => Comes(v, Key(m))'
  <2>1. inbox[v] \in Seq(Message) /\ Len(inbox[v]) \in Nat
    BY <1>2, LenProperties
  <2>2. CASE inbox'[v] = Append(inbox[v], m)
    <3>1. /\ Len(inbox'[v]) = Len(inbox[v]) + 1
          /\ \A i \in 1 .. Len(inbox[v]) : inbox'[v][i] = inbox[v][i]
          /\ inbox'[v][Len(inbox[v]) + 1] = m
      BY <1>3, <2>1, <2>2, AppendResult
    <3>2. Len(inbox[v]) + 1 \in 1 .. Len(inbox'[v]) /\ 1 .. Len(inbox[v]) \subseteq 1 .. Len(inbox'[v])
      BY <2>1, <3>1
    <3> QED
      BY <1>3, <3>1, <3>2 DEF Comes, Key
  <2>3. CASE inbox'[v] = inbox[v]
    <3>1. inbox'[v] # Append(inbox[v], m)
      BY <1>3, <2>1, <2>3, AppendResult
    <3> QED
      BY <2>3, <3>1 DEF Comes, Key
  <2>4. inbox'[v] = inbox[v] \/ inbox'[v] = Append(inbox[v], m)
    BY <1>1 DEF Forward
  <2> QED
    BY <2>2, <2>3, <2>4
<1>7. ASSUME Undisturbed', NEW a \in Routers, NEW b \in Routers, NEW l \in Links,
             Ends[l] = {a, b}, a # b, NEW key \in Told(a, l)'
      PROVE  Delivered(a, b, l, key)'
  <2>1. key \in Told(a, l) /\ Undisturbed
    BY <1>2, <1>7 DEF Told, Half, Undisturbed
  <2>2. Delivered(a, b, l, key)
    BY <1>2, <1>7, <2>1, FloodedInvForm
  <2>3. CASE Owes(a, l, key)
    <3>1. PICK n \in unsent[a] : n.slink = l /\ Key(n) = key
      BY <2>3 DEF Owes
    <3>2. CASE n \in unsent'[a]
      BY <3>1, <3>2 DEF Delivered, Owes, Key
    <3>3. CASE n \notin unsent'[a]
      <4>1. a = r /\ n = m
        BY <1>4, <3>1, <3>3
      <4>2. Reachable(b)
        BY <1>2, <2>1, UndisturbedFacts DEF OwnInv, KnownInv, Undisturbed, Reachable
      <4>3. Ends[m.slink] = {m.sender, b} /\ m.sender # b
        BY <1>3, <1>7, <3>1, <4>1
      <4>4. CASE DropsAtOnce(b, m)
        BY <1>2, <3>1, <4>1, <4>4 DEF DropsAtOnce, Delivered
      <4>5. CASE ~DropsAtOnce(b, m)
        <5>1. inbox'[b] = Append(inbox[b], m)
          BY <1>1, <4>2, <4>3, <4>5 DEF Forward
        <5>2. Comes(b, Key(m))' /\ Key(m) = key
          BY <1>6, <3>1, <4>1, <5>1
        <5>3. Comes(b, key)'
          BY <5>2 DEF Comes
        <5> QED
          BY <5>3 DEF Delivered
      <4> QED
        BY <4>4, <4>5
    <3> QED
      BY <3>2, <3>3
  <2>4. CASE Comes(b, key) \/ key \in seen[b]
    BY <1>2, <1>6, <2>4 DEF Delivered
  <2> QED
    BY <2>2, <2>3, <2>4 DEF Delivered
<1> QED
  BY <1>5, <1>7, FloodedInvForm

LEMMA FloodReceiveNewLsa ==
  ASSUME FloodInv, NEW r \in Routers, ReceiveNewLsa(r)
  PROVE  OwnInv' /\ FloodedInv'
<1>1. /\ TypeOK /\ QueueInv /\ LsaInv /\ OwnInv /\ FloodedInv
      /\ phase[r] = "forward" /\ unsent[r] = {}
      /\ inbox \in [Routers -> Seq(Message)]
      /\ phase' = [phase EXCEPT ![r] = IF KeyError(links'[r], link_costs'[r]) THEN "dead" ELSE @]
      /\ UNCHANGED <<neighbors, faults>>
  BY DEF FloodInv, LinkInv, ReceiveNewLsa, Waiting, TypeOK, Message
<1>2. PICK k \in 1 .. Len(inbox[r]) :
        /\ \A j \in 1 .. k - 1 : ~IsNew(r, j)
        /\ inbox' = [inbox EXCEPT ![r] = SubSeq(@, k + 1, Len(@))]
        /\ seen' = [seen EXCEPT ![r] = @ \cup {Key(inbox[r][k])}]
        /\ unsent' = [unsent EXCEPT ![r] = Propagate(r, inbox[r][k])]
        /\ links' = [links EXCEPT ![r] = LearnEnds(@, r, inbox[r][k])]
  BY DEF ReceiveNewLsa
<1> DEFINE m == inbox[r][k]
<1>3. m.router \in Routers /\ m.rlink \in Links
  <2>1. m \in Message
    BY <1>1, ElementOfSeq
  <2>2. m.type # "reply"
    BY <1>1 DEF QueueInv
  <2> QED
    BY <2>1, <2>2 DEF Message, Reply, LsaMessage
<1>4. /\ seen'[r] = seen[r] \cup {Key(m)} /\ unsent'[r] = Propagate(r, m)
      /\ links'[r] = LearnEnds(links[r], r, m)
      /\ \A v \in Routers : v # r => /\ seen'[v] = seen[v] /\ unsent'[v] = unsent[v]
                                     /\ links'[v] = links[v] /\ inbox'[v] = inbox[v]
                                     /\ phase'[v] = phase[v]
      /\ phase'[r] \in {"forward", "dead"}
  BY <1>1, <1>2 DEF TypeOK
<1>5. \A i \in k + 1 .. Len(inbox[r]) : i - k \in 1 .. Len(inbox'[r]) /\ inbox'[r][i - k] = inbox[r][i]
  <2>1. inbox[r] \in Seq(Message) /\ Len(inbox[r]) \in Nat
    BY <1>1, LenProperties
  <2>2. inbox'[r] = SubSeq(inbox[r], k + 1, Len(inbox[r]))
    BY <1>1, <1>2
  <2>3. /\ Len(inbox'[r]) = Len(inbox[r]) - k
        /\ \A i \in 1 .. Len(inbox[r]) - k : inbox'[r][i] = inbox[r][k + i]
    BY <2>1, <2>2, SuffixResult
  <2> QED
    BY <2>1, <2>3
<1> HIDE DEF m
<1>6. OwnInv'
  <2>1. ASSUME NEW key \in seen'[r] PROVE key[1] \in links'[r][key[2]]
    <3>1. \A l \in Links : links[r][l] \subseteq links'[r][l]
      BY <1>1, <1>4 DEF LearnEnds, TypeOK
    <3>2. CASE key \in seen[r]
      <4>1. key[2] \in Links /\ key[1] \in links[r][key[2]]
        BY <1>1, <3>2 DEF OwnInv, TypeOK
      <4> QED
        BY <3>1, <4>1
    <3>3. CASE key = Key(m)
      <4>1. key[1] = m.router /\ key[2] = m.rlink
        BY <3>3 DEF Key
      <4>2. links'[r][m.rlink] = links[r][m.rlink] \cup {v \in Routers :
                                    \/ m.rlink = m.rlink /\ v = m.router
                                    \/ m.rlink = m.slink /\ v \in {m.sender, r}}
        BY <1>3, <1>4 DEF LearnEnds
      <4>3. m.router \in links'[r][m.rlink]
        BY <1>3, <4>2
      <4> QED
        BY <4>1, <4>3
    <3> QED
      BY <1>4, <3>2, <3>3
  <2>2. ASSUME NEW v \in Routers, NEW key \in seen'[v] PROVE key[1] \in links'[v][key[2]]
    <3>1. CASE v # r
      BY <1>1, <1>4, <2>2, <3>1, Zenon DEF OwnInv
    <3> QED
      BY <2>1, <2>2, <3>1, Zenon
  <2>3. ASSUME NEW v \in Routers
        PROVE  /\ RepliesArrive' /\ phase'[v] = "forward" =>
                    neighbors'[v] = {l \in Links : v \in Ends[l]}
               /\ phase'[v] \notin {"forward", "dead"} => seen'[v] = {}
               /\ phase'[v] = "ignored" => "restart" \in faults'
    <3>1. /\ RepliesArrive /\ phase[v] = "forward" =>
                neighbors[v] = {l \in Links : v \in Ends[l]}
          /\ phase[v] \notin {"forward", "dead"} => seen[v] = {}
          /\ phase[v] = "ignored" => "restart" \in faults
      BY <1>1 DEF OwnInv
    <3>2. RepliesArrive' <=> RepliesArrive
      BY <1>1 DEF RepliesArrive
    <3>3. CASE v = r
      BY <1>1, <1>4, <3>1, <3>2, <3>3
    <3>4. CASE v # r
      BY <1>1, <1>4, <3>1, <3>2, <3>4
    <3> QED
      BY <3>3, <3>4
  <2> QED
    BY <2>2, <2>3, Zenon DEF OwnInv
<1>7. ASSUME NEW v \in Routers, NEW key, Comes(v, key) \/ key \in seen[v]
      PROVE  Comes(v, key)' \/ key \in seen'[v]
  <2>1. CASE v # r
    BY <1>4, <1>7, <2>1 DEF Comes, Key
  <2>2. CASE v = r /\ key \in seen[v]
    BY <1>4, <2>2
  <2>3. CASE v = r /\ Comes(v, key)
    <3>1. PICK i \in 1 .. Len(inbox[r]) : inbox[r][i].type = "lsa" /\ Key(inbox[r][i]) = key
      BY <2>3 DEF Comes
    <3>2. CASE i < k
      <4>1. ~IsNew(r, i)
        BY <1>2, <3>2
      <4> QED
        BY <1>4, <2>3, <3>1, <4>1 DEF IsNew
    <3>3. CASE i = k
      BY <1>4, <2>3, <3>1, <3>3 DEF m
    <3>4. CASE i > k
      <4>1. i \in k + 1 .. Len(inbox[r])
        BY <3>4
      <4>2. i - k \in 1 .. Len(inbox'[r]) /\ inbox'[r][i - k] = inbox[r][i]
        BY <1>5, <4>1
      <4>3. inbox'[r][i - k].type = "lsa" /\ Key(inbox'[r][i - k]) = key
        BY <3>1, <4>2
      <4>4. \E j \in 1 .. Len(inbox'[r]) : inbox'[r][j].type = "lsa" /\ Key(inbox'[r][j]) = key
        BY <4>2, <4>3
      <4> QED
        BY <2>3, <4>4 DEF Comes, Key
    <3> QED
      BY <3>2, <3>3, <3>4
  <2> QED
    BY <1>7, <2>1, <2>2, <2>3
<1>8. ASSUME Undisturbed', NEW a \in Routers, NEW b \in Routers, NEW l \in Links,
             Ends[l] = {a, b}, a # b, NEW key \in Told(a, l)'
      PROVE  Delivered(a, b, l, key)'
  <2>1. Undisturbed
    BY <1>1, <1>8 DEF Undisturbed
  <2>2. CASE a = r /\ key = Key(m)
    <3>1. l \in neighbors[r]
      <4>1. RepliesArrive
        BY <2>1 DEF RepliesArrive, Undisturbed
      <4>2. neighbors[r] = {i \in Links : r \in Ends[i]}
        BY <1>1, <4>1 DEF OwnInv
      <4>3. r \in Ends[l]
        BY <1>8, <2>2
      <4> QED
        BY <4>2, <4>3
    <3>2. Lsa(r, l, m.router, m.rlink, m.cost) \in unsent'[r]
      BY <1>4, <3>1 DEF Propagate
    <3>3. Owes(r, l, key)'
      BY <2>2, <3>2 DEF Owes, Lsa, Key
    <3> QED
      BY <2>2, <3>3 DEF Delivered
  <2>3. CASE ~(a = r /\ key = Key(m))
    <3>1. key \in Told(a, l)
      BY <1>1, <1>4, <1>8, <2>3 DEF Told, Half
    <3>2. Delivered(a, b, l, key)
      BY <1>1, <1>8, <2>1, <3>1, FloodedInvForm
    <3>3. Owes(a, l, key) => Owes(a, l, key)'
      <4>1. CASE a = r
        BY <1>1, <4>1 DEF Owes
      <4>2. CASE a # r
        BY <1>4, <4>2 DEF Owes, Key
      <4> QED
        BY <4>1, <4>2
    <3> QED
      BY <1>7, <3>2, <3>3 DEF Delivered
  <2> QED
    BY <2>2, <2>3
<1> QED
  BY <1>6, <1>8, FloodedInvForm

LEMMA FloodLoseDatagram ==
  ASSUME FloodInv, NEW r \in Routers, LoseDatagram(r)
  PROVE  OwnInv' /\ FloodedInv'
<1>1. OwnInv'
  BY DEF FloodInv, OwnInv, RepliesArrive, LoseDatagram
<1>2. ~Undisturbed'
  <2>1. inbox[r] \in Seq(Message) /\ inbox[r] # <<>>
    BY DEF FloodInv, LinkInv, TypeOK, Message, LoseDatagram
  <2>2. Head(inbox[r]).type \in {"lsa", "reply"}
    BY <2>1, TailResult DEF Message, LsaMessage, Reply
  <2> QED
    BY <2>2 DEF LoseDatagram, Undisturbed
<1> QED
  BY <1>1, <1>2 DEF FloodedInv

LEMMA FloodRestart ==
  ASSUME FloodInv, NEW r \in Routers, Restart(r)
  PROVE  OwnInv' /\ FloodedInv'
<1>1. /\ TypeOK /\ StartInv /\ OwnInv /\ FloodedInv
      /\ neighbors' = [neighbors EXCEPT ![r] = {}]
      /\ links' = [links EXCEPT ![r] = [l \in Links |-> {}]]
      /\ seen' = [seen EXCEPT ![r] = {}]
      /\ unsent' = [unsent EXCEPT ![r] = {}]
      /\ \/ /\ r \in clients /\ phase' = [phase EXCEPT ![r] = "ignored"]
            /\ faults' = faults \cup {"restart"}
         \/ /\ r \notin clients /\ phase' = [phase EXCEPT ![r] = "start"]
            /\ faults' = faults
  BY DEF FloodInv, LinkInv, Restart
<1>2. /\ seen'[r] = {} /\ unsent'[r] = {} /\ phase'[r] \in {"ignored", "start"}
      /\ phase'[r] = "ignored" => "restart" \in faults'
      /\ faults \subseteq faults'
      /\ \A v \in Routers : v # r =>
           /\ phase'[v] = phase[v] /\ neighbors'[v] = neighbors[v] /\ links'[v] = links[v]
           /\ seen'[v] = seen[v] /\ unsent'[v] = unsent[v]
  BY <1>1 DEF TypeOK
<1>3. OwnInv'
  BY <1>1, <1>2 DEF OwnInv, RepliesArrive
<1>4. CASE r \in clients
  <2>1. ~Undisturbed'
    BY <1>1, <1>4 DEF Undisturbed
  <2> QED
    BY <1>3, <2>1 DEF FloodedInv
<1>5. CASE r \notin clients
  <2>1. ~replied
    BY <1>1, <1>5 DEF StartInv
  <2>2. \A v \in Routers : phase'[v] \notin {"forward", "dead"}
    BY <1>1, <1>2, <2>1 DEF StartInv
  <2> QED
    BY <1>3, <2>2, FloodNotYet
<1> QED
  BY <1>4, <1>5

LEMMA FloodStepInv ==
  ASSUME FloodInv, [Next]_vars
  PROVE  FloodInv'
<1>1. LinkInv'
  BY StepInv DEF FloodInv
<1>2. CASE UNCHANGED vars
  BY <1>1, <1>2
  DEF vars, FloodInv, OwnInv, RepliesArrive, FloodedInv, Undisturbed, Half, Owes, Comes, Key
<1>3. CASE Next
  BY <1>1, <1>3, FloodNfeReply, FloodStart, FloodReceiveInitReply, FloodDieInInit, FloodSendNext,
     FloodReceiveNewLsa, FloodLoseDatagram, FloodRestart
  DEF Next, Router, Fault, FloodInv
<1> QED
  BY <1>2, <1>3

\* When nothing new is on its way, what a router has to tell it has told.
LEMMA RestCompletes ==
  ASSUME FloodInv, AtRest, Undisturbed, NEW r \in Routers
  PROVE  links[r] = Ends
<1>1. \A v \in Routers : /\ phase[v] = "forward" /\ unsent[v] = {}
                         /\ \A i \in 1 .. Len(inbox[v]) : Key(inbox[v][i]) \in seen[v]
  BY UndisturbedFacts
  DEF FloodInv, OwnInv, KnownInv, Undisturbed, AtRest, Reachable, Waiting, IsNew
<1>2. ASSUME NEW a \in Routers, NEW b \in Routers, NEW l \in Links, Ends[l] = {a, b}, a # b,
             NEW key \in Told(a, l)
      PROVE  key \in seen[b]
  <2>1. Delivered(a, b, l, key)
    BY <1>2, FloodedInvForm DEF FloodInv
  <2> QED
    BY <1>1, <2>1 DEF Delivered, Owes, Comes
<1>3. ASSUME NEW l \in Links, NEW v \in Ends[l]
      PROVE  v \in links[r][l]
  <2> DEFINE key == Half(v, l)
             part == {x \in Routers : key \in seen[x]}
  <2>1. PICK w \in Routers : v \in Routers /\ v # w /\ Ends[l] = {v, w}
    BY TopologyFacts
  <2>2. key \in Told(v, l)
    BY <1>1, <2>1 DEF Told
  <2>3. w \in part
    BY <1>2, <2>1, <2>2
  <2>4. part = Routers
    <3> SUFFICES ASSUME part # Routers PROVE FALSE
      OBVIOUS
    <3>1. part \in SUBSET Routers /\ part \notin {{}, Routers}
      BY <2>3
    <3> HIDE DEF part
    <3>2. PICK k \in Links : Ends[k] \cap part # {} /\ ~ Ends[k] \subseteq part
      BY <3>1, TopologyFacts
    <3> USE DEF part
    <3>3. PICK a \in Routers, b \in Routers : a # b /\ Ends[k] = {a, b} /\ a \in part /\ b \notin part
      <4>1. PICK x \in Routers, y \in Routers : x # y /\ Ends[k] = {x, y}
        BY TopologyFacts
      <4>2. Ends[k] = {y, x}
        BY <4>1
      <4> HIDE DEF part
      <4> QED
        BY <3>2, <4>1, <4>2
    <3>4. key \in Told(a, k)
      BY <3>3 DEF Told
    <3>5. key \in seen[b]
      BY <1>2, <3>3, <3>4
    <3> QED
      BY <3>3, <3>5
  <2>5. key \in seen[r]
    BY <2>4
  <2> QED
    BY <2>5 DEF FloodInv, OwnInv, Half
<1>4. \A l \in Links : links[r][l] \subseteq Ends[l]
  BY DEF FloodInv, LinkInv, EndsKnown
<1>5. \A l \in Links : links[r][l] = Ends[l]
  BY <1>3, <1>4
<1>6. links[r] \in [Links -> SUBSET Routers] /\ Ends \in [Links -> SUBSET Routers]
  BY TopologyFacts DEF FloodInv, LinkInv, TypeOK
<1> QED
  BY <1>5, <1>6

-----------------------------------------------------------------------------
(* The theorems.                                                           *)

\* The inductive invariant holds throughout.
THEOREM Invariance == Spec => []LinkInv
<1>1. LinkInv /\ [Next]_vars => LinkInv'
  BY StepInv
<1> QED
  BY <1>1, InitInv, PTL DEF Spec

\* The routers' variables keep their types, in every topology (the state of
\* VirtualRouter in virtualrouter.py).
THEOREM TypeCorrect == Spec => []TypeOK
<1>1. LinkInv => TypeOK
  BY DEF LinkInv
<1> QED
  BY <1>1, Invariance, PTL

\* No router ever believes a wrong end of a link, in every topology, whatever is lost
\* and whoever is started again, and until a router takes an LSA for its links, none
\* believes a wrong cost (update_from_LSA).
THEOREM KnowledgeIsTrue == Spec => []KnowledgeTrue
<1>1. LinkInv => KnowledgeTrue
  BY DEF LinkInv, EndsKnown, CostsInv, KnownInv, KnowledgeTrue
<1> QED
  BY <1>1, Invariance, PTL

\* update_graph finds the cost of every link it adds, in every topology and whatever
\* init messages and LSAs are lost, as long as no init reply is: a router with a link's
\* two ends has its cost.
THEOREM NoRouterDies == Spec => []NoKeyError
<1>1. LinkInv => NoKeyError
  BY DEF LinkInv, CostsInv, KnownInv, NoKeyError
<1> QED
  BY <1>1, Invariance, PTL

\* What init() takes for the init reply is the init reply, in every topology, as
\* long as no reply is lost.
THEOREM ReplyComesFirst == Spec => []ReplyFirst
<1>1. LinkInv => ReplyFirst
  BY OwnLinksRead DEF ReplyFirst
<1> QED
  BY <1>1, Invariance, PTL

\* While nothing is lost, all that a router tells is heard, on its way or still to be
\* sent, in every topology and order of the datagrams (forward, propagate).
THEOREM FloodInvariance == Spec => []FloodInv
<1>1. FloodInv /\ [Next]_vars => FloodInv'
  BY FloodStepInv
<1> QED
  BY <1>1, FloodInitInv, PTL DEF Spec

\* When nothing new is on its way and nothing was lost, every router knows all links
\* of the network, in every topology that validate_connected lets pass.
THEOREM RestIsComplete == Spec => []CompleteAtRest
<1>1. FloodInv => CompleteAtRest
  BY RestCompletes DEF CompleteAtRest
<1> QED
  BY <1>1, FloodInvariance, PTL
-----------------------------------------------------------------------------
(* Dijkstra's algorithm in the tables: SP and D are two instances of the   *)
(* same definitions, D of the module with the proofs.                      *)

D == INSTANCE DijkstraProofs WITH Vertices <- Routers, Costs <- Nat,
       graph <- 0, source <- 0, target <- 0, search <- 0

\* What the lemmas of DijkstraProofs assume of the vertices and costs.
LEMMA RoutersAreVertices ==
  Nat \subseteq Nat /\ Routers \subseteq Nat /\ D!IsFiniteSet(Routers)
BY TopologyFacts DEF IsFiniteSet, D!IsFiniteSet

LEMMA SameNeighbours ==
  /\ SP!None = D!None /\ SP!Inf = D!Inf
  /\ \A g, u : SP!Neighbours(g, u) = D!Neighbours(g, u)
BY DEF SP!None, D!None, SP!Inf, D!Inf, SP!Neighbours, D!Neighbours

LEMMA SameRound ==
  ASSUME NEW g, NEW t, NEW now
  PROVE  SP!RoundUnlessOver(g, t, now) = D!RoundUnlessOver(g, t, now)
<1>1. SP!Round(g, t, now) = D!Round(g, t, now)
  BY DEF SP!Round, D!Round, SP!Least, D!Least, SP!Popped, D!Popped, SP!Relax, D!Relax,
         SP!Improves, D!Improves, SP!Neighbours, D!Neighbours, SP!None, D!None, SP!Inf, D!Inf
<1> QED
  BY <1>1 DEF SP!RoundUnlessOver, D!RoundUnlessOver, SP!Over, D!Over

LEMMA SameRoute ==
  ASSUME NEW g, NEW s, NEW t
  PROVE  SP!Route(g, s, t) = D!Route(g, s, t)
<1>1. SP!RoundLimit = D!RoundLimit
  BY DEF SP!RoundLimit, D!RoundLimit, SP!Cardinality, D!Cardinality
<1>2. SP!Start(s) = D!Start(s)
  BY DEF SP!Start, D!Start, SP!None, D!None, SP!Inf, D!Inf
<1>3. SP!Finished(g, s, t) = D!Finished(g, s, t)
  BY <1>1, <1>2, SameRound DEF SP!Finished, D!Finished
<1>4. ASSUME NEW now PROVE SP!NextHop(now, s, t) = D!NextHop(now, s, t)
  BY DEF SP!NextHop, D!NextHop, SP!None, D!None
<1> QED
  BY <1>3, <1>4 DEF SP!Route, D!Route

LEMMA SameDistance ==
  ASSUME NEW g, NEW u, NEW v
  PROVE  SP!Distance(g, u, v) = D!Distance(g, u, v)
BY DEF SP!Distance, D!Distance, SP!PathsIn, D!PathsIn, SP!PathsBetween, D!PathsBetween,
       SP!Edges, D!Edges, SP!Length, D!Length, SP!Min, D!Min, SP!Inf, D!Inf, SP!None, D!None,
       SP!IsInjective, D!IsInjective, SP!Cardinality, D!Cardinality

\* What dijkstra returns, in the terms of the tables.
LEMMA RouteResult ==
  ASSUME NEW g \in D!Graphs, NEW s \in Routers, NEW t \in Routers \ {s}
  PROVE  LET route == SP!Route(g, s, t)
         IN /\ SP!IsShortestRoute(g, s, t, route.cost, route.hop)
            /\ route.cost = SP!Distance(g, s, t)
            /\ route.cost # SP!Inf =>
                 /\ route.cost \in Nat /\ SP!Distance(g, route.hop, t) \in Nat
                 /\ route.hop \in Routers /\ g[s][route.hop] \in Nat
                 /\ route.hop \in SP!Neighbours(g, s)
                 /\ route.cost = g[s][route.hop] + SP!Distance(g, route.hop, t)
<1> DEFINE route == SP!Route(g, s, t)
<1>1. route = D!Route(g, s, t)
  BY SameRoute
<1>2. /\ D!IsShortestRoute(g, s, t, route.cost, route.hop)
      /\ route.cost # D!Inf =>
           route.cost \in Nat /\ g[s][route.hop] \in Nat /\ D!Distance(g, route.hop, t) \in Nat
  BY <1>1, RoutersAreVertices, D!RouteIsShortest
<1> HIDE DEF route
<1>3. SP!IsShortestRoute(g, s, t, route.cost, route.hop)
  BY <1>2, SameNeighbours, SameDistance DEF SP!IsShortestRoute, D!IsShortestRoute
<1>4. route.cost # SP!Inf =>
        route.cost \in Nat /\ g[s][route.hop] \in Nat /\ SP!Distance(g, route.hop, t) \in Nat
  BY <1>2, SameNeighbours, SameDistance
<1> QED
  BY <1>3, <1>4 DEF SP!IsShortestRoute, SP!Neighbours, route

-----------------------------------------------------------------------------
(* The graphs the tables are computed from.                                *)

Within(g, h) == \A u, v \in Routers : g[u][v] # SP!None => h[u][v] = g[u][v]

\* True ends of links, and the right costs of the links that have one.
TrueKnowledge(ends, costs) ==
  \A l \in Links : ends[l] \subseteq Ends[l] /\ (ends[l] # {} => costs[l] = Cost[l])

\* What a graph says of two routers: the cost of a link between them, or that there is none.
Drawn(g, ends) ==
  \A u, v \in Routers :
    \/ \E l \in Links : u # v /\ ends[l] = {u, v} /\ g[u][v] = Cost[l]
    \/ (\A l \in Links : u = v \/ ends[l] # {u, v}) /\ g[u][v] = SP!None

LEMMA PairCardinality ==
  ASSUME NEW u, NEW v, u # v
  PROVE  Cardinality({u, v}) = 2
<1>1. IsFiniteSet({u}) /\ Cardinality({u}) = 1
  BY FS_Singleton
<1>2. Cardinality({u} \cup {v}) = 1 + 1
  BY <1>1, FS_AddElement
<1>3. {u} \cup {v} = {u, v}
  OBVIOUS
<1> QED
  BY <1>2, <1>3

LEMMA TwoEnds ==
  ASSUME NEW l \in Links, NEW u, NEW v, u # v, {u, v} \subseteq Ends[l]
  PROVE  Ends[l] = {u, v}
<1>1. PICK a \in Routers, b \in Routers : a # b /\ Ends[l] = {a, b}
  BY TopologyFacts
<1>2. u \in {a, b} /\ v \in {a, b}
  BY <1>1
<1>3. {a, b} = {u, v}
  BY <1>2
<1> QED
  BY <1>1, <1>3

\* update_graph: an edge for each link with its two ends known, and its cost.
LEMMA GraphEdges ==
  ASSUME NEW ends, NEW costs, TrueKnowledge(ends, costs)
  PROVE  Graph(ends, costs) \in D!Graphs /\ Drawn(Graph(ends, costs), ends)
<1> DEFINE complete == {l \in Links : Cardinality(ends[l]) = 2}
           joining(u, v) == {l \in complete : u # v /\ ends[l] = {u, v}}
           edge(u, v) == IF joining(u, v) = {} THEN SP!None
                         ELSE costs[CHOOSE l \in joining(u, v) : TRUE]
<1>1. Graph(ends, costs) = [u \in Routers |-> [v \in Routers |-> edge(u, v)]]
  BY DEF Graph
<1>2. ASSUME NEW u \in Routers, NEW v \in Routers, NEW l \in Links, u # v, ends[l] = {u, v}
      PROVE  edge(u, v) = Cost[l]
  <2>1. l \in joining(u, v)
    <3>1. Cardinality(ends[l]) = 2
      <4>1. Cardinality({u, v}) = 2
        BY <1>2, PairCardinality
      <4> QED
        BY <1>2, <4>1
    <3> QED
      BY <1>2, <3>1
  <2>2. ASSUME NEW k \in joining(u, v) PROVE k = l
    <3>1. k \in Links /\ ends[k] = {u, v}
      BY <2>2
    <3>2. {u, v} \subseteq Ends[k] /\ {u, v} \subseteq Ends[l]
      BY <1>2, <3>1 DEF TrueKnowledge
    <3>3. Ends[k] = {u, v} /\ Ends[l] = {u, v}
      BY <1>2, <3>1, <3>2, TwoEnds
    <3> QED
      BY <3>1, <3>3, TopologyFacts
  <2>3. (CHOOSE k \in joining(u, v) : TRUE) = l
    BY <2>1, <2>2
  <2>4. costs[l] = Cost[l]
    BY <1>2 DEF TrueKnowledge
  <2> QED
    BY <2>1, <2>3, <2>4
<1>3. ASSUME NEW u \in Routers, NEW v \in Routers, \A l \in Links : u = v \/ ends[l] # {u, v}
      PROVE  edge(u, v) = SP!None
  BY <1>3
<1> HIDE DEF edge
<1>4. ASSUME NEW u \in Routers, NEW v \in Routers PROVE edge(u, v) \in Nat \cup {SP!None}
  <2>1. CASE \A l \in Links : u = v \/ ends[l] # {u, v}
    BY <1>3, <2>1
  <2>2. CASE \E l \in Links : u # v /\ ends[l] = {u, v}
    BY <1>2, <2>2, TopologyFacts
  <2> QED
    BY <2>1, <2>2
<1>5. \A u, v \in Routers : Graph(ends, costs)[u][v] = edge(u, v)
  BY <1>1
<1>6. Graph(ends, costs) \in D!Graphs
  BY <1>1, <1>4, SameNeighbours DEF D!Graphs
<1>7. Drawn(Graph(ends, costs), ends)
  BY <1>2, <1>3, <1>5 DEF Drawn
<1> QED
  BY <1>6, <1>7

\* A graph of true knowledge is determined by the ends, and one of more knowledge
\* has the edges of one of less.
LEMMA DrawnWithin ==
  ASSUME NEW g, NEW h, NEW less, NEW more, Drawn(g, less), Drawn(h, more),
         \A l \in Links : less[l] \subseteq more[l] /\ more[l] \subseteq Ends[l]
  PROVE  Within(g, h)
<1> SUFFICES ASSUME NEW u \in Routers, NEW v \in Routers, g[u][v] # SP!None
             PROVE  h[u][v] = g[u][v]
  BY DEF Within
<1>1. PICK l \in Links : u # v /\ less[l] = {u, v} /\ g[u][v] = Cost[l]
  BY DEF Drawn
<1>2. {u, v} \subseteq Ends[l] /\ {u, v} \subseteq more[l] /\ more[l] \subseteq Ends[l]
  BY <1>1
<1>3. Ends[l] = {u, v}
  BY <1>1, <1>2, TwoEnds
<1>4. more[l] = {u, v}
  BY <1>2, <1>3
<1>5. PICK k \in Links : more[k] = {u, v} /\ h[u][v] = Cost[k]
  <2>1. \/ \E k \in Links : u # v /\ more[k] = {u, v} /\ h[u][v] = Cost[k]
        \/ \A k \in Links : u = v \/ more[k] # {u, v}
    BY Zenon DEF Drawn
  <2>2. ~ \A k \in Links : u = v \/ more[k] # {u, v}
    BY <1>1, <1>4, Zenon
  <2> QED
    BY <2>1, <2>2, Zenon
<1>6. {u, v} \subseteq Ends[k]
  BY <1>5
<1>7. Ends[k] = {u, v}
  BY <1>1, <1>6, TwoEnds
<1>8. k = l
  BY <1>3, <1>7, TopologyFacts
<1> QED
  BY <1>1, <1>5, <1>8

\* The costs a router has are those of the network, as far as the graph shows them.
LEMMA SameGraph ==
  ASSUME NEW ends, NEW costs, TrueKnowledge(ends, costs)
  PROVE  Graph(ends, costs) = Graph(ends, Cost)
<1> DEFINE g == Graph(ends, costs)
           h == Graph(ends, Cost)
<1>1. TrueKnowledge(ends, Cost)
  BY DEF TrueKnowledge
<1>2. g \in D!Graphs /\ h \in D!Graphs /\ Drawn(g, ends) /\ Drawn(h, ends)
  BY <1>1, GraphEdges
<1>3. \A l \in Links : ends[l] \subseteq Ends[l]
  BY DEF TrueKnowledge
<1> HIDE DEF g, h
<1>4. Within(g, h) /\ Within(h, g)
  BY <1>2, <1>3, DrawnWithin
<1>5. \A u, v \in Routers : g[u][v] = h[u][v]
  BY <1>4 DEF Within
<1>6. g = h
  BY <1>2, <1>5 DEF D!Graphs
<1> QED
  BY <1>6 DEF g, h

LEMMA NetworkGraph == Network \in D!Graphs /\ Drawn(Network, Ends)
<1>1. TrueKnowledge(Ends, Cost)
  BY DEF TrueKnowledge
<1> QED
  BY <1>1, GraphEdges DEF Network

LEMMA DistanceIsNumber ==
  ASSUME NEW g \in D!Graphs, NEW u \in Routers, NEW v \in Routers
  PROVE  SP!Distance(g, u, v) \in Nat \cup {SP!Inf}
<1>1. D!Distance(g, u, v) \in Nat \cup {D!Inf}
  BY RoutersAreVertices, D!DistanceResult
<1> QED
  BY <1>1, SameNeighbours, SameDistance

\* With more edges there are no longer ways.
LEMMA WithinShorter ==
  ASSUME NEW g \in D!Graphs, NEW h \in D!Graphs, Within(g, h),
         NEW u \in Routers, NEW v \in Routers, SP!Distance(g, u, v) # SP!Inf
  PROVE  SP!Distance(h, u, v) # SP!Inf /\ SP!Distance(h, u, v) <= SP!Distance(g, u, v)
<1>1. \A a, b \in Routers : g[a][b] # D!None => h[a][b] = g[a][b]
  BY SameNeighbours DEF Within
<1>2. D!Distance(g, u, v) # D!Inf
  BY SameNeighbours, SameDistance
<1>3. D!Distance(h, u, v) # D!Inf /\ D!Distance(h, u, v) <= D!Distance(g, u, v)
  BY <1>1, <1>2, RoutersAreVertices, D!MoreEdgesShorter, Zenon
<1>4. /\ SP!Distance(h, u, v) = D!Distance(h, u, v) /\ SP!Distance(g, u, v) = D!Distance(g, u, v)
      /\ SP!Inf = D!Inf
  BY SameNeighbours, SameDistance, Zenon
<1> QED
  BY <1>3, <1>4, Zenon

-----------------------------------------------------------------------------
(* The tables while LSAs arrive.                                           *)

\* The steps of TablesNext are steps of the flooding.
LEMMA TablesFlood ==
  ASSUME [TablesNext]_tablevars
  PROVE  [Next]_vars /\ UNCHANGED faults
<1>1. CASE UNCHANGED tablevars
  <2>1. UNCHANGED vars
    BY <1>1, Zenon DEF tablevars
  <2> QED
    BY <2>1, Zenon DEF vars
<1>2. CASE TablesNext
  <2>1. CASE NfeReply
    BY <2>1, Zenon DEF Next, NfeReply
  <2>2. ASSUME NEW r \in Routers,
               SendInit(r) \/ ReceiveInitReply(r) \/ SendNext(r) \/ ReceiveNewLsa(r)
        PROVE  [Next]_vars /\ UNCHANGED faults
    <3>1. Next
      BY <2>2, Zenon DEF Next, Router
    <3>2. UNCHANGED faults
      BY <2>2, Zenon DEF SendInit, ReceiveInitReply, SendNext, ReceiveNewLsa
    <3> QED
      BY <3>1, <3>2
  <2> QED
    BY <1>2, <2>1, <2>2, Zenon DEF TablesNext
<1> QED
  BY <1>1, <1>2

LEMMA TableInitInv == TablesInit => TableInv
<1> SUFFICES ASSUME TablesInit PROVE TableInv
  OBVIOUS
<1>1. routing_table = [r \in Routers |-> <<>>] /\ links = [r \in Routers |-> [l \in Links |-> {}]]
  BY DEF TablesInit, Init
<1>2. ASSUME NEW r \in Routers PROVE InGraph(Known(r)) = {}
  <2>1. TrueKnowledge(links[r], Cost) /\ \A l \in Links : links[r][l] = {}
    BY <1>1 DEF TrueKnowledge
  <2>2. Drawn(Known(r), links[r])
    BY <2>1, GraphEdges DEF Known
  <2>3. \A u, v \in Routers : Known(r)[u][v] = SP!None
    BY <2>1, <2>2 DEF Drawn
  <2> QED
    BY <2>3 DEF InGraph, SP!Neighbours
<1>3. DOMAIN <<>> = {}
  OBVIOUS
<1> QED
  BY <1>1, <1>2, <1>3 DEF TableInv

\* A router learns more of the network, and none loses what it has learnt.
LEMMA KnownGrows ==
  ASSUME LinkInv, LinkInv', TablesNext, NEW r \in Routers
  PROVE  /\ Known(r) \in D!Graphs /\ Known(r)' \in D!Graphs
         /\ Within(Known(r), Known(r)')
         /\ InGraph(Known(r)) \subseteq InGraph(Known(r)')
<1>1. \A l \in Links : links[r][l] \subseteq links'[r][l]
  <2>1. CASE links' = links
    BY <2>1
  <2>2. ASSUME NEW q \in Routers, ReceiveNewLsa(q)
        PROVE  \A l \in Links : links[r][l] \subseteq links'[r][l]
    <3>1. PICK m : links' = [links EXCEPT ![q] = LearnEnds(@, q, m)]
      BY <2>2 DEF ReceiveNewLsa
    <3>2. DOMAIN links = Routers
      BY DEF LinkInv, TypeOK
    <3> QED
      BY <3>1, <3>2 DEF LearnEnds
  <2> QED
    BY <2>1, <2>2 DEF TablesNext, NfeReply, SendInit, ReceiveInitReply, SendNext
<1>2. \A l \in Links : links'[r][l] \subseteq Ends[l]
  BY DEF LinkInv, EndsKnown
<1>3. Known(r) \in D!Graphs /\ Drawn(Known(r), links[r])
  <2>1. TrueKnowledge(links[r], Cost)
    BY DEF LinkInv, EndsKnown, TrueKnowledge
  <2> QED
    BY <2>1, GraphEdges DEF Known
<1>4. Known(r)' \in D!Graphs /\ Drawn(Known(r)', links'[r])
  <2>1. TrueKnowledge(links'[r], Cost)
    BY <1>2 DEF TrueKnowledge
  <2> QED
    BY <2>1, GraphEdges DEF Known
<1>5. Within(Known(r), Known(r)')
  BY <1>1, <1>2, <1>3, <1>4, DrawnWithin
<1>6. InGraph(Known(r)) \subseteq InGraph(Known(r)')
  <2>1. \A u, v \in Routers : Known(r)[u][v] # SP!None => Known(r)'[u][v] # SP!None
    BY <1>5 DEF Within
  <2> QED
    BY <2>1 DEF InGraph, SP!Neighbours
<1> QED
  BY <1>3, <1>4, <1>5, <1>6

\* update_from_LSA: after an LSA the receiver's table is anew what dijkstra says.
LEMMA UpdatedTable ==
  ASSUME LinkInv, LinkInv', RepliesArrive', TableInv, NEW r \in Routers, ReceiveNewLsa(r), UpdateTable(r)
  PROVE  /\ DOMAIN routing_table' = Routers
         /\ \A q \in Routers \ {r} : routing_table'[q] = routing_table[q] /\ Known(q)' = Known(q)
         /\ DOMAIN routing_table'[r] = InGraph(Known(r)') \ {r}
         /\ \A t \in DOMAIN routing_table'[r] : routing_table'[r][t] = SP!Route(Known(r)', r, t)
<1>1. TablesNext
  BY DEF TablesNext
<1> DEFINE g == Graph(links'[r], link_costs'[r])
<1>2. routing_table' = [routing_table EXCEPT ![r] = Table(@, g, r)]
  BY DEF UpdateTable
<1>3. DOMAIN routing_table = Routers /\ DOMAIN routing_table[r] = InGraph(Known(r)) \ {r}
  BY DEF TableInv
<1>4. g = Known(r)'
  <2>1. TrueKnowledge(links'[r], link_costs'[r])
    BY DEF LinkInv, EndsKnown, CostsInv, KnownInv, TrueKnowledge
  <2> QED
    BY <2>1, SameGraph DEF Known
<1>5. InGraph(Known(r)) \subseteq InGraph(g)
  BY <1>1, <1>4, KnownGrows
<1> HIDE DEF g
<1>6. routing_table'[r] = Table(routing_table[r], g, r)
  BY <1>2, <1>3
<1>7. (InGraph(g) \cup DOMAIN routing_table[r]) \ {r} = InGraph(g) \ {r}
  BY <1>3, <1>5
<1>8. /\ DOMAIN routing_table'[r] = InGraph(g) \ {r}
      /\ \A t \in InGraph(g) \ {r} : routing_table'[r][t] = SP!Route(g, r, t)
  BY <1>6, <1>7 DEF Table
<1>9. \A q \in Routers \ {r} : routing_table'[q] = routing_table[q]
  BY <1>2, <1>3
<1>10. ASSUME NEW q \in Routers \ {r} PROVE Known(q)' = Known(q)
  <2>1. links'[q] = links[q]
    <3>1. PICK m : links' = [links EXCEPT ![r] = LearnEnds(@, r, m)]
      BY DEF ReceiveNewLsa
    <3>2. DOMAIN links = Routers
      BY DEF LinkInv, TypeOK
    <3> QED
      BY <3>1, <3>2
  <2> QED
    BY <2>1 DEF Known
<1> QED
  BY <1>2, <1>3, <1>4, <1>8, <1>9, <1>10

LEMMA TableStepInv ==
  ASSUME LinkInv, LinkInv', RepliesArrive', TableInv, [TablesNext]_tablevars
  PROVE  TableInv'
<1>1. CASE UNCHANGED <<routing_table, links>>
  BY <1>1 DEF TableInv, Known
<1>2. ASSUME NEW r \in Routers, ReceiveNewLsa(r), UpdateTable(r)
      PROVE  TableInv'
  BY <1>2, UpdatedTable DEF TableInv
<1> QED
  BY <1>1, <1>2
  DEF TablesNext, NfeReply, SendInit, ReceiveInitReply, SendNext, tablevars, vars

\* The route of an entry, read off the graph.
LEMMA EntryResult ==
  ASSUME LinkInv, TableInv, NEW r \in Routers, NEW t \in DOMAIN routing_table[r]
  PROVE  /\ t \in Routers \ {r} /\ Known(r) \in D!Graphs
         /\ Within(Known(r), Network)
         /\ routing_table[r][t] = SP!Route(Known(r), r, t)
<1>1. t \in Routers \ {r} /\ routing_table[r][t] = SP!Route(Known(r), r, t)
  BY DEF TableInv, InGraph
<1>2. TrueKnowledge(links[r], Cost)
  BY DEF LinkInv, EndsKnown, TrueKnowledge
<1>3. Known(r) \in D!Graphs /\ Drawn(Known(r), links[r])
  BY <1>2, GraphEdges DEF Known
<1>4. Within(Known(r), Network)
  BY <1>2, <1>3, NetworkGraph, DrawnWithin DEF TrueKnowledge
<1> QED
  BY <1>1, <1>3, <1>4

LEMMA RoutesAreReal ==
  ASSUME LinkInv, TableInv
  PROVE  RoutesReal
<1> SUFFICES ASSUME NEW r \in Routers, NEW t \in DOMAIN routing_table[r],
                    routing_table[r][t].cost # SP!Inf
             PROVE  LET route == routing_table[r][t]
                    IN /\ route.hop \in SP!Neighbours(Network, r)
                       /\ Distance[route.hop][t] # SP!Inf
                       /\ route.cost >= Network[r][route.hop] + Distance[route.hop][t]
  BY DEF RoutesReal
<1> DEFINE g == Known(r)
           route == routing_table[r][t]
           hop == route.hop
<1>1. /\ t \in Routers \ {r} /\ g \in D!Graphs /\ Within(g, Network) /\ route = SP!Route(g, r, t)
  BY EntryResult
<1> HIDE DEF g, route
<1>2. /\ route.cost \in Nat /\ SP!Distance(g, hop, t) \in Nat
      /\ hop \in Routers /\ g[r][hop] \in Nat
      /\ route.cost = g[r][hop] + SP!Distance(g, hop, t)
  BY <1>1, RouteResult DEF route
<1>3. Network[r][hop] = g[r][hop] /\ hop \in SP!Neighbours(Network, r)
  BY <1>1, <1>2 DEF Within, SP!Neighbours, SP!None
<1>4. SP!Distance(Network, hop, t) # SP!Inf /\ SP!Distance(Network, hop, t) <= SP!Distance(g, hop, t)
  BY <1>1, <1>2, NetworkGraph, WithinShorter DEF SP!Inf
<1>5. Distance[hop][t] = SP!Distance(Network, hop, t)
  BY <1>1, <1>2 DEF Distance
<1>6. SP!Distance(Network, hop, t) \in Int
  BY <1>1, <1>2, <1>4, NetworkGraph, DistanceIsNumber DEF SP!Inf
<1>7. route.cost >= Network[r][hop] + Distance[hop][t]
  <2> DEFINE d == SP!Distance(Network, hop, t)
             e == SP!Distance(g, hop, t)
             w == g[r][hop]
             c == route.cost
  <2>1. d \in Int /\ e \in Nat /\ w \in Nat /\ c = w + e /\ d <= e
    BY <1>2, <1>4, <1>6
  <2>2. Network[r][hop] = w /\ Distance[hop][t] = d
    BY <1>3, <1>5
  <2> HIDE DEF d, e, w, c
  <2>3. c >= w + d
    BY <2>1
  <2> QED
    BY <2>2, <2>3 DEF c
<1> QED
  BY <1>3, <1>4, <1>5, <1>7 DEF route

\* With the knowledge complete the graph is the network, and all of it is reached.
LEMMA TablesAreShortest ==
  ASSUME FloodInv, TableInv, faults = {}
  PROVE  TablesShortest
<1> SUFFICES ASSUME AtRest, NEW r \in Routers, NEW t \in Routers \ {r}
             PROVE  LET route == routing_table[r][t]
                    IN /\ t \in DOMAIN routing_table[r]
                       /\ route.cost # SP!Inf
                       /\ SP!IsShortestRoute(Network, r, t, route.cost, route.hop)
  BY DEF TablesShortest
<1>1. links[r] = Ends
  BY RestCompletes DEF Undisturbed
<1>2. Known(r) = Network
  BY <1>1 DEF Known, Network
<1>3. Network \in D!Graphs /\ Drawn(Network, Ends)
  BY NetworkGraph
<1>4. ASSUME NEW part \in SUBSET Routers, part \notin {{}, Routers}
      PROVE  \E u \in part, v \in Routers \ part : Network[u][v] # SP!None
  <2>1. PICK l \in Links : Ends[l] \cap part # {} /\ ~ Ends[l] \subseteq part
    BY <1>4, TopologyFacts
  <2>2. PICK a \in Routers, b \in Routers : a # b /\ Ends[l] = {a, b}
    BY TopologyFacts
  <2>3. PICK u \in part, v \in Routers \ part : u # v /\ Ends[l] = {u, v}
    <3>1. Ends[l] = {b, a}
      BY <2>2
    <3> QED
      BY <2>1, <2>2, <3>1
  <2>4. Network[u][v] # SP!None
    <3>1. PICK k \in Links : Network[u][v] = Cost[k]
      BY <1>3, <2>3 DEF Drawn
    <3> QED
      BY <3>1, TopologyFacts DEF SP!None
  <2> QED
    BY <2>4
<1>5. t \in InGraph(Network)
  <2>1. {t} \in SUBSET Routers /\ {t} \notin {{}, Routers}
    OBVIOUS
  <2>2. PICK u \in {t}, v \in Routers \ {t} : Network[u][v] # SP!None
    BY <1>4, <2>1
  <2> QED
    BY <2>2 DEF InGraph, SP!Neighbours
<1>6. t \in DOMAIN routing_table[r] /\ routing_table[r][t] = SP!Route(Network, r, t)
  BY <1>2, <1>5 DEF TableInv
<1>7. SP!Route(Network, r, t).cost # SP!Inf
  <2>1. \E p : D!Way(Network, p) /\ p[1] = r /\ p[Len(p)] = t
    <3>1. \A part \in SUBSET Routers : part \notin {{}, Routers} =>
            \E u \in part, v \in Routers \ part : Network[u][v] # D!None
      BY <1>4, SameNeighbours
    <3> QED
      BY <1>3, <3>1, RoutersAreVertices, D!ConnectedReached
  <2>2. D!Route(Network, r, t).cost # D!Inf
    BY <1>3, <2>1, RoutersAreVertices, D!RouteIsShortest
  <2> QED
    BY <2>2, SameRoute, SameNeighbours
<1>8. SP!IsShortestRoute(Network, r, t, SP!Route(Network, r, t).cost, SP!Route(Network, r, t).hop)
  BY <1>3, RouteResult
<1> QED
  BY <1>6, <1>7, <1>8

\* What is learnt makes no route longer.
LEMMA RoutesImprove ==
  ASSUME LinkInv, LinkInv', RepliesArrive', TableInv, [TablesNext]_tablevars,
         NEW r \in Routers, NEW t \in DOMAIN routing_table[r]
  PROVE  LET old == routing_table[r][t].cost
             new == routing_table'[r][t].cost
         IN /\ t \in DOMAIN routing_table'[r]
            /\ old # SP!Inf => new # SP!Inf /\ new <= old
<1> DEFINE g == Known(r)
           h == Known(r)'
           old == routing_table[r][t].cost
           new == routing_table'[r][t].cost
<1>1. /\ t \in Routers \ {r} /\ g \in D!Graphs
      /\ old = SP!Distance(g, r, t) /\ t \in InGraph(g)
      /\ old # SP!Inf => old \in Nat
  BY EntryResult, RouteResult DEF TableInv
<1>2. CASE UNCHANGED routing_table
  BY <1>1, <1>2
<1>3. CASE routing_table' # routing_table
  <2>1. TablesNext
    BY <1>3 DEF tablevars
  <2>2. g \in D!Graphs /\ h \in D!Graphs /\ Within(g, h) /\ InGraph(g) \subseteq InGraph(h)
    BY <2>1, KnownGrows
  <2>3. TableInv'
    BY TableStepInv
  <2>4. t \in DOMAIN routing_table'[r] /\ routing_table'[r][t] = SP!Route(h, r, t)
    BY <1>1, <2>2, <2>3 DEF TableInv
  <2>5. new = SP!Distance(h, r, t)
    BY <1>1, <2>2, <2>4, RouteResult
  <2> HIDE DEF g, h, old, new
  <2>6. old # SP!Inf => new # SP!Inf /\ new <= old
    BY <1>1, <2>2, <2>5, WithinShorter
  <2> QED
    BY <2>4, <2>6 DEF old, new
<1> QED
  BY <1>2, <1>3

\* The routing tables leave the flooding as it is: TablesSpec implements Spec.
THEOREM TablesImplementFlooding == TablesSpec => Spec /\ [](faults = {})
<1>1. TablesInit => Init /\ faults = {}
  BY DEF TablesInit, Init
<1>2. [TablesNext]_tablevars => [Next]_vars
  BY TablesFlood
<1>3. faults = {} /\ [TablesNext]_tablevars => (faults = {})'
  BY TablesFlood
<1> QED
  BY <1>1, <1>2, <1>3, PTL DEF TablesSpec, Spec

\* The invariant of the tables, in every topology and order of the datagrams: each
\* table is what dijkstra says of all that its router has learnt (update_from_LSA).
THEOREM RoutingInvariance == TablesSpec => []RoutingInv
<1>1. TablesInit => TableInv
  BY TableInitInv
<1>2. LinkInv /\ LinkInv' /\ (faults = {})' /\ TableInv /\ [TablesNext]_tablevars => TableInv'
  BY TableStepInv DEF RepliesArrive
<1>3. FloodInv => LinkInv
  BY DEF FloodInv
<1>4. FloodInv /\ TableInv /\ faults = {} => RoutingInv
  BY DEF RoutingInv
<1> QED
  BY <1>1, <1>2, <1>3, <1>4, TablesImplementFlooding, FloodInvariance, PTL DEF TablesSpec

\* No table promises more than the network can do, at any time, in every topology:
\* a packet sent to the next hop is at a neighbour, and gets no farther away than
\* the table says (update_from_LSA and dijkstra).
THEOREM RoutesLeadOn == TablesSpec => []RoutesReal
<1>1. RoutingInv => RoutesReal
  BY RoutesAreReal DEF RoutingInv, FloodInv
<1> QED
  BY <1>1, RoutingInvariance, PTL

\* When flooding has come to an end every router has a shortest route to every
\* other, in every topology that validate_connected lets pass.
THEOREM RestIsShortest == TablesSpec => []TablesShortest
<1>1. RoutingInv => TablesShortest
  BY TablesAreShortest DEF RoutingInv
<1> QED
  BY <1>1, RoutingInvariance, PTL

\* No LSA takes a route away or makes one longer, in every topology.
THEOREM RoutesNeverWorsen == TablesSpec => RoutesOnlyImprove
<1>1. ASSUME LinkInv, LinkInv', (faults = {})', TableInv, [TablesNext]_tablevars
      PROVE  [\A r \in Routers : \A t \in DOMAIN routing_table[r] :
                LET old == routing_table[r][t].cost
                    new == routing_table'[r][t].cost
                IN /\ t \in DOMAIN routing_table'[r]
                   /\ old # SP!Inf => new # SP!Inf /\ new <= old]_routing_table
  BY <1>1, RoutesImprove DEF RepliesArrive
<1>2. RoutingInv => LinkInv /\ TableInv /\ faults = {}
  BY DEF RoutingInv, FloodInv
<1> QED
  BY <1>1, <1>2, RoutingInvariance, PTL DEF TablesSpec, RoutesOnlyImprove
=============================================================================
