--------------------------- MODULE TopologyProofs ---------------------------
(***************************************************************************)
(* Topology accepts exactly the sound files, and in what it accepts every  *)
(* link leads back: the proofs, for any routers, link ids and length of    *)
(* the file. The search of validate_connected can part the routers only    *)
(* where no link crosses, which is the argument of EndOfSearchInv.         *)
(***************************************************************************)
EXTENDS TopologyInv, Lemmas

LinksOfFile == [key : Keys, id : Range(IntOf), ends : RouterIds \X RouterIds, cost : Costs]
Neighbours(T) == [id : RouterIds, link : T]

\* What a link adds to the list of a router.
Added(link, r) ==
  {[id |-> other, link |-> link] :
     other \in {o \in RouterIds : link.ends \in {<<r, o>>, <<o, r>>}}}

-----------------------------------------------------------------------------
(* What one link adds.                                                     *)

LEMMA SingleRange ==
  ASSUME NEW S, NEW u \in S
  PROVE  Range(<<u>>) = {u} /\ IsInjective(<<u>>)
<1> DEFINE q == <<u>>
<1>1. q \in Seq(S) /\ Len(q) = 1 /\ q[1] = u
  OBVIOUS
<1> HIDE DEF q
<1>2. \A i : i \in 1 .. 1 <=> i = 1
  OBVIOUS
<1>3. \A x : x \in Range(q) <=> \E i \in 1 .. 1 : q[i] = x
  BY <1>1, RangeByPosition
<1>4. IsInjective(q)
  BY <1>1, <1>2, RangeByPosition
<1>5. Range(q) = {u}
  BY <1>1, <1>2, <1>3
<1> QED
  BY <1>4, <1>5 DEF q

LEMMA PairRange ==
  ASSUME NEW S, NEW u \in S, NEW v \in S
  PROVE  Range(<<u, v>>) = {u, v}
<1>1. <<u, v>> \in Seq(S) /\ Len(<<u, v>>) = 2 /\ <<u, v>>[1] = u /\ <<u, v>>[2] = v
  OBVIOUS
<1>2. \A i : i \in 1 .. 2 <=> i = 1 \/ i = 2
  OBVIOUS
<1>3. \A x : x \in Range(<<u, v>>) <=> \E i \in 1 .. 2 : <<u, v>>[i] = x
  BY <1>1, RangeByPosition
<1> QED
  BY <1>1, <1>2, <1>3

LEMMA WithRouterResult ==
  ASSUME NEW rs \in Seq(RouterIds), IsInjective(rs), NEW r \in RouterIds
  PROVE  /\ WithRouter(rs, r) \in Seq(RouterIds)
         /\ IsInjective(WithRouter(rs, r))
         /\ Range(WithRouter(rs, r)) = Range(rs) \cup {r}
<1>1. CASE r \in Range(rs)
  BY <1>1 DEF WithRouter
<1>2. CASE r \notin Range(rs)
  BY <1>2, ListAppend DEF WithRouter
<1> QED
  BY <1>1, <1>2

\* Both ends of the link get to know each other, and nobody else does.
LEMMA ConnectResult ==
  ASSUME NEW T, neighbours \in [RouterIds -> Seq(Neighbours(T))],
         NEW link \in T, link.ends \in RouterIds \X RouterIds
  PROVE  /\ Connect(link) \in [RouterIds -> Seq(Neighbours(T))]
         /\ \A r \in RouterIds : Range(Connect(link)[r]) = Range(neighbours[r]) \cup Added(link, r)
<1>1. PICK r1 \in RouterIds, r2 \in RouterIds : link.ends = <<r1, r2>>
  OBVIOUS
<1> DEFINE n1 == [id |-> r2, link |-> link]
           n2 == [id |-> r1, link |-> link]
           Lists == Seq(Neighbours(T))
           one == [neighbours EXCEPT ![r1] = Append(@, n1)]
           two == [one EXCEPT ![r2] = Append(@, n2)]
<1>2. Connect(link) = two
  BY <1>1 DEF Connect, WithNeighbour
<1>3. n1 \in Neighbours(T) /\ n2 \in Neighbours(T)
  BY DEF Neighbours
<1> HIDE DEF n1, n2
<1>4. \A q \in Lists, n \in {n1, n2} : Append(q, n) \in Lists /\ Range(Append(q, n)) = Range(q) \cup {n}
  BY <1>3, ListAppend
<1>5. neighbours \in [RouterIds -> Lists]
  OBVIOUS
<1> HIDE DEF Lists
<1>6. /\ one \in [RouterIds -> Lists]
      /\ \A s \in RouterIds : Range(one[s]) = IF s = r1 THEN Range(neighbours[s]) \cup {n1} ELSE Range(neighbours[s])
  BY <1>4, <1>5
<1> HIDE DEF one
<1>7. /\ two \in [RouterIds -> Lists]
      /\ \A s \in RouterIds : Range(two[s]) = IF s = r2 THEN Range(one[s]) \cup {n2} ELSE Range(one[s])
  BY <1>4, <1>6
<1> HIDE DEF two
<1>8. \A r \in RouterIds : \A n :
        n \in Range(two[r]) <=> n \in Range(neighbours[r]) \/ (r = r1 /\ n = n1) \/ (r = r2 /\ n = n2)
  BY <1>6, <1>7
<1>9. ASSUME NEW r \in RouterIds, NEW n
      PROVE  (r = r1 /\ n = n1) \/ (r = r2 /\ n = n2) <=> n \in Added(link, r)
  <2>1. ASSUME NEW other \in RouterIds
        PROVE  link.ends \in {<<r, other>>, <<other, r>>} <=> (r = r1 /\ other = r2) \/ (r = r2 /\ other = r1)
    BY <1>1
  <2>2. ASSUME r = r1, n = n1
        PROVE  link.ends \in {<<r, r2>>, <<r2, r>>} /\ n = [id |-> r2, link |-> link]
    BY <2>1, <2>2 DEF n1
  <2>3. ASSUME r = r2, n = n2
        PROVE  link.ends \in {<<r, r1>>, <<r1, r>>} /\ n = [id |-> r1, link |-> link]
    BY <2>1, <2>3 DEF n2
  <2>4. ASSUME NEW other \in RouterIds, link.ends \in {<<r, other>>, <<other, r>>}, n = [id |-> other, link |-> link]
        PROVE  (r = r1 /\ n = n1) \/ (r = r2 /\ n = n2)
    BY <2>1, <2>4 DEF n1, n2
  <2> QED
    BY <2>2, <2>3, <2>4 DEF Added
<1>10. ASSUME NEW r \in RouterIds PROVE Range(two[r]) = Range(neighbours[r]) \cup Added(link, r)
  BY <1>8, <1>9
<1>11. two \in [RouterIds -> Seq(Neighbours(T))]
  BY <1>7 DEF Lists
<1> QED
  BY <1>2, <1>10, <1>11, Zenon

-----------------------------------------------------------------------------
(* The lists and the links.                                                *)

\* The links, spelled out by position.
LEMMA LinksByPosition ==
  ASSUME TypeOK
  PROVE  /\ Len(links) \in Nat
         /\ \A i \in 1 .. Len(links) :
              /\ links[i] \in LinksOfFile
              /\ links[i] \in Range(links)
              /\ \E u, v \in RouterIds : links[i].ends = <<u, v>> /\ Range(links[i].ends) = {u, v}
         /\ \A link \in Range(links) : \E i \in 1 .. Len(links) : links[i] = link
         /\ Mentioned \subseteq RouterIds
<1>1. links \in Seq(LinksOfFile)
  BY DEF TypeOK, LinksOfFile
<1>2. Len(links) \in Nat /\ \A i \in 1 .. Len(links) : links[i] \in LinksOfFile
  BY <1>1, LenProperties, ElementOfSeq
<1>3. \A x : x \in Range(links) <=> \E i \in 1 .. Len(links) : links[i] = x
  BY <1>1, RangeByPosition
<1>4. ASSUME NEW i \in 1 .. Len(links)
      PROVE  \E u, v \in RouterIds : links[i].ends = <<u, v>> /\ Range(links[i].ends) = {u, v}
  <2>1. links[i].ends \in RouterIds \X RouterIds
    BY <1>2 DEF LinksOfFile
  <2>2. PICK u \in RouterIds, v \in RouterIds : links[i].ends = <<u, v>>
    BY <2>1
  <2> QED
    BY <2>2, PairRange
<1>5. Mentioned \subseteq RouterIds
  <2>1. ASSUME NEW r \in Mentioned PROVE r \in RouterIds
    <3>1. PICK i \in 1 .. Len(links) : r \in Range(links[i].ends)
      BY <2>1 DEF Mentioned
    <3>2. PICK u \in RouterIds, v \in RouterIds : Range(links[i].ends) = {u, v}
      BY <1>4
    <3> QED
      BY <3>1, <3>2
  <2> QED
    BY <2>1
<1> QED
  BY <1>2, <1>3, <1>4, <1>5

\* Who is on the list of a router: those to whom a link joins it.
LEMMA NeighboursAreJoined ==
  ASSUME TypeOK, FileInv
  PROVE  /\ \A r \in RouterIds : \A n \in Range(neighbours[r]) :
              /\ n \in Neighbours(Range(links))
              /\ n.id \in Mentioned
              /\ Joins(r, n.id) # {}
         /\ \A u, v \in RouterIds : Joins(u, v) # {} =>
              \E n \in Range(neighbours[u]) : n.id = v
         /\ \A u, v : Joins(u, v) = Joins(v, u)
<1>1. ASSUME NEW r \in RouterIds, NEW n \in Range(neighbours[r])
      PROVE  n \in Neighbours(Range(links)) /\ n.id \in Mentioned /\ Joins(r, n.id) # {}
  <2>1. neighbours[r] \in Seq(Neighbours(Range(links)))
    BY DEF TypeOK, Neighbours
  <2>2. n \in Neighbours(Range(links))
    BY <2>1, RangeByPosition
  <2>3. n.id \in RouterIds /\ n.link \in Range(links) /\ n.link.ends \in {<<r, n.id>>, <<n.id, r>>}
    BY <2>2 DEF FileInv, Neighbours
  <2>4. PICK i \in 1 .. Len(links) : links[i] = n.link
    BY <2>3, LinksByPosition
  <2>5. Range(links[i].ends) = {r, n.id}
    BY <2>3, <2>4, PairRange
  <2>6. i \in Joins(r, n.id) /\ n.id \in Mentioned
    BY <2>5 DEF Joins, Mentioned
  <2> QED
    BY <2>2, <2>6
<1>2. ASSUME NEW u \in RouterIds, NEW v \in RouterIds, NEW i \in Joins(u, v)
      PROVE  \E n \in Range(neighbours[u]) : n.id = v
  <2>1. i \in 1 .. Len(links) /\ Range(links[i].ends) = {u, v}
    BY <1>2 DEF Joins
  <2>2. PICK x \in RouterIds, y \in RouterIds : links[i].ends = <<x, y>> /\ {x, y} = {u, v}
    BY <2>1, LinksByPosition
  <2>3. links[i].ends \in {<<u, v>>, <<v, u>>} /\ links[i] \in Range(links)
    BY <2>1, <2>2, LinksByPosition
  <2>4. [id |-> v, link |-> links[i]] \in Range(neighbours[u])
    BY <2>3 DEF FileInv
  <2> QED
    BY <2>4
<1>3. \A u, v : Joins(u, v) = Joins(v, u)
  BY DEF Joins
<1> QED
  BY <1>1, <1>2, <1>3

\* The number of links between two routers.
LEMMA JoinsFinite ==
  ASSUME TypeOK, NEW u, NEW v
  PROVE  IsFiniteSet(Joins(u, v)) /\ Cardinality(Joins(u, v)) \in Nat
<1>1. IsFiniteSet(1 .. Len(links))
  BY LinksByPosition, FS_Interval
<1>2. Joins(u, v) \in SUBSET (1 .. Len(links))
  BY DEF Joins
<1>3. IsFiniteSet(Joins(u, v))
  BY <1>1, <1>2, FS_Subset
<1> QED
  BY <1>3, FS_CardinalityType

\* What either of the first two validations refuses is not sound.
LEMMA RefusedIsUnsound ==
  ASSUME TypeOK, FileInv, links = <<>> \/ ConnectsToItself \/ MoreThanOneLink
  PROVE  ~Sound
<1> SUFFICES ASSUME Sound PROVE FALSE
  OBVIOUS
<1>1. CASE links = <<>>
  BY <1>1 DEF Sound
<1>2. CASE ConnectsToItself
  <2>1. PICK r \in Range(routers) : \E n \in Range(neighbours[r]) : n.id = r
    BY <1>2 DEF ConnectsToItself
  <2>2. r \in Mentioned /\ r \in RouterIds
    BY LinksByPosition DEF FileInv
  <2>3. Joins(r, r) # {}
    BY <2>1, <2>2, NeighboursAreJoined
  <2>4. Cardinality(Joins(r, r)) <= 0
    BY <2>2 DEF Sound
  <2> QED
    BY <2>3, <2>4, JoinsFinite, FS_EmptySet
<1>3. CASE MoreThanOneLink
  <2>1. PICK i \in 1 .. Len(links), j \in 1 .. Len(links) :
          i # j /\ Range(links[i].ends) = Range(links[j].ends)
    BY <1>3 DEF MoreThanOneLink
  <2>2. PICK u \in RouterIds, v \in RouterIds : Range(links[i].ends) = {u, v}
    BY LinksByPosition
  <2>3. i \in Joins(u, v) /\ j \in Joins(u, v) /\ u \in Mentioned /\ v \in Mentioned
    BY <2>1, <2>2 DEF Joins, Mentioned
  <2>4. Cardinality(Joins(u, v)) <= 1
    <3>1. Cardinality(Joins(u, v)) <= IF u = v THEN 0 ELSE 1
      BY <2>3 DEF Sound
    <3> QED
      BY <3>1, JoinsFinite
  <2>5. i = j
    BY <2>3, <2>4, JoinsFinite, AtMostOne
  <2> QED
    BY <2>1, <2>5
<1> QED
  BY <1>1, <1>2, <1>3

\* What they let pass is sound but for its connectedness.
LEMMA PassedHasSingleLinks ==
  ASSUME TypeOK, FileInv, ~ConnectsToItself, ~MoreThanOneLink,
         NEW u \in Mentioned, NEW v \in Mentioned
  PROVE  Cardinality(Joins(u, v)) <= IF u = v THEN 0 ELSE 1
<1>1. u \in RouterIds /\ v \in RouterIds /\ u \in Range(routers)
  BY LinksByPosition DEF FileInv
<1>2. CASE u = v
  <2>1. Joins(u, u) = {}
    BY <1>1, NeighboursAreJoined DEF ConnectsToItself
  <2> QED
    BY <1>2, <2>1, FS_EmptySet
<1>3. CASE u # v
  <2>1. \A i, j \in Joins(u, v) : i = j
    BY DEF Joins, MoreThanOneLink
  <2> QED
    BY <1>3, <2>1, JoinsFinite, AtMostOne
<1> QED
  BY <1>2, <1>3

-----------------------------------------------------------------------------
(* The file is read and validated.                                         *)

LEMMA InitInv ==
  Init => TopologyInv
<1> SUFFICES ASSUME Init PROVE TopologyInv
  OBVIOUS
<1> USE DEF Init
<1>1. /\ <<>> \in Seq(LinksOfFile) /\ <<>> \in Seq(RouterIds) /\ <<>> \in Seq(Neighbours(Range(links)))
      /\ Range(<<>>) = {} /\ Len(<<>>) = 0 /\ IsInjective(<<>>)
  BY EmptySeq, RangeByPosition
<1>2. TypeOK
  BY <1>1 DEF TypeOK, LinksOfFile, Neighbours
<1>3. Mentioned = {} /\ 1 .. Len(links) = {}
  BY <1>1 DEF Mentioned
<1>4. FileInv
  BY <1>1, <1>3 DEF FileInv
<1> QED
  BY <1>2, <1>4 DEF TopologyInv, ParsedInv, ValidatedInv, SearchInv, AcceptsExactlySound

LEMMA ParseLinkInv ==
  ASSUME TopologyInv, ParseLink
  PROVE  TopologyInv'
<1> USE DEF ParseLink
<1>1. PICK key \in Keys \ {links[i].key : i \in 1 .. Len(links)}, r1 \in RouterIds, r2 \in RouterIds, cost \in Costs :
        LET link == [key |-> key, id |-> IntOf[key], ends |-> <<r1, r2>>, cost |-> cost]
        IN /\ links' = Append(links, link)
           /\ routers' = WithRouter(WithRouter(routers, r1), r2)
           /\ neighbours' = Connect(link)
  OBVIOUS
<1> DEFINE link == [key |-> key, id |-> IntOf[key], ends |-> <<r1, r2>>, cost |-> cost]
<1>2. IntOf[key] \in Range(IntOf)
  BY FileAssumption DEF Range
<1>3. /\ link \in LinksOfFile /\ link.ends = <<r1, r2>> /\ link.ends \in RouterIds \X RouterIds /\ link.key = key
      /\ link.id = IntOf[key]
  BY <1>2 DEF LinksOfFile
<1>4. /\ links' = Append(links, link)
      /\ routers' = WithRouter(WithRouter(routers, r1), r2)
      /\ neighbours' = Connect(link)
  BY <1>1
<1> HIDE DEF link
<1>5. TypeOK /\ FileInv /\ links \in Seq(LinksOfFile) /\ Len(links) \in Nat
  BY LenProperties DEF TopologyInv, TypeOK, LinksOfFile
<1>6. /\ links' \in Seq(LinksOfFile)
      /\ Len(links') = Len(links) + 1
      /\ \A i \in 1 .. Len(links) : links'[i] = links[i]
      /\ links'[Len(links) + 1] = link
      /\ Range(links') = Range(links) \cup {link}
  BY <1>3, <1>4, <1>5, AppendResult, ListAppend
<1>7. \A i \in 1 .. Len(links') : i \in 1 .. Len(links) \/ i = Len(links) + 1
  BY <1>5, <1>6
<1>8. Len(links) + 1 \in 1 .. Len(links') /\ \A i \in 1 .. Len(links) : i \in 1 .. Len(links')
  BY <1>5, <1>6
<1>9. Range(link.ends) = {r1, r2}
  BY <1>3, PairRange
<1>10. Mentioned' = Mentioned \cup {r1, r2}
  <2>1. ASSUME NEW x \in Mentioned' PROVE x \in Mentioned \cup {r1, r2}
    <3>1. PICK i \in 1 .. Len(links') : x \in Range(links'[i].ends)
      BY <2>1 DEF Mentioned
    <3> QED
      BY <1>6, <1>7, <1>9, <3>1 DEF Mentioned
  <2>2. ASSUME NEW x \in Mentioned PROVE x \in Mentioned'
    <3>1. PICK i \in 1 .. Len(links) : x \in Range(links[i].ends)
      BY <2>2 DEF Mentioned
    <3> QED
      BY <1>6, <1>8, <3>1 DEF Mentioned
  <2>3. {r1, r2} \subseteq Mentioned'
    BY <1>6, <1>8, <1>9 DEF Mentioned
  <2> QED
    BY <2>1, <2>2, <2>3
<1>11. routers' \in Seq(RouterIds) /\ IsInjective(routers') /\ Range(routers') = Range(routers) \cup {r1, r2}
  <2>1. routers \in Seq(RouterIds) /\ IsInjective(routers)
    BY <1>5 DEF TypeOK, FileInv
  <2> DEFINE rs == WithRouter(routers, r1)
  <2>2. rs \in Seq(RouterIds) /\ IsInjective(rs) /\ Range(rs) = Range(routers) \cup {r1}
    BY <2>1, WithRouterResult
  <2> HIDE DEF rs
  <2>3. /\ WithRouter(rs, r2) \in Seq(RouterIds) /\ IsInjective(WithRouter(rs, r2))
        /\ Range(WithRouter(rs, r2)) = Range(rs) \cup {r2}
    BY <2>2, WithRouterResult
  <2> QED
    BY <1>4, <2>2, <2>3 DEF rs
<1> DEFINE T == Range(links')
<1>12. \A q : q \in Seq(Neighbours(Range(links))) => q \in Seq(Neighbours(T))
  <2>1. Neighbours(Range(links)) \subseteq Neighbours(T)
    BY <1>6 DEF Neighbours
  <2> QED
    BY <2>1, ListOfMore
<1>13. neighbours \in [RouterIds -> Seq(Neighbours(T))] /\ neighbours_left \in Seq(Neighbours(T)) /\ link \in T
  BY <1>5, <1>6, <1>12 DEF TypeOK, Neighbours
<1> HIDE DEF T
<1>14. /\ neighbours' \in [RouterIds -> Seq(Neighbours(T))]
       /\ \A r \in RouterIds : Range(neighbours'[r]) = Range(neighbours[r]) \cup Added(link, r)
  BY <1>3, <1>4, <1>13, ConnectResult
<1>15. TypeOK'
  BY <1>5, <1>6, <1>11, <1>13, <1>14 DEF TypeOK, LinksOfFile, Neighbours, search, T
<1>16. FileInv'
  <2>1. ASSUME NEW i \in 1 .. Len(links'), NEW j \in 1 .. Len(links'), links'[i].key = links'[j].key
        PROVE  i = j
    <3>1. \A k \in 1 .. Len(links) : links[k].key # link.key
      BY <1>3
    <3> QED
      BY <1>5, <1>6, <1>7, <2>1, <3>1 DEF FileInv
  <2>2. Range(routers') = Mentioned'
    BY <1>5, <1>10, <1>11 DEF FileInv
  <2>3. ASSUME NEW r \in RouterIds, NEW n \in Range(neighbours'[r])
        PROVE  n.link.ends \in {<<r, n.id>>, <<n.id, r>>}
    <3>1. CASE n \in Range(neighbours[r])
      BY <1>5, <3>1 DEF FileInv
    <3>2. CASE n \in Added(link, r)
      BY <3>2 DEF Added
    <3> QED
      BY <1>14, <2>3, <3>1, <3>2
  <2>4. ASSUME NEW l \in Range(links'), NEW r \in RouterIds, NEW other \in RouterIds,
               l.ends \in {<<r, other>>, <<other, r>>}
        PROVE  [id |-> other, link |-> l] \in Range(neighbours'[r])
    <3>1. CASE l \in Range(links)
      BY <1>5, <1>14, <2>4, <3>1 DEF FileInv
    <3>2. CASE l = link
      BY <1>14, <2>4, <3>2, ZenonT(30) DEF Added
    <3> QED
      BY <1>6, <3>1, <3>2
  <2> QED
    BY <1>11, <2>1, <2>2, <2>3, <2>4 DEF FileInv
<1>17. pc' = "parse"
  OBVIOUS
<1> QED
  BY <1>15, <1>16, <1>17 DEF TopologyInv, ParsedInv, ValidatedInv, SearchInv, AcceptsExactlySound, search

\* After the file has been read, its links and lists stay what they are.
LEMMA FileStays ==
  ASSUME TypeOK, FileInv, UNCHANGED <<links, routers, neighbours>>
  PROVE  /\ FileInv'
         /\ Mentioned' = Mentioned
         /\ ConnectsToItself' = ConnectsToItself
         /\ MoreThanOneLink' = MoreThanOneLink
         /\ Sound' = Sound
         /\ \A part : Closed(part)' = Closed(part)
<1>1. Mentioned' = Mentioned /\ \A u, v : Joins(u, v)' = Joins(u, v)
  BY DEF Mentioned, Joins
<1>2. FileInv'
  BY <1>1 DEF FileInv
<1>3. ConnectsToItself' = ConnectsToItself /\ MoreThanOneLink' = MoreThanOneLink
  BY DEF ConnectsToItself, MoreThanOneLink
<1>4. Sound' = Sound
  BY <1>1 DEF Sound
<1>5. \A part : Closed(part)' = Closed(part)
  BY DEF Closed
<1> QED
  BY <1>1, <1>2, <1>3, <1>4, <1>5

\* The first router is one of the file.
LEMMA FirstRouter ==
  ASSUME TypeOK, FileInv, links # <<>>
  PROVE  routers[1] \in RouterIds /\ routers[1] \in Mentioned /\ <<routers[1]>> \in Seq(RouterIds)
<1>1. links \in Seq(LinksOfFile) /\ Len(links) \in Nat
  BY LenProperties DEF TypeOK, LinksOfFile
<1>2. Len(links) # 0
  BY <1>1, EmptySeq
<1>3. 1 \in 1 .. Len(links)
  BY <1>1, <1>2
<1>4. PICK u \in RouterIds, v \in RouterIds : Range(links[1].ends) = {u, v}
  BY <1>3, LinksByPosition
<1>5. Mentioned # {}
  BY <1>3, <1>4 DEF Mentioned
<1>6. Range(routers) # {} /\ routers \in Seq(RouterIds) /\ Range(routers) = Mentioned
  BY <1>5 DEF FileInv, TypeOK
<1>7. PICK i \in 1 .. Len(routers) : TRUE
  BY <1>6, RangeByPosition
<1>8. 1 \in 1 .. Len(routers)
  BY <1>6, <1>7, LenProperties
<1>9. routers[1] \in Range(routers) /\ routers[1] \in RouterIds
  BY <1>6, <1>8, RangeByPosition
<1> QED
  BY <1>6, <1>9

LEMMA ValidateInv ==
  ASSUME TopologyInv, Validate
  PROVE  TopologyInv'
<1> USE DEF Validate
<1>1. TypeOK /\ FileInv /\ UNCHANGED <<links, routers, neighbours>> /\ pc = "parse"
  BY DEF TopologyInv
<1>2. FileInv' /\ ConnectsToItself' = ConnectsToItself /\ MoreThanOneLink' = MoreThanOneLink
      /\ Sound' = Sound /\ Mentioned' = Mentioned
  BY <1>1, FileStays
<1>3. CASE /\ links = <<>> \/ ConnectsToItself \/ MoreThanOneLink
           /\ pc' = "rejected"
           /\ UNCHANGED search
  <2>1. TypeOK'
    BY <1>1, <1>3 DEF TypeOK, search
  <2>2. ~Sound
    BY <1>1, <1>3, RefusedIsUnsound
  <2> QED
    BY <1>2, <1>3, <2>1, <2>2 DEF TopologyInv, ParsedInv, ValidatedInv, SearchInv, AcceptsExactlySound
<1>4. CASE /\ links # <<>> /\ ~ConnectsToItself /\ ~MoreThanOneLink
           /\ pc' = "visit"
           /\ to_be_visited' = <<routers[1]>>
           /\ UNCHANGED <<visited, to_be_visited_temp, neighbours_left>>
  <2>1. routers[1] \in RouterIds /\ routers[1] \in Mentioned /\ <<routers[1]>> \in Seq(RouterIds)
    BY <1>1, <1>4, FirstRouter
  <2>2. TypeOK'
    BY <1>1, <1>4, <2>1 DEF TypeOK
  <2>3. ValidatedInv'
    BY <1>1, <1>2, <1>4 DEF ValidatedInv
  <2>4. visited = <<>> /\ to_be_visited_temp = <<>> /\ neighbours_left = <<>>
    BY <1>1 DEF TopologyInv, ParsedInv
  <2>5. Range(<<>>) = {} /\ IsInjective(<<>>)
    BY EmptySeq, RangeByPosition
  <2>6. Range(<<routers[1]>>) = {routers[1]} /\ IsInjective(<<routers[1]>>)
    BY <2>1, SingleRange
  <2>7. Found' = {routers[1]}
    BY <1>4, <2>4, <2>5, <2>6 DEF Found
  <2>8. SearchInv'
    BY <1>1, <1>2, <1>4, <2>1, <2>4, <2>5, <2>6, <2>7 DEF SearchInv
  <2> QED
    BY <1>2, <1>4, <2>2, <2>3, <2>8 DEF TopologyInv, AcceptsExactlySound, ParsedInv
<1> QED
  BY <1>3, <1>4

-----------------------------------------------------------------------------
(* The search.                                                             *)

LEMMA VisitInv ==
  ASSUME TopologyInv, Visit
  PROVE  TopologyInv'
<1> USE DEF Visit
<1>1. /\ TypeOK /\ FileInv /\ ValidatedInv /\ SearchInv
      /\ UNCHANGED <<links, routers, neighbours>> /\ pc = "visit" /\ pc' = "visit"
  BY DEF TopologyInv
<1>2. FileInv' /\ ConnectsToItself' = ConnectsToItself /\ MoreThanOneLink' = MoreThanOneLink
      /\ Mentioned' = Mentioned /\ \A part : Closed(part)' = Closed(part)
  BY <1>1, FileStays
<1> DEFINE h == Head(to_be_visited)
<1>3. visited \in Seq(RouterIds) /\ to_be_visited \in Seq(RouterIds) /\ to_be_visited # <<>>
  BY <1>1 DEF TypeOK
<1>4. /\ IsInjective(visited) /\ IsInjective(to_be_visited)
      /\ Range(visited) \cap Range(to_be_visited) = {}
  BY <1>1 DEF SearchInv
<1>5. /\ to_be_visited' \in Seq(RouterIds) /\ h \in RouterIds
      /\ Range(to_be_visited) = {h} \cup Range(to_be_visited')
      /\ IsInjective(to_be_visited') /\ h \notin Range(to_be_visited')
  BY <1>3, <1>4, ListTail
<1>6. visited' = Append(visited, h) /\ neighbours_left' = neighbours[h] /\ neighbours_left = <<>>
      /\ to_be_visited_temp' = to_be_visited_temp
  OBVIOUS
<1> HIDE DEF h
<1>7. /\ visited' \in Seq(RouterIds)
      /\ Range(visited') = Range(visited) \cup {h}
      /\ IsInjective(visited')
  BY <1>3, <1>4, <1>5, <1>6, ListAppend
<1>8. Found' = Found
  BY <1>5, <1>6, <1>7 DEF Found
<1>9. TypeOK'
  BY <1>1, <1>5, <1>6, <1>7 DEF TypeOK
<1>10. Range(<<>>) = {}
  BY EmptySeq, RangeByPosition
<1>11. \A r \in Range(visited') : \A n \in Range(neighbours'[r]) :
         n.id \in Found' \/ n \in Range(neighbours_left')
  BY <1>1, <1>6, <1>7, <1>8, <1>10 DEF SearchInv
<1>12. \A n \in Range(neighbours_left') : \E r \in Range(visited') : n \in Range(neighbours'[r])
  BY <1>1, <1>6, <1>7
<1>13. SearchInv'
  BY <1>1, <1>2, <1>4, <1>5, <1>6, <1>7, <1>8, <1>11, <1>12 DEF SearchInv
<1> QED
  BY <1>1, <1>2, <1>9, <1>13 DEF TopologyInv, ValidatedInv, AcceptsExactlySound, ParsedInv

LEMMA LookInv ==
  ASSUME TopologyInv, Look
  PROVE  TopologyInv'
<1> USE DEF Look
<1>1. /\ TypeOK /\ FileInv /\ ValidatedInv /\ SearchInv
      /\ UNCHANGED <<links, routers, neighbours>> /\ pc = "visit" /\ pc' = "visit"
      /\ UNCHANGED <<visited, to_be_visited>>
  BY DEF TopologyInv
<1>2. FileInv' /\ ConnectsToItself' = ConnectsToItself /\ MoreThanOneLink' = MoreThanOneLink
      /\ Mentioned' = Mentioned /\ \A part : Closed(part)' = Closed(part)
  BY <1>1, FileStays
<1> DEFINE h == Head(neighbours_left)
<1>3. neighbours_left \in Seq(Neighbours(Range(links))) /\ neighbours_left # <<>>
  BY <1>1 DEF TypeOK, Neighbours
<1>4. /\ neighbours_left' \in Seq(Neighbours(Range(links))) /\ h \in Neighbours(Range(links))
      /\ Range(neighbours_left) = {h} \cup Range(neighbours_left')
  BY <1>3, ListTail
<1>5. to_be_visited_temp' = IF New(h.id) THEN Append(to_be_visited_temp, h.id) ELSE to_be_visited_temp
  OBVIOUS
<1> HIDE DEF h
<1>6. PICK r \in Range(visited) : h \in Range(neighbours[r])
  BY <1>1, <1>4 DEF SearchInv
<1>7. visited \in Seq(RouterIds) /\ r \in RouterIds /\ r \in Found
  BY <1>6, <1>1, RangeByPosition DEF TypeOK, Found
<1>8. h.id \in RouterIds /\ h.id \in Mentioned
  BY <1>1, <1>4, <1>6, <1>7, NeighboursAreJoined DEF Neighbours
<1>9. /\ to_be_visited_temp' \in Seq(RouterIds) /\ IsInjective(to_be_visited_temp')
      /\ \/ to_be_visited_temp' = to_be_visited_temp /\ h.id \in Found
         \/ Range(to_be_visited_temp') = Range(to_be_visited_temp) \cup {h.id} /\ h.id \notin Found
  <2>1. to_be_visited_temp \in Seq(RouterIds) /\ IsInjective(to_be_visited_temp)
    BY <1>1 DEF TypeOK, SearchInv
  <2>2. New(h.id) <=> h.id \notin Found
    BY DEF New, Found
  <2>3. CASE New(h.id)
    BY <1>5, <1>8, <2>1, <2>2, <2>3, ListAppend DEF Found
  <2>4. CASE ~New(h.id)
    BY <1>5, <2>1, <2>2, <2>4
  <2> QED
    BY <2>3, <2>4
<1>10. Found' = Found \cup {h.id}
  BY <1>1, <1>9 DEF Found
<1>11. TypeOK'
  BY <1>1, <1>4, <1>9 DEF TypeOK, Neighbours
<1>12. \A part \in SUBSET Mentioned : routers[1] \in part /\ Closed(part) => Found' \subseteq part
  <2>1. ASSUME NEW part \in SUBSET Mentioned, routers[1] \in part, Closed(part)
        PROVE  Found' \subseteq part
    <3>1. Found \subseteq part
      BY <1>1, <2>1 DEF SearchInv
    <3>2. h.id \in part
      BY <1>6, <1>7, <2>1, <3>1 DEF Closed
    <3> QED
      BY <1>10, <3>1, <3>2
  <2> QED
    BY <2>1
<1>13. \A r1 \in Range(visited) : \A n \in Range(neighbours[r1]) :
         n.id \in Found' \/ n \in Range(neighbours_left')
  BY <1>1, <1>4, <1>10 DEF SearchInv
<1>14. SearchInv'
  <2>1. /\ IsInjective(visited) /\ IsInjective(to_be_visited)
        /\ Range(visited) \cap Range(to_be_visited) = {}
        /\ Found \subseteq Mentioned /\ routers[1] \in Found
    BY <1>1 DEF SearchInv
  <2>2. /\ Range(visited) \cap Range(to_be_visited_temp') = {}
        /\ Range(to_be_visited) \cap Range(to_be_visited_temp') = {}
    BY <1>1, <1>9 DEF SearchInv, Found
  <2>3. \A n \in Range(neighbours_left') : \E r1 \in Range(visited) : n \in Range(neighbours[r1])
    BY <1>1, <1>4 DEF SearchInv
  <2> QED
    BY <1>1, <1>2, <1>8, <1>9, <1>10, <1>12, <1>13, <2>1, <2>2, <2>3 DEF SearchInv
<1> QED
  BY <1>1, <1>2, <1>11, <1>14 DEF TopologyInv, ValidatedInv, AcceptsExactlySound, ParsedInv

LEMMA NextRoundInv ==
  ASSUME TopologyInv, NextRound
  PROVE  TopologyInv'
<1> USE DEF NextRound
<1>1. /\ TypeOK /\ FileInv /\ ValidatedInv /\ SearchInv
      /\ UNCHANGED <<links, routers, neighbours>> /\ pc = "visit" /\ pc' = "visit"
      /\ UNCHANGED <<visited, neighbours_left>>
  BY DEF TopologyInv
<1>2. FileInv' /\ ConnectsToItself' = ConnectsToItself /\ MoreThanOneLink' = MoreThanOneLink
      /\ Mentioned' = Mentioned /\ \A part : Closed(part)' = Closed(part)
  BY <1>1, FileStays
<1>3. Range(<<>>) = {} /\ IsInjective(<<>>) /\ <<>> \in Seq(RouterIds)
  BY EmptySeq, RangeByPosition
<1>4. to_be_visited = <<>> /\ to_be_visited_temp' = <<>> /\ to_be_visited' = to_be_visited_temp
  OBVIOUS
<1>5. Found' = Found
  BY <1>1, <1>3, <1>4 DEF Found
<1>6. TypeOK'
  BY <1>1, <1>3, <1>4 DEF TypeOK
<1>7. SearchInv'
  BY <1>1, <1>2, <1>3, <1>4, <1>5 DEF SearchInv
<1> QED
  BY <1>1, <1>2, <1>6, <1>7 DEF TopologyInv, ValidatedInv, AcceptsExactlySound, ParsedInv

\* If all routers have been visited there is no way to part them: what is on one
\* side of a parting that no link crosses would be closed, and hold all that was
\* found from the first router, or so would the other side. If some have not been,
\* those that have are such a side.
LEMMA EndOfSearchInv ==
  ASSUME TopologyInv, EndOfSearch
  PROVE  TopologyInv'
<1> USE DEF EndOfSearch
<1>1. /\ TypeOK /\ FileInv /\ ValidatedInv /\ SearchInv
      /\ UNCHANGED <<links, routers, neighbours, search>> /\ pc = "visit" /\ pc' \in {"accepted", "rejected"}
  BY DEF TopologyInv
<1>2. FileInv' /\ ConnectsToItself' = ConnectsToItself /\ MoreThanOneLink' = MoreThanOneLink /\ Sound' = Sound
  BY <1>1, FileStays
<1>3. Range(<<>>) = {}
  BY EmptySeq, RangeByPosition
<1>4. Found = Range(visited)
  BY <1>3 DEF Found
<1>5. /\ visited \in Seq(RouterIds) /\ IsInjective(visited) /\ routers \in Seq(RouterIds) /\ IsInjective(routers)
      /\ Range(visited) \subseteq Mentioned /\ Range(routers) = Mentioned /\ routers[1] \in Range(visited)
      /\ Mentioned \subseteq RouterIds
  BY <1>1, <1>4, LinksByPosition DEF TypeOK, FileInv, SearchInv
<1>6. /\ \A part \in SUBSET Mentioned : routers[1] \in part /\ Closed(part) => Range(visited) \subseteq part
      /\ Closed(Range(visited))
  BY <1>1, <1>3, <1>4 DEF SearchInv, Closed
<1>7. Len(visited) = Len(routers) <=> Range(visited) = Mentioned
  <2>1. /\ IsFiniteSet(Range(visited)) /\ Cardinality(Range(visited)) = Len(visited)
        /\ IsFiniteSet(Mentioned) /\ Cardinality(Mentioned) = Len(routers)
    BY <1>5, ListCardinality
  <2>2. Range(visited) \in SUBSET Mentioned
    BY <1>5
  <2>3. Cardinality(Range(visited)) = Cardinality(Mentioned) => Range(visited) = Mentioned
    BY <2>1, <2>2, FS_Subset
  <2> QED
    BY <2>1, <2>3
<1>8. \A u, v \in RouterIds : Joins(u, v) # {} => \E n \in Range(neighbours[u]) : n.id = v
  BY <1>1, NeighboursAreJoined
<1>9. ASSUME Range(visited) = Mentioned PROVE Sound
  <2>1. links # <<>> /\ ~ConnectsToItself /\ ~MoreThanOneLink
    BY <1>1 DEF ValidatedInv
  <2>2. \A u, v \in Mentioned : Cardinality(Joins(u, v)) <= IF u = v THEN 0 ELSE 1
    BY <1>1, <2>1, PassedHasSingleLinks
  <2>3. ASSUME NEW part \in SUBSET Mentioned, part # {}, part # Mentioned,
               \A u \in part, v \in Mentioned \ part : Joins(u, v) = {}
        PROVE  FALSE
    <3>1. ASSUME NEW r \in part, NEW n \in Range(neighbours[r]) PROVE n.id \in part
      BY <1>1, <1>5, <2>3, <3>1, NeighboursAreJoined
    <3>2. ASSUME NEW r \in Mentioned \ part, NEW n \in Range(neighbours[r]) PROVE n.id \in Mentioned \ part
      BY <1>1, <1>5, <2>3, <3>2, NeighboursAreJoined
    <3>3. Closed(part) /\ Closed(Mentioned \ part)
      BY <3>1, <3>2 DEF Closed
    <3>4. routers[1] \in part \/ routers[1] \in Mentioned \ part
      BY <1>5
    <3>5. Mentioned \subseteq part \/ Mentioned \subseteq Mentioned \ part
      BY <1>6, <1>9, <3>3, <3>4
    <3> QED
      BY <2>3, <3>5
  <2> QED
    BY <2>1, <2>2, <2>3 DEF Sound
<1>10. ASSUME Sound PROVE Range(visited) = Mentioned
  <2>1. SUFFICES ASSUME Range(visited) # Mentioned PROVE FALSE
    OBVIOUS
  <2>2. Range(visited) \in SUBSET Mentioned /\ Range(visited) # {}
    BY <1>5
  <2>3. PICK u \in Range(visited), v \in Mentioned \ Range(visited) : Joins(u, v) # {}
    BY <1>10, <2>1, <2>2 DEF Sound
  <2>4. \E n \in Range(neighbours[u]) : n.id = v
    BY <1>5, <1>8, <2>3
  <2> QED
    BY <1>6, <2>3, <2>4 DEF Closed
<1>11. TypeOK'
  BY <1>1 DEF TypeOK, search
<1>12. AcceptsExactlySound'
  BY <1>2, <1>7, <1>9, <1>10 DEF AcceptsExactlySound
<1> QED
  BY <1>1, <1>2, <1>11, <1>12 DEF TopologyInv, ParsedInv, ValidatedInv, SearchInv

-----------------------------------------------------------------------------
LEMMA StepInv ==
  TopologyInv /\ [Next]_vars => TopologyInv'
<1> SUFFICES ASSUME TopologyInv, [Next]_vars PROVE TopologyInv'
  OBVIOUS
<1>1. CASE ParseLink
  BY <1>1, ParseLinkInv
<1>2. CASE Validate
  BY <1>2, ValidateInv
<1>3. CASE Visit
  BY <1>3, VisitInv
<1>4. CASE Look
  BY <1>4, LookInv
<1>5. CASE NextRound
  BY <1>5, NextRoundInv
<1>6. CASE EndOfSearch
  BY <1>6, EndOfSearchInv
<1>7. CASE UNCHANGED vars
  <2>1. /\ TypeOK /\ FileInv /\ UNCHANGED <<links, routers, neighbours>>
        /\ UNCHANGED <<pc, visited, to_be_visited, to_be_visited_temp, neighbours_left>>
    BY <1>7 DEF TopologyInv, vars, search
  <2>2. FileInv' /\ ConnectsToItself' = ConnectsToItself /\ MoreThanOneLink' = MoreThanOneLink
        /\ Sound' = Sound /\ Mentioned' = Mentioned /\ \A part : Closed(part)' = Closed(part)
    BY <2>1, FileStays
  <2>3. TypeOK'
    BY <2>1 DEF TypeOK
  <2>4. Found' = Found
    BY <2>1 DEF Found
  <2>5. SearchInv'
    BY <2>1, <2>2, <2>4 DEF TopologyInv, SearchInv
  <2>6. ParsedInv' /\ ValidatedInv' /\ AcceptsExactlySound'
    BY <2>1, <2>2 DEF TopologyInv, ParsedInv, ValidatedInv, AcceptsExactlySound
  <2> QED
    BY <2>2, <2>3, <2>5, <2>6 DEF TopologyInv
<1> QED
  BY <1>1, <1>2, <1>3, <1>4, <1>5, <1>6, <1>7 DEF Next

\* At every moment the lists of neighbours say what the links read so far say, and
\* the search has found nobody twice, only whom it can reach, and of those visited
\* all the neighbours it has looked at.
THEOREM Invariance == Spec => []TopologyInv
BY InitInv, StepInv, PTL DEF Spec

\* Topology.validate accepts a file of any size exactly if at most one link joins
\* two routers, none joins a router to itself and no parting of the routers is
\* without a link across it.
THEOREM AcceptsTheSound == Spec => []AcceptsExactlySound
<1>1. TopologyInv => AcceptsExactlySound
  BY DEF TopologyInv
<1> QED
  BY Invariance, <1>1, PTL

\* In an accepted file whose link ids are different numbers, the id of a link leads
\* from the list of a router to one neighbour, and back.
THEOREM LinksAreTwoWay == Spec => []LinksLeadBack
<1>1. ASSUME TopologyInv PROVE LinksLeadBack
  <2>1. SUFFICES ASSUME \A i, j \in 1 .. Len(links) : links[i].id = links[j].id => i = j,
                        NEW r \in Range(routers), NEW n \in Range(neighbours[r])
                 PROVE  /\ \A m \in Range(neighbours[r]) : m.link.id = n.link.id => m = n
                        /\ \E back \in Range(neighbours[n.id]) : back.link = n.link /\ back.id = r
    BY DEF LinksLeadBack
  <2>2. TypeOK /\ FileInv /\ r \in RouterIds
    BY <1>1, <2>1, RangeByPosition DEF TopologyInv, TypeOK
  <2>3. \A m \in Range(neighbours[r]) :
          /\ m \in Neighbours(Range(links))
          /\ m.link.ends \in {<<r, m.id>>, <<m.id, r>>}
    BY <2>2, NeighboursAreJoined DEF FileInv
  <2>4. ASSUME NEW m \in Range(neighbours[r]), m.link.id = n.link.id PROVE m = n
    <3>1. m.link \in Range(links) /\ n.link \in Range(links)
      BY <2>1, <2>3, <2>4 DEF Neighbours
    <3>2. PICK i \in 1 .. Len(links), j \in 1 .. Len(links) : links[i] = m.link /\ links[j] = n.link
      BY <2>2, <3>1, LinksByPosition
    <3>3. m.link = n.link
      BY <2>1, <2>4, <3>2
    <3>4. m.id = n.id
      BY <2>1, <2>3, <3>3
    <3> QED
      BY <2>1, <2>3, <3>3, <3>4 DEF Neighbours
  <2>5. [id |-> r, link |-> n.link] \in Range(neighbours[n.id])
    BY <2>1, <2>2, <2>3 DEF FileInv, Neighbours
  <2> QED
    BY <2>4, <2>5
<1> QED
  BY Invariance, <1>1, PTL

\* Where different links have different ids, an id stands for its link.
LEMMA IdsResult ==
  ASSUME TypeOK, \A i, j \in 1 .. Len(links) : links[i].id = links[j].id => i = j
  PROVE  \A i \in 1 .. Len(links) :
           links[i].id \in Ids /\ LinkOf(links[i].id) = links[i]
           /\ EndsOf[links[i].id] = Range(links[i].ends)
<1> SUFFICES ASSUME NEW i \in 1 .. Len(links)
             PROVE  links[i].id \in Ids /\ LinkOf(links[i].id) = links[i]
                    /\ EndsOf[links[i].id] = Range(links[i].ends)
  OBVIOUS
<1>1. links[i].id \in Ids
  BY DEF Ids
<1>2. LinkOf(links[i].id) \in Range(links) /\ LinkOf(links[i].id).id = links[i].id
  BY LinksByPosition DEF LinkOf
<1>3. PICK j \in 1 .. Len(links) : links[j] = LinkOf(links[i].id)
  BY <1>2, LinksByPosition
<1>4. LinkOf(links[i].id) = links[i]
  BY <1>2, <1>3
<1> QED
  BY <1>1, <1>4 DEF EndsOf

\* What Topology accepts is what LinkState takes for granted.
THEOREM AcceptedIsAssumed == Spec => []AcceptedIsNetwork
<1>1. ASSUME TopologyInv PROVE AcceptedIsNetwork
  <2> SUFFICES ASSUME pc = "accepted",
                      \A i, j \in 1 .. Len(links) : links[i].id = links[j].id => i = j
               PROVE  /\ IsNetwork(Range(routers), Ids, EndsOf)
                      /\ \A r \in Range(routers) :
                           {n.link.id : n \in Range(neighbours[r])} = {id \in Ids : r \in EndsOf[id]}
    BY DEF AcceptedIsNetwork
  <2>0. TypeOK /\ FileInv /\ Sound /\ Range(routers) = Mentioned
    BY <1>1 DEF TopologyInv, FileInv, AcceptsExactlySound
  <2>1. /\ \A i \in 1 .. Len(links) :
             links[i].id \in Ids /\ EndsOf[links[i].id] = Range(links[i].ends)
        /\ \A id \in Ids : \E i \in 1 .. Len(links) : links[i].id = id
    BY <2>0, IdsResult DEF Ids
  <2>2. IsFiniteSet(Mentioned)
    BY <2>0, ListCardinality DEF TypeOK, FileInv
  <2>3. \A i \in 1 .. Len(links) : Range(links[i].ends) \subseteq Mentioned
    BY DEF Mentioned
  <2>4. EndsOf \in [Ids -> SUBSET Mentioned]
    <3>1. \A id \in Ids : EndsOf[id] \subseteq Mentioned
      BY <2>1, <2>3
    <3> QED
      BY <3>1 DEF EndsOf
  <2>5. ASSUME NEW i \in 1 .. Len(links)
        PROVE  \E u, v \in Mentioned : u # v /\ Range(links[i].ends) = {u, v}
    <3>1. PICK u, v \in RouterIds : Range(links[i].ends) = {u, v}
      BY <2>0, LinksByPosition
    <3>2. i \in Joins(u, v) /\ u \in Mentioned /\ v \in Mentioned
      BY <2>3, <3>1 DEF Joins
    <3>3. ASSUME u = v PROVE FALSE
      <4>1. Cardinality(Joins(u, v)) <= 0
        BY <2>0, <3>2, <3>3 DEF Sound
      <4>2. IsFiniteSet(Joins(u, v)) /\ Cardinality(Joins(u, v)) = 0
        BY <2>0, <4>1, JoinsFinite
      <4> QED
        BY <3>2, <4>2, FS_EmptySet
    <3> QED
      BY <3>1, <3>2, <3>3
  <2>6. ASSUME NEW k \in Ids, NEW l \in Ids, EndsOf[k] = EndsOf[l] PROVE k = l
    <3>1. PICK i \in 1 .. Len(links), j \in 1 .. Len(links) : links[i].id = k /\ links[j].id = l
      BY <2>1
    <3>2. Range(links[i].ends) = Range(links[j].ends)
      BY <2>1, <2>6, <3>1
    <3>3. PICK u, v \in Mentioned : u # v /\ Range(links[i].ends) = {u, v}
      BY <2>5
    <3>4. i \in Joins(u, v) /\ j \in Joins(u, v)
      BY <3>2, <3>3 DEF Joins
    <3>5. Cardinality(Joins(u, v)) <= 1
      BY <2>0, <3>3 DEF Sound
    <3>6. i = j
      BY <2>0, <3>4, <3>5, JoinsFinite, AtMostOne
    <3> QED
      BY <3>1, <3>6
  <2>7. ASSUME NEW part \in SUBSET Mentioned, part \notin {{}, Mentioned}
        PROVE  \E l \in Ids : EndsOf[l] \cap part # {} /\ ~ EndsOf[l] \subseteq part
    <3>1. PICK u \in part, v \in Mentioned \ part : Joins(u, v) # {}
      BY <2>0, <2>7 DEF Sound
    <3>2. PICK i \in 1 .. Len(links) : Range(links[i].ends) = {u, v}
      BY <3>1 DEF Joins
    <3>3. links[i].id \in Ids /\ EndsOf[links[i].id] = {u, v}
      BY <2>1, <3>2
    <3> QED
      BY <3>1, <3>3
  <2>8. ASSUME NEW l \in Ids PROVE \E u, v \in Mentioned : u # v /\ EndsOf[l] = {u, v}
    <3>1. PICK i \in 1 .. Len(links) : links[i].id = l
      BY <2>1
    <3>2. EndsOf[l] = Range(links[i].ends)
      BY <2>1, <3>1
    <3> QED
      BY <2>5, <3>2
  <2>9. IsNetwork(Mentioned, Ids, EndsOf)
    BY <2>2, <2>4, <2>6, <2>7, <2>8 DEF IsNetwork
  <2>10. ASSUME NEW r \in Mentioned
         PROVE  {n.link.id : n \in Range(neighbours[r])} = {id \in Ids : r \in EndsOf[id]}
    <3>0. r \in RouterIds
      BY <2>0, LinksByPosition
    <3>1. ASSUME NEW n \in Range(neighbours[r]) PROVE n.link.id \in Ids /\ r \in EndsOf[n.link.id]
      <4>1. /\ n \in Neighbours(Range(links))
            /\ n.link.ends \in {<<r, n.id>>, <<n.id, r>>}
        BY <2>0, <3>0, <3>1, NeighboursAreJoined DEF FileInv
      <4>2. n.link \in Range(links) /\ n.id \in RouterIds
        BY <4>1 DEF Neighbours
      <4>3. PICK i \in 1 .. Len(links) : links[i] = n.link
        BY <2>0, <4>2, LinksByPosition
      <4>4. r \in Range(n.link.ends)
        BY <3>0, <4>1, <4>2, PairRange
      <4> QED
        BY <2>1, <4>3, <4>4
    <3>2. ASSUME NEW id \in Ids, r \in EndsOf[id]
          PROVE  \E n \in Range(neighbours[r]) : n.link.id = id
      <4>1. PICK i \in 1 .. Len(links) : links[i].id = id
        BY <2>1
      <4>2. PICK u, v \in RouterIds : links[i].ends = <<u, v>> /\ Range(links[i].ends) = {u, v}
        BY <2>0, LinksByPosition
      <4>3. EndsOf[id] = {u, v}
        BY <2>1, <4>1, <4>2
      <4>4. links[i] \in Range(links)
        BY <2>0, LinksByPosition
      <4>5. links[i] \in Range(links) /\ (r = u \/ r = v)
        BY <3>2, <4>3, <4>4
      <4>6. \E other \in RouterIds : links[i].ends \in {<<r, other>>, <<other, r>>}
        BY <4>2, <4>5
      <4>7. PICK other \in RouterIds : [id |-> other, link |-> links[i]] \in Range(neighbours[r])
        BY <2>0, <3>0, <4>5, <4>6 DEF FileInv
      <4> QED
        BY <4>1, <4>7
    <3> QED
      BY <3>1, <3>2
  <2> QED
    BY <2>0, <2>9, <2>10
<1> QED
  BY Invariance, <1>1, PTL
=============================================================================
