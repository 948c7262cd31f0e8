---------------------------- MODULE ProjectProofs ----------------------------
(***************************************************************************)
(* The programs of project/. The crawler of Crawler cuts no host short,    *)
(* for any number of threads, hosts and links and any limit. The flows     *)
(* that TlsFlows makes of a capture are exactly those its packets tell,    *)
(* for any capture.                                                        *)
(***************************************************************************)
EXTENDS CrawlerInv, TlsFlowsInv, Lemmas, FunctionTheorems

-----------------------------------------------------------------------------
(* The crawler.                                                            *)

LEMMA CountingFinite ==
  ASSUME NEW h
  PROVE  IsFiniteSet(Counting(h)) /\ Cardinality(Counting(h)) \in Nat
<1>1. Counting(h) \subseteq Drivers
  BY DEF Counting
<1> QED
  BY <1>1, CrawlAssumption, FS_Subset, FS_CardinalityType

\* A step that leaves the threads that count alone, and no count grows.
LEMMA NobodyCounts ==
  ASSUME CountInv, TypeOK',
         netloc_count' = netloc_count, puts' = puts,
         \A h \in Hosts : Counting(h)' = Counting(h),
         \A d \in Drivers : pc'[d] \in {"put", "load", "store"} => netloc'[d] \in Hosts,
         \A d \in Drivers : pc'[d] = "store" =>
           pc[d] = "store" /\ netloc'[d] = netloc[d] /\ read'[d] = read[d]
  PROVE  CountInv'
<1>1. \A h \in Hosts : netloc_count'[h] + Cardinality(Counting(h))' <= puts'[h]
  BY DEF CountInv
<1>2. ASSUME NEW h \in Hosts, NEW d \in Drivers, pc'[d] = "store" /\ netloc'[d] = h
      PROVE  read'[d] + Cardinality(Counting(h)') <= puts'[h]
  <2>1. pc[d] = "store" /\ netloc[d] = h /\ read'[d] = read[d]
    BY <1>2
  <2>2. read[d] + Cardinality(Counting(h)) <= puts[h]
    BY <2>1 DEF CountInv
  <2> QED
    BY <2>1, <2>2
<1> QED
  BY <1>1, <1>2 DEF CountInv

LEMMA TypeStep ==
  ASSUME CountInv, [Next]_vars
  PROVE  TypeOK'
<1>0. TypeOK
  BY DEF CountInv
<1>a. \A d \in Drivers : pc[d] \in {"put", "load", "store"} => netloc[d] \in Hosts
  BY DEF CountInv
<1> USE <1>0, <1>a, CrawlAssumption DEF TypeOK
<1>1. CASE UNCHANGED vars
  BY <1>1 DEF vars
<1>2. ASSUME NEW d \in Drivers, MakeDriver(d) PROVE TypeOK'
  BY <1>2 DEF MakeDriver, At
<1>3. ASSUME NEW d \in Drivers, GetPage(d) PROVE TypeOK'
  <2>1. queue' \in Nat
    BY <1>3 DEF GetPage, Dequeued
  <2>2. PICK n \in 0 .. PageLinks : left' = [left EXCEPT ![d] = n]
    BY <1>3 DEF GetPage
  <2>3. left' \in [Drivers -> Nat]
    BY <2>2
  <2> QED
    BY <1>3, <2>1, <2>3 DEF GetPage, At
<1>4. ASSUME NEW d \in Drivers, LeavePage(d) PROVE TypeOK'
  BY <1>4 DEF LeavePage, At
<1>5. ASSUME NEW d \in Drivers, NEW h \in Hosts, TestLink(d, h) PROVE TypeOK'
  <2>1. left[d] - 1 \in Nat
    BY <1>5 DEF TestLink
  <2>2. pc' \in [Drivers -> {"start", "get", "page", "put", "load", "store", "failed"}]
    BY <1>5 DEF TestLink, At
  <2> QED
    BY <1>5, <2>1, <2>2 DEF TestLink
<1>6. ASSUME NEW d \in Drivers, PutLink(d) PROVE TypeOK'
  <2>1. netloc[d] \in Hosts
    BY <1>6 DEF PutLink, At
  <2> QED
    BY <1>6, <2>1 DEF PutLink, At
<1>7. ASSUME NEW d \in Drivers, LoadCount(d) PROVE TypeOK'
  BY <1>7 DEF LoadCount, At
<1>8. ASSUME NEW d \in Drivers, StoreCount(d) PROVE TypeOK'
  BY <1>8 DEF StoreCount, At, Incremented
<1> QED
  BY <1>1, <1>2, <1>3, <1>4, <1>5, <1>6, <1>7, <1>8 DEF Next, Thread

LEMMA CountNext ==
  ASSUME CountInv, [Next]_vars
  PROVE  CountInv'
<1>0. TypeOK /\ TypeOK'
  BY TypeStep DEF CountInv
<1>a. \A d \in Drivers : pc[d] \in {"put", "load", "store"} => netloc[d] \in Hosts
  BY DEF CountInv
<1>b. \A h \in Hosts : netloc_count[h] + Cardinality(Counting(h)) <= puts[h]
  BY DEF CountInv
<1>c. \A h \in Hosts, d \in Drivers : pc[d] = "store" /\ netloc[d] = h =>
        read[d] + Cardinality(Counting(h)) <= puts[h]
  BY DEF CountInv
<1>1. CASE UNCHANGED vars
  <2>1. \A h \in Hosts : Counting(h)' = Counting(h)
    BY <1>1 DEF vars, Counting
  <2> QED
    BY <1>0, <1>1, <1>a, <2>1, NobodyCounts DEF vars
<1>2. ASSUME NEW d \in Drivers, MakeDriver(d) \/ GetPage(d) \/ LeavePage(d) PROVE CountInv'
  <2>1. netloc' = netloc /\ read' = read /\ netloc_count' = netloc_count /\ puts' = puts
        /\ (\A e \in Drivers : pc'[e] = pc[e] \/ (e = d /\ {pc[e], pc'[e]} \cap {"put", "load", "store"} = {}))
    BY <1>0, <1>2 DEF MakeDriver, GetPage, LeavePage, At, TypeOK
  <2>2. \A h \in Hosts : Counting(h)' = Counting(h)
    BY <2>1 DEF Counting
  <2> QED
    BY <1>0, <1>a, <2>1, <2>2, NobodyCounts
<1>3. ASSUME NEW d \in Drivers, NEW h \in Hosts, TestLink(d, h) PROVE CountInv'
  <2>1. /\ netloc_count' = netloc_count /\ read' = read /\ puts' = puts /\ netloc'[d] = h
        /\ pc[d] = "page" /\ pc'[d] \in {"put", "page"}
        /\ \A e \in Drivers \ {d} : pc'[e] = pc[e] /\ netloc'[e] = netloc[e]
    BY <1>0, <1>3 DEF TestLink, At, TypeOK
  <2>2. \A g \in Hosts : Counting(g)' = Counting(g)
    BY <2>1 DEF Counting
  <2>3. \A e \in Drivers : pc'[e] \in {"put", "load", "store"} => netloc'[e] \in Hosts
    BY <1>a, <2>1
  <2>4. \A e \in Drivers : pc'[e] = "store" =>
          pc[e] = "store" /\ netloc'[e] = netloc[e] /\ read'[e] = read[e]
    BY <2>1
  <2> QED
    BY <1>0, <2>1, <2>2, <2>3, <2>4, NobodyCounts
<1>4. ASSUME NEW d \in Drivers, PutLink(d) PROVE CountInv'
  <2> DEFINE h == netloc[d]
  <2>1. /\ netloc_count' = netloc_count /\ read' = read /\ netloc' = netloc
        /\ pc[d] = "put" /\ pc' = [pc EXCEPT ![d] = "load"] /\ h \in Hosts
        /\ puts' = [puts EXCEPT ![h] = @ + 1]
    BY <1>a, <1>4 DEF PutLink, At
  <2>2. Counting(h)' = Counting(h) \cup {d} /\ d \notin Counting(h)
    BY <1>0, <2>1 DEF Counting, TypeOK
  <2>3. \A g \in Hosts \ {h} : Counting(g)' = Counting(g)
    BY <1>0, <2>1 DEF Counting, TypeOK
  <2>4. Cardinality(Counting(h)') = Cardinality(Counting(h)) + 1 /\ Cardinality(Counting(h)) \in Nat
    BY <2>2, CountingFinite, FS_AddElement
  <2>5. ASSUME NEW g \in Hosts, NEW n \in Nat, n + Cardinality(Counting(g)) <= puts[g]
        PROVE  n + Cardinality(Counting(g)') <= puts'[g]
    <3>1. CASE g = h
      BY <1>0, <2>1, <2>4, <2>5, <3>1 DEF TypeOK
    <3>2. CASE g # h
      BY <1>0, <2>1, <2>3, <2>5, <3>2 DEF TypeOK
    <3> QED
      BY <3>1, <3>2
  <2>6. \A g \in Hosts : netloc_count'[g] + Cardinality(Counting(g)') <= puts'[g]
    BY <1>0, <1>b, <2>1, <2>5 DEF TypeOK
  <2>7. ASSUME NEW g \in Hosts, NEW e \in Drivers, pc'[e] = "store" /\ netloc'[e] = g
        PROVE  read'[e] + Cardinality(Counting(g)') <= puts'[g]
    <3>1. pc[e] = "store" /\ netloc[e] = g /\ read[e] \in Nat
      BY <1>0, <2>1, <2>7 DEF TypeOK
    <3>2. read[e] + Cardinality(Counting(g)) <= puts[g]
      BY <1>c, <3>1
    <3> QED
      BY <2>1, <2>5, <3>1, <3>2
  <2>8. \A e \in Drivers : pc'[e] \in {"put", "load", "store"} => netloc'[e] \in Hosts
    BY <1>0, <1>a, <2>1 DEF TypeOK
  <2> QED
    BY <1>0, <2>6, <2>7, <2>8 DEF CountInv
<1>5. ASSUME NEW d \in Drivers, LoadCount(d) PROVE CountInv'
  <2>1. /\ netloc_count' = netloc_count /\ puts' = puts /\ netloc' = netloc /\ netloc[d] \in Hosts
        /\ pc[d] = "load" /\ pc' = [pc EXCEPT ![d] = "store"]
        /\ read' = [read EXCEPT ![d] = netloc_count[netloc[d]]]
    BY <1>a, <1>5 DEF LoadCount, At
  <2>2. \A g \in Hosts : Counting(g)' = Counting(g)
    BY <1>0, <2>1 DEF Counting, TypeOK
  <2>3. \A g \in Hosts : netloc_count'[g] + Cardinality(Counting(g)') <= puts'[g]
    BY <1>b, <2>1, <2>2
  <2>4. ASSUME NEW g \in Hosts, NEW e \in Drivers, pc'[e] = "store" /\ netloc'[e] = g
        PROVE  read'[e] + Cardinality(Counting(g)') <= puts'[g]
    <3>1. CASE e = d
      <4>1. netloc[d] = g /\ read'[d] = netloc_count[g]
        BY <1>0, <2>1, <2>4, <3>1 DEF TypeOK
      <4>2. netloc_count[g] + Cardinality(Counting(g)) <= puts[g]
        BY <1>b
      <4> QED
        BY <2>1, <2>2, <3>1, <4>1, <4>2
    <3>2. CASE e # d
      BY <1>0, <1>a, <1>c, <2>1, <2>2, <2>4, <3>2 DEF TypeOK
    <3> QED
      BY <3>1, <3>2
  <2>5. \A e \in Drivers : pc'[e] \in {"put", "load", "store"} => netloc'[e] \in Hosts
    BY <1>0, <1>a, <2>1 DEF TypeOK
  <2> QED
    BY <1>0, <2>3, <2>4, <2>5 DEF CountInv
<1>6. ASSUME NEW d \in Drivers, StoreCount(d) PROVE CountInv'
  <2> DEFINE h == netloc[d]
  <2>1. /\ read' = read /\ puts' = puts /\ netloc' = netloc /\ h \in Hosts
        /\ pc[d] = "store" /\ pc' = [pc EXCEPT ![d] = "page"]
        /\ netloc_count' = [netloc_count EXCEPT ![h] = read[d] + 1]
    BY <1>a, <1>6 DEF StoreCount, At, Incremented
  <2>2. Counting(h)' = Counting(h) \ {d} /\ d \in Counting(h)
    BY <1>0, <2>1 DEF Counting, TypeOK
  <2>3. \A g \in Hosts \ {h} : Counting(g)' = Counting(g)
    BY <1>0, <2>1 DEF Counting, TypeOK
  <2>4. Cardinality(Counting(h)') = Cardinality(Counting(h)) - 1 /\ Cardinality(Counting(h)) \in Nat
        /\ Cardinality(Counting(h)') \in Nat
    BY <2>2, CountingFinite, FS_RemoveElement, FS_CardinalityType
  <2>5. ASSUME NEW g \in Hosts, NEW n \in Nat, n + Cardinality(Counting(g)) <= puts[g]
        PROVE  n + Cardinality(Counting(g)') <= puts'[g]
    <3>1. CASE g = h
      BY <1>0, <2>1, <2>4, <2>5, <3>1 DEF TypeOK
    <3>2. CASE g # h
      BY <1>0, <2>1, <2>3, <2>5, <3>2 DEF TypeOK
    <3> QED
      BY <3>1, <3>2
  <2>6. ASSUME NEW g \in Hosts PROVE netloc_count'[g] + Cardinality(Counting(g)') <= puts'[g]
    <3>1. CASE g = h
      BY <1>0, <1>c, <2>1, <2>4, <3>1 DEF TypeOK
    <3>2. CASE g # h
      BY <1>0, <1>b, <2>1, <2>3, <3>2 DEF TypeOK
    <3> QED
      BY <3>1, <3>2
  <2>7. ASSUME NEW g \in Hosts, NEW e \in Drivers, pc'[e] = "store" /\ netloc'[e] = g
        PROVE  read'[e] + Cardinality(Counting(g)') <= puts'[g]
    <3>1. pc[e] = "store" /\ netloc[e] = g /\ read[e] \in Nat
      BY <1>0, <2>1, <2>7 DEF TypeOK
    <3>2. read[e] + Cardinality(Counting(g)) <= puts[g]
      BY <1>c, <3>1
    <3> QED
      BY <2>1, <2>5, <3>1, <3>2
  <2>8. \A e \in Drivers : pc'[e] \in {"put", "load", "store"} => netloc'[e] \in Hosts
    BY <1>0, <1>a, <2>1 DEF TypeOK
  <2> QED
    BY <1>0, <2>6, <2>7, <2>8 DEF CountInv
<1> QED
  BY <1>1, <1>2, <1>3, <1>4, <1>5, <1>6 DEF Next, Thread

LEMMA CountInit == Init => CountInv
<1> SUFFICES ASSUME Init PROVE CountInv
  OBVIOUS
<1>1. \A h \in Hosts : Counting(h) = {}
  BY DEF Init, Counting
<1>2. Cardinality({}) = 0
  BY FS_EmptySet
<1> QED
  BY <1>1, <1>2, CrawlAssumption DEF Init, CountInv, TypeOK

-----------------------------------------------------------------------------
(* How often a host can be overrun.                                        *)

LEMMA ChoicesFinite ==
  ASSUME NEW m \in Nat, NEW k \in Nat
  PROVE  IsFiniteSet(kSubset(k, 1 .. m)) /\ Ways(m, k) \in Nat
<1>1. IsFiniteSet(1 .. m)
  BY FS_Interval
<1>2. IsFiniteSet(SUBSET (1 .. m))
  BY <1>1, FS_SUBSET
<1>3. kSubset(k, 1 .. m) \subseteq SUBSET (1 .. m)
  BY DEF kSubset
<1>4. IsFiniteSet(kSubset(k, 1 .. m))
  BY <1>2, <1>3, FS_Subset
<1> QED
  BY <1>4, FS_CardinalityType DEF Ways

LEMMA ChoicesOfNoneAndAll ==
  ASSUME NEW m \in Nat
  PROVE  Ways(m, 0) = 1 /\ Ways(m, m) = 1
<1>1. IsFiniteSet(1 .. m) /\ Cardinality(1 .. m) = m
  BY FS_Interval
<1>2. \A S \in SUBSET (1 .. m) : IsFiniteSet(S)
  BY <1>1, FS_Subset
<1>3. kSubset(0, 1 .. m) = {{}}
  BY <1>2, FS_EmptySet DEF kSubset
<1>4. \A S \in SUBSET (1 .. m) : Cardinality(S) = m => S = 1 .. m
  BY <1>1, FS_Subset
<1>5. kSubset(m, 1 .. m) = {1 .. m}
  BY <1>1, <1>4 DEF kSubset
<1> QED
  BY <1>3, <1>5, FS_Singleton DEF Ways

\* Pascal's rule: the last thing is left or chosen.
LEMMA ChoicesWithAndWithout ==
  ASSUME NEW m \in Nat, NEW k \in Nat
  PROVE  Ways(m + 1, k + 1) = Ways(m, k) + Ways(m, k + 1)
<1> DEFINE last == m + 1
           A == kSubset(k + 1, 1 .. m)
           C == kSubset(k, 1 .. m)
           f == [S \in C |-> S \cup {last}]
           B == {f[S] : S \in C}
<1>1. IsFiniteSet(1 .. m) /\ 1 .. last = (1 .. m) \cup {last} /\ last \notin 1 .. m
  BY FS_Interval
<1>2. \A S \in SUBSET (1 .. m) : IsFiniteSet(S) /\ Cardinality(S) \in Nat /\ Cardinality(S \cup {last}) = Cardinality(S) + 1
  BY <1>1, FS_Subset, FS_CardinalityType, FS_AddElement
<1>3. ASSUME NEW S \in kSubset(k + 1, 1 .. last) PROVE S \in A \cup B
  <2>1. S \subseteq 1 .. last /\ Cardinality(S) = k + 1
    BY DEF kSubset
  <2>2. CASE last \notin S
    <3>1. S \subseteq 1 .. m
      BY <1>1, <2>1, <2>2
    <3> QED
      BY <2>1, <3>1 DEF kSubset
  <2>3. CASE last \in S
    <3>1. S \ {last} \subseteq 1 .. m /\ (S \ {last}) \cup {last} = S
      BY <1>1, <2>1, <2>3
    <3>2. Cardinality((S \ {last}) \cup {last}) = Cardinality(S \ {last}) + 1 /\ Cardinality(S \ {last}) \in Nat
      BY <1>2, <3>1
    <3>3. Cardinality((S \ {last}) \cup {last}) = k + 1
      BY <2>1, <3>1, Zenon
    <3>4. Cardinality(S \ {last}) = k
      <4> DEFINE x == Cardinality(S \ {last})
      <4>1. x + 1 = k + 1 /\ x \in Nat
        BY <3>2, <3>3, Zenon
      <4> HIDE DEF x
      <4>2. x = k
        BY <4>1
      <4> QED
        BY <4>2 DEF x
    <3>5. S \ {last} \in C
      BY <3>1, <3>4 DEF kSubset
    <3> QED
      BY <3>1, <3>5
  <2> QED
    BY <2>2, <2>3
<1>4. A \cup B \subseteq kSubset(k + 1, 1 .. last)
  BY <1>1, <1>2 DEF kSubset
<1>5. A \cap B = {}
  BY <1>1 DEF kSubset
<1>6. IsFiniteSet(A) /\ IsFiniteSet(C) /\ Cardinality(A) = Ways(m, k + 1) /\ Cardinality(C) = Ways(m, k)
      /\ Cardinality(A) \in Nat /\ Cardinality(C) \in Nat
  <2>1. k + 1 \in Nat
    OBVIOUS
  <2>2. IsFiniteSet(A) /\ Ways(m, k + 1) \in Nat
    BY <2>1, ChoicesFinite
  <2>3. IsFiniteSet(C) /\ Ways(m, k) \in Nat
    BY ChoicesFinite
  <2> QED
    BY <2>2, <2>3 DEF Ways
<1>7. IsFiniteSet(B) /\ Cardinality(B) = Cardinality(C)
  <2>1. ASSUME NEW S \in C, NEW T \in C, f[S] = f[T] PROVE S = T
    <3>1. S \subseteq 1 .. m /\ T \subseteq 1 .. m
      BY DEF kSubset
    <3>2. f[S] = S \cup {last} /\ f[T] = T \cup {last}
      OBVIOUS
    <3>3. last \notin S /\ last \notin T
      BY <1>1, <3>1
    <3>4. S \cup {last} = T \cup {last}
      BY <2>1, <3>2, Zenon
    <3> HIDE DEF f, C, last
    <3> QED
      BY <3>3, <3>4
  <2>2. f \in [C -> B] /\ \A T \in B : \E S \in C : f[S] = T
    OBVIOUS
  <2>3. f \in Bijection(C, B)
    BY <2>1, <2>2, Fun_IsBij
  <2>4. ExistsBijection(C, B)
    BY <2>3 DEF ExistsBijection
  <2> QED
    BY <1>6, <2>4, FS_Bijection
<1>8. kSubset(k + 1, 1 .. last) = A \cup B
  BY <1>3, <1>4
<1>9. Cardinality(A \cup B) = Cardinality(A) + Cardinality(B) - Cardinality(A \cap B)
  BY <1>6, <1>7, FS_Union
<1>10. Cardinality(A \cap B) = 0
  BY <1>5, FS_EmptySet
<1> HIDE DEF A, B, C, f
<1>11. Cardinality(A \cup B) = Ways(m, k) + Ways(m, k + 1)
  BY <1>6, <1>7, <1>9, <1>10
<1> QED
  BY <1>8, <1>11 DEF Ways

LEMMA DriversAreFinite == num_drivers \in Nat
BY CrawlAssumption, FS_CardinalityType DEF num_drivers

LEMMA RoomValues ==
  ASSUME NEW c \in Nat, NEW n \in 0 .. num_drivers
  PROVE  /\ Room(c, n) \in Nat
         /\ Room(c, 0) = 0
         /\ c < Limit /\ n # 0 => Room(c, n) = 1 + Room(c, n - 1) + Room(c + 1, n)
         /\ c >= Limit => Room(c, n) = 0
<1>0. num_drivers \in Nat /\ Limit \in Nat
  BY DriversAreFinite, CrawlAssumption
<1>1. ASSUME NEW m \in Nat PROVE \A i \in 0 .. m : Ways(m, i) \in Nat \ {0}
  <2> SUFFICES ASSUME NEW i \in 0 .. m PROVE Ways(m, i) \in Nat \ {0}
    OBVIOUS
  <2>1. 1 .. i \subseteq 1 .. m /\ Cardinality(1 .. i) = i
    BY FS_Interval
  <2>2. kSubset(i, 1 .. m) # {}
    BY <2>1 DEF kSubset
  <2> QED
    BY <2>2, ChoicesFinite, FS_EmptySet DEF Ways
<1>2. ASSUME NEW b \in 0 .. Limit, NEW i \in 0 .. num_drivers
      PROVE  Most[b][i] = Ways(Limit - b + i, i) - 1 /\ Most[b][i] \in Nat
  <2>1. Limit - b + i \in Nat /\ i \in 0 .. Limit - b + i
    BY <1>0
  <2>2. Ways(Limit - b + i, i) \in Nat \ {0}
    BY <1>1, <2>1
  <2>3. Most[b][i] = Ways(Limit - b + i, i) - 1
    BY DEF Most
  <2> QED
    BY <2>2, <2>3
<1>3. Most[Limit][n] = 0
  <2>1. Most[Limit][n] = Ways(Limit - Limit + n, n) - 1 /\ Limit - Limit + n = n
    BY <1>0, <1>2
  <2>2. Ways(n, n) = 1
    BY <1>0, ChoicesOfNoneAndAll
  <2> QED
    BY <2>1, <2>2
<1>4. CASE c >= Limit
  BY <1>0, <1>4 DEF Room
<1>5. CASE c < Limit
  <2>1. c \in 0 .. Limit /\ c + 1 \in 0 .. Limit /\ 0 \in 0 .. num_drivers /\ ~(c >= Limit)
    BY <1>0, <1>5
  <2>2. Room(c, n) = Most[c][n] /\ Room(c, 0) = Most[c][0] /\ Most[c][n] \in Nat
    BY <1>2, <1>5, <2>1 DEF Room
  <2>3. Most[c][0] = 0
    <3>1. Limit - c + 0 \in Nat
      BY <1>0, <2>1
    <3>2. Ways(Limit - c + 0, 0) = 1
      BY <3>1, ChoicesOfNoneAndAll
    <3> QED
      BY <1>2, <2>1, <3>2
  <2>4. ASSUME n # 0 PROVE Room(c, n) = 1 + Room(c, n - 1) + Room(c + 1, n)
    <3> DEFINE m == Limit - c + n - 1
               k == n - 1
    <3>1. m \in Nat /\ k \in Nat /\ k \in 0 .. num_drivers /\ n = k + 1
          /\ Limit - c + n = m + 1 /\ Limit - c + k = m /\ Limit - (c + 1) + n = m
      BY <1>0, <2>1, <2>4
    <3>2. Most[c][n] = Ways(m + 1, k + 1) - 1 /\ Most[c][k] = Ways(m, k) - 1 /\ Most[c + 1][n] = Ways(m, k + 1) - 1
      BY <1>2, <2>1, <3>1
    <3>3. Room(c, k) = Most[c][k] /\ Room(c + 1, n) = Most[c + 1][n]
      <4>1. c + 1 < Limit \/ c + 1 = Limit
        BY <1>0, <2>1
      <4> QED
        BY <1>3, <1>5, <4>1 DEF Room
    <3>4. Ways(m, k) \in Nat /\ Ways(m, k + 1) \in Nat
      <4>1. k + 1 \in Nat
        BY <3>1
      <4> HIDE DEF m, k
      <4> QED
        BY <3>1, <4>1, ChoicesFinite
    <3> HIDE DEF m, k
    <3>5. Most[c][n] = 1 + Most[c][k] + Most[c + 1][n]
      BY <3>1, <3>2, <3>4, ChoicesWithAndWithout
    <3>6. Room(c, n) = 1 + Room(c, k) + Room(c + 1, n)
      BY <2>2, <3>3, <3>5
    <3> QED
      BY <3>6 DEF k
  <2> QED
    BY <2>1, <2>2, <2>3, <2>4
<1> QED
  BY <1>0, <1>4, <1>5

\* What grows by no more in each step ends no higher.
LEMMA SmallerSteps ==
  ASSUME NEW L \in Nat, NEW s \in [0 .. L -> Int], NEW t \in [0 .. L -> Int],
         s[0] <= t[0],
         \A n \in 1 .. L : s[n] - s[n - 1] <= t[n] - t[n - 1]
  PROVE  s[L] <= t[L]
<1> DEFINE T == {n \in 1 .. L + 1 : s[n - 1] <= t[n - 1]}
<1>1. 1 \in T
  OBVIOUS
<1>2. ASSUME NEW n \in 1 .. L, n \in T PROVE n + 1 \in T
  <2>1. n - 1 \in 0 .. L /\ n \in 0 .. L /\ n + 1 \in 1 .. L + 1 /\ (n + 1) - 1 = n
    OBVIOUS
  <2>2. s[n - 1] \in Int /\ t[n - 1] \in Int /\ s[n] \in Int /\ t[n] \in Int
    BY <2>1
  <2>3. s[n - 1] <= t[n - 1] /\ s[n] - s[n - 1] <= t[n] - t[n - 1]
    BY <1>2
  <2>4. s[n] <= t[n]
    BY <2>2, <2>3
  <2> QED
    BY <2>1, <2>4
<1> HIDE DEF T
<1>3. L + 1 \in Nat \ {0} /\ (L + 1) - 1 = L /\ \A n \in 1 .. (L + 1) - 1 : n \in 1 .. L
  OBVIOUS
<1>4. 1 .. L + 1 \subseteq T
  BY <1>1, <1>2, <1>3, AllUpTo
<1>5. L + 1 \in T
  BY <1>3, <1>4
<1> QED
  BY <1>3, <1>5 DEF T

LEMMA TotalIsSum ==
  ASSUME NEW f \in [1 .. num_drivers -> Int]
  PROVE  \E s \in [0 .. num_drivers -> Int] :
           /\ s[0] = 0
           /\ \A n \in 1 .. num_drivers : s[n] - s[n - 1] = f[n]
           /\ Total(f) = s[num_drivers]
<1> DEFINE L == num_drivers
           IsSum(t) == t = [n \in 0 .. L |-> IF n = 0 THEN 0 ELSE t[n - 1] + f[n]]
           s == CHOOSE t : IsSum(t)
<1>1. L \in Nat
  BY DriversAreFinite
<1>2. \E t : IsSum(t)
  <2>1. L + 1 \in Nat \ {0}
    BY <1>1
  <2>2. PICK F : F = [n \in 1 .. L + 1 |-> IF n = 1 THEN 0 ELSE F[n - 1] + f[n - 1]]
    BY <2>1, SumsExist DEF Sums
  <2> HIDE DEF L
  <2> DEFINE t == [n \in 0 .. L |-> F[n + 1]]
  <2>3. ASSUME NEW n \in 0 .. L PROVE t[n] = IF n = 0 THEN 0 ELSE t[n - 1] + f[n]
    <3>1. n + 1 \in 1 .. L + 1 /\ (n + 1) - 1 = n /\ (n - 1) + 1 = n /\ (n + 1 = 1 <=> n = 0)
      BY <1>1
    <3>2. t[n] = IF n = 0 THEN 0 ELSE F[n] + f[n]
      BY <2>2, <3>1
    <3>3. n # 0 => t[n - 1] = F[n]
      BY <1>1, <3>1
    <3> HIDE DEF t
    <3> QED
      BY <3>2, <3>3
  <2>4. t = [n \in 0 .. L |-> t[n]]
    OBVIOUS
  <2> HIDE DEF t
  <2>5. t = [n \in 0 .. L |-> IF n = 0 THEN 0 ELSE t[n - 1] + f[n]]
    BY <2>3, <2>4, Zenon
  <2> QED
    BY <2>5
<1>3. Total(f) = s[L]
  BY DEF Total
<1> HIDE DEF s
<1>4. s = [n \in 0 .. L |-> IF n = 0 THEN 0 ELSE s[n - 1] + f[n]]
  BY <1>2 DEF s
<1> HIDE DEF IsSum, L
<1>5. \A n \in 0 .. L : s[n] = IF n = 0 THEN 0 ELSE s[n - 1] + f[n]
  BY <1>4, Zenon
<1>6. s[0] = 0
  BY <1>1, <1>5
<1>7. ASSUME NEW n \in 1 .. L PROVE s[n] = s[n - 1] + f[n] /\ f[n] \in Int
  <2>1. n \in 0 .. L /\ n # 0
    BY <1>1
  <2>2. f[n] \in Int
    BY DEF L
  <2> QED
    BY <1>5, <2>1, <2>2
<1> DEFINE T == {n \in 1 .. L + 1 : s[n - 1] \in Int}
<1>8. 1 \in T
  BY <1>1, <1>6
<1>9. ASSUME NEW n \in 1 .. L, n \in T PROVE n + 1 \in T
  <2>1. n \in 0 .. L /\ n + 1 \in 1 .. L + 1 /\ (n + 1) - 1 = n
    BY <1>1
  <2>2. s[n - 1] \in Int
    BY <1>9
  <2>3. s[n] \in Int
    BY <1>7, <2>2
  <2> QED
    BY <2>1, <2>3
<1> HIDE DEF T
<1>10. L + 1 \in Nat \ {0} /\ \A n \in 1 .. (L + 1) - 1 : n \in 1 .. L
  BY <1>1
<1>11. 1 .. L + 1 \subseteq T
  BY <1>8, <1>9, <1>10, AllUpTo
<1>12. ASSUME NEW n \in 0 .. L PROVE s[n] \in Int
  <2>1. n + 1 \in 1 .. L + 1 /\ (n + 1) - 1 = n
    BY <1>1
  <2>2. n + 1 \in T
    BY <1>11, <2>1
  <2> QED
    BY <2>1, <2>2 DEF T
<1>13. s \in [0 .. L -> Int]
  <2>1. s = [n \in 0 .. L |-> s[n]]
    BY <1>4, Zenon
  <2> QED
    BY <1>12, <2>1
<1>14. \A n \in 1 .. L : s[n] - s[n - 1] = f[n]
  <2> TAKE n \in 1 .. L
  <2>1. n - 1 \in 0 .. L
    BY <1>1
  <2>2. s[n - 1] \in Int /\ f[n] \in Int /\ s[n] = s[n - 1] + f[n]
    BY <1>7, <1>12, <2>1
  <2> QED
    BY <2>2
<1> QED
  BY <1>3, <1>6, <1>13, <1>14 DEF L

-----------------------------------------------------------------------------
(* The steps of the threads.                                               *)

\* If every summand of g leaves what t grows by, so does the sum.
LEMMA TotalBound ==
  ASSUME NEW f \in [1 .. num_drivers -> Int], NEW g \in [1 .. num_drivers -> Int],
         NEW t \in [0 .. num_drivers -> Int], t[0] = 0,
         \A n \in 1 .. num_drivers : g[n] + t[n] - t[n - 1] <= f[n]
  PROVE  /\ Total(f) \in Int /\ Total(g) \in Int
         /\ Total(g) + t[num_drivers] <= Total(f)
<1> DEFINE L == num_drivers
<1>1. L \in Nat
  BY DriversAreFinite
<1>2. PICK s \in [0 .. L -> Int] :
        s[0] = 0 /\ (\A n \in 1 .. L : s[n] - s[n - 1] = f[n]) /\ Total(f) = s[L]
  BY TotalIsSum
<1>3. PICK r \in [0 .. L -> Int] :
        r[0] = 0 /\ (\A n \in 1 .. L : r[n] - r[n - 1] = g[n]) /\ Total(g) = r[L]
  BY TotalIsSum
<1> HIDE DEF L
<1> DEFINE u == [n \in 0 .. L |-> r[n] + t[n]]
<1>4. u \in [0 .. L -> Int] /\ \A n \in 0 .. L : u[n] = r[n] + t[n]
  BY DEF L
<1> HIDE DEF u
<1>5. u[0] <= s[0]
  BY <1>1, <1>2, <1>3, <1>4
<1>6. ASSUME NEW n \in 1 .. L PROVE u[n] - u[n - 1] <= s[n] - s[n - 1]
  <2>1. n \in 0 .. L /\ n - 1 \in 0 .. L
    BY <1>1
  <2>2. /\ r[n] \in Int /\ r[n - 1] \in Int /\ t[n] \in Int /\ t[n - 1] \in Int
        /\ s[n] \in Int /\ s[n - 1] \in Int
    BY <1>2, <1>3, <2>1 DEF L
  <2>3. u[n] = r[n] + t[n] /\ u[n - 1] = r[n - 1] + t[n - 1]
    BY <1>4, <2>1
  <2>4. r[n] - r[n - 1] = g[n] /\ s[n] - s[n - 1] = f[n] /\ g[n] + t[n] - t[n - 1] <= f[n]
    BY <1>2, <1>3 DEF L
  <2> QED
    BY <2>2, <2>3, <2>4
<1>7. u[L] <= s[L]
  BY <1>1, <1>2, <1>4, <1>5, <1>6, SmallerSteps
<1>8. L \in 0 .. L /\ u[L] = r[L] + t[L]
  BY <1>1, <1>4
<1> QED
  BY <1>2, <1>3, <1>7, <1>8 DEF L

LEMMA OrderValues ==
  ASSUME NEW order \in Orders
  PROVE  /\ order \in [1 .. num_drivers -> Drivers]
         /\ \A m, n \in 1 .. num_drivers : order[m] = order[n] => m = n
         /\ \A d \in Drivers : \E n \in 1 .. num_drivers : order[n] = d
BY DEF Orders, Bijection, Injection, Surjection, IsInjective

LEMMA ShareValues ==
  ASSUME TypeOK, TypeOK', NEW h \in Hosts, NEW order \in Orders
  PROVE  /\ \A n \in 1 .. num_drivers :
              /\ order[n] \in Drivers
              /\ NextCount(order[n], h) \in Nat /\ NextCount(order[n], h)' \in Nat
              /\ Share(order, h)[n] = Room(NextCount(order[n], h), n)
                                        + (IF MayPut(order[n], h) THEN 1 ELSE 0)
              /\ Share(order, h)'[n] = Room(NextCount(order[n], h)', n)
                                         + (IF MayPut(order[n], h)' THEN 1 ELSE 0)
              /\ Share(order, h)[n] \in Nat /\ Share(order, h)'[n] \in Nat
         /\ Share(order, h) \in [1 .. num_drivers -> Int]
         /\ Share(order, h)' \in [1 .. num_drivers -> Int]
<1>1. ASSUME NEW n \in 1 .. num_drivers
      PROVE  /\ order[n] \in Drivers
             /\ NextCount(order[n], h) \in Nat /\ NextCount(order[n], h)' \in Nat
             /\ Share(order, h)[n] = Room(NextCount(order[n], h), n)
                                       + (IF MayPut(order[n], h) THEN 1 ELSE 0)
             /\ Share(order, h)'[n] = Room(NextCount(order[n], h)', n)
                                        + (IF MayPut(order[n], h)' THEN 1 ELSE 0)
             /\ Share(order, h)[n] \in Nat /\ Share(order, h)'[n] \in Nat
  <2>1. order[n] \in Drivers
    BY OrderValues
  <2>2. NextCount(order[n], h) \in Nat /\ NextCount(order[n], h)' \in Nat
    BY <2>1 DEF NextCount, TypeOK
  <2>3. /\ Share(order, h)[n] = Room(NextCount(order[n], h), n)
                                  + (IF MayPut(order[n], h) THEN 1 ELSE 0)
        /\ Share(order, h)'[n] = Room(NextCount(order[n], h)', n)
                                   + (IF MayPut(order[n], h)' THEN 1 ELSE 0)
    BY DEF Share
  <2>4. n \in 0 .. num_drivers
    BY DriversAreFinite
  <2>5. Room(NextCount(order[n], h), n) \in Nat /\ Room(NextCount(order[n], h)', n) \in Nat
    BY <2>2, <2>4, RoomValues
  <2> QED
    BY <2>1, <2>2, <2>3, <2>5
<1>2. /\ Share(order, h) = [n \in 1 .. num_drivers |-> Share(order, h)[n]]
      /\ Share(order, h)' = [n \in 1 .. num_drivers |-> Share(order, h)'[n]]
  BY DEF Share
<1> QED
  BY <1>1, <1>2

HasRoom(h) ==
  \A order \in Orders : puts[h] + Total(Share(order, h)) <= Room(0, num_drivers)

\* A step that changes nothing for the host.
LEMMA SameShares ==
  ASSUME NEW h \in Hosts, HasRoom(h), puts'[h] = puts[h],
         \A e \in Drivers : NextCount(e, h)' = NextCount(e, h) /\ (MayPut(e, h)' <=> MayPut(e, h))
  PROVE  HasRoom(h)'
<1> SUFFICES ASSUME NEW order \in Orders
             PROVE  puts'[h] + Total(Share(order, h)') <= Room(0, num_drivers)
  BY DEF HasRoom
<1>1. \A n \in 1 .. num_drivers : order[n] \in Drivers
  BY OrderValues
<1>2. Share(order, h)' = Share(order, h)
  BY <1>1 DEF Share
<1> QED
  BY <1>2 DEF HasRoom

\* A link that is put was one that its thread could put.
LEMMA PutKeepsRoom ==
  ASSUME TypeOK, TypeOK', NEW d \in Drivers, PutLink(d),
         NEW h \in Hosts, netloc[d] = h, HasRoom(h)
  PROVE  HasRoom(h)'
<1>1. /\ netloc_count' = netloc_count /\ read' = read /\ netloc' = netloc
      /\ pc[d] = "put" /\ pc' = [pc EXCEPT ![d] = "load"] /\ puts'[h] = puts[h] + 1
  BY DEF PutLink, At, TypeOK
<1>2. \A e \in Drivers : NextCount(e, h)' = NextCount(e, h) /\ (e # d => (MayPut(e, h)' <=> MayPut(e, h)))
  BY <1>1 DEF NextCount, MayPut, Within, TypeOK
<1>3. MayPut(d, h) /\ ~MayPut(d, h)'
  BY <1>1 DEF MayPut, TypeOK
<1> SUFFICES ASSUME NEW order \in Orders
             PROVE  puts'[h] + Total(Share(order, h)') <= Room(0, num_drivers)
  BY DEF HasRoom
<1> DEFINE f == Share(order, h)
           g == Share(order, h)'
<1>4. /\ f \in [1 .. num_drivers -> Int] /\ g \in [1 .. num_drivers -> Int]
      /\ \A n \in 1 .. num_drivers : f[n] \in Int /\ g[n] \in Int /\ order[n] \in Drivers
  BY ShareValues
<1>5. PICK k \in 1 .. num_drivers : order[k] = d
  BY OrderValues
<1>6. \A n \in 1 .. num_drivers : order[n] = d => n = k
  BY <1>5, OrderValues
<1> DEFINE t == [n \in 0 .. num_drivers |-> IF n >= k THEN 1 ELSE 0]
<1>7. ASSUME NEW n \in 1 .. num_drivers PROVE g[n] + t[n] - t[n - 1] <= f[n]
  <2>1. n \in 0 .. num_drivers /\ n - 1 \in 0 .. num_drivers /\ n \in Int /\ k \in Int
    BY DriversAreFinite
  <2>2. t[n] = (IF n >= k THEN 1 ELSE 0) /\ t[n - 1] = (IF n - 1 >= k THEN 1 ELSE 0)
    BY <2>1
  <2>3. Room(NextCount(order[n], h), n) \in Nat
    BY <1>4, <2>1, ShareValues, RoomValues
  <2>4. /\ f[n] = Room(NextCount(order[n], h), n) + (IF MayPut(order[n], h) THEN 1 ELSE 0)
        /\ g[n] = Room(NextCount(order[n], h)', n) + (IF MayPut(order[n], h)' THEN 1 ELSE 0)
    BY ShareValues
  <2> HIDE DEF f, g, t
  <2>5. CASE n = k
    <3>1. t[n] = 1 /\ t[n - 1] = 0
      BY <2>1, <2>2, <2>5
    <3>2. g[n] = Room(NextCount(order[n], h), n) /\ f[n] = Room(NextCount(order[n], h), n) + 1
      <4>1. order[n] = d
        BY <1>5, <2>5
      <4> QED
        BY <1>2, <1>3, <2>3, <2>4, <4>1
    <3> QED
      BY <2>3, <3>1, <3>2
  <2>6. CASE n # k
    <3>1. t[n] = t[n - 1] /\ t[n] \in Int
      BY <2>1, <2>2, <2>6
    <3>2. g[n] = f[n]
      BY <1>2, <1>4, <1>6, <2>4, <2>6
    <3> QED
      BY <1>4, <3>1, <3>2
  <2> QED
    BY <2>5, <2>6
<1>8. t \in [0 .. num_drivers -> Int] /\ t[0] = 0 /\ t[num_drivers] = 1
  BY DriversAreFinite
<1> HIDE DEF f, g, t
<1>9. Total(f) \in Int /\ Total(g) \in Int /\ Total(g) + 1 <= Total(f)
  BY <1>4, <1>7, <1>8, TotalBound
<1>10. puts[h] + Total(f) <= Room(0, num_drivers)
  BY DEF HasRoom, f
<1>11. puts[h] \in Int /\ Room(0, num_drivers) \in Int
  BY DriversAreFinite, RoomValues DEF TypeOK
<1> QED
  BY <1>1, <1>9, <1>10, <1>11 DEF g

\* Two threads trade places.
LEMMA OrderSwapped ==
  ASSUME NEW order \in Orders, NEW k \in 1 .. num_drivers, NEW m \in 1 .. num_drivers
  PROVE  \E other \in Orders :
           /\ other[m] = order[k]
           /\ \A n \in 1 .. num_drivers : n # k /\ n # m => other[n] = order[n]
<1> DEFINE I == 1 .. num_drivers
           other == [n \in I |-> IF n = m THEN order[k] ELSE IF n = k THEN order[m] ELSE order[n]]
<1>1. /\ order \in [I -> Drivers]
      /\ \A i, j \in I : order[i] = order[j] => i = j
      /\ \A d \in Drivers : \E n \in I : order[n] = d
  BY OrderValues
<1>2. other \in [I -> Drivers] /\ other[m] = order[k] /\ (\A n \in I : n # k /\ n # m => other[n] = order[n])
  BY <1>1
<1>3. ASSUME NEW i \in I, NEW j \in I, other[i] = other[j] PROVE i = j
  BY <1>1, <1>3
<1>4. ASSUME NEW d \in Drivers PROVE \E n \in I : other[n] = d
  <2>1. PICK n \in I : order[n] = d
    BY <1>1
  <2>2. n = m \/ n = k \/ other[n] = d
    BY <2>1
  <2>3. other[m] = order[k] /\ (other[k] = order[m])
    OBVIOUS
  <2> HIDE DEF other
  <2> QED
    BY <2>1, <2>2, <2>3
<1> HIDE DEF other
<1>5. other \in Orders
  BY <1>2, <1>3, <1>4 DEF Orders, Bijection, Injection, Surjection, IsInjective
<1> QED
  BY <1>2, <1>5

\* A thread that has read the count of the host at some time.
Holds(e, h) == pc[e] = "store" /\ netloc[e] = h

LEMMA StoreValues ==
  ASSUME TypeOK, TypeOK', NEW d \in Drivers, StoreCount(d),
         NEW h \in Hosts, netloc[d] = h, NEW r \in Nat, read[d] = r
  PROVE  /\ puts' = puts
         /\ NextCount(d, h) = r + 1 /\ NextCount(d, h)' = r + 2
         /\ ~Holds(d, h)' /\ (MayPut(d, h)' => r + 1 < Limit)
         /\ \A e \in Drivers \ {d} :
              /\ Holds(e, h)' <=> Holds(e, h)
              /\ Holds(e, h) => NextCount(e, h)' = NextCount(e, h) /\ ~MayPut(e, h) /\ ~MayPut(e, h)'
              /\ ~Holds(e, h) => NextCount(e, h)' = r + 2
              /\ ~Holds(e, h) /\ MayPut(e, h)' => MayPut(e, h) \/ r + 1 < Limit
<1>1. /\ read' = read /\ netloc' = netloc /\ puts' = puts
      /\ pc[d] = "store" /\ pc'[d] = "page" /\ (\A e \in Drivers \ {d} : pc'[e] = pc[e])
      /\ netloc_count'[h] = r + 1
  BY DEF StoreCount, At, Incremented, TypeOK
<1>2. Limit \in Nat
  BY CrawlAssumption
<1>3. Within(h)' <=> r + 1 < Limit
  BY <1>1 DEF Within
<1>4. NextCount(d, h) = r + 1 /\ NextCount(d, h)' = r + 2 /\ ~Holds(d, h)' /\ (MayPut(d, h)' => r + 1 < Limit)
  BY <1>1, <1>3 DEF NextCount, Holds, MayPut
<1>5. ASSUME NEW e \in Drivers \ {d}
      PROVE  /\ Holds(e, h)' <=> Holds(e, h)
             /\ Holds(e, h) => NextCount(e, h)' = NextCount(e, h) /\ ~MayPut(e, h) /\ ~MayPut(e, h)'
             /\ ~Holds(e, h) => NextCount(e, h)' = r + 2
             /\ ~Holds(e, h) /\ MayPut(e, h)' => MayPut(e, h) \/ r + 1 < Limit
  <2>1. pc'[e] = pc[e] /\ netloc'[e] = netloc[e] /\ read'[e] = read[e] /\ netloc'[d] = h
    BY <1>1
  <2>2. Holds(e, h)' <=> Holds(e, h)
    BY <2>1 DEF Holds
  <2>3. Holds(e, h) => NextCount(e, h)' = NextCount(e, h) /\ ~MayPut(e, h) /\ ~MayPut(e, h)'
    BY <2>1 DEF Holds, NextCount, MayPut
  <2>4. ~Holds(e, h) => NextCount(e, h)' = r + 2
    BY <1>1, <2>1 DEF Holds, NextCount
  <2>5. ~Holds(e, h) /\ MayPut(e, h)' => MayPut(e, h) \/ r + 1 < Limit
    BY <1>3, <2>1 DEF Holds, MayPut
  <2> QED
    BY <2>2, <2>3, <2>4, <2>5
<1> QED
  BY <1>1, <1>4, <1>5

\* A write that fills the count up: nobody has room to gain.
LEMMA LastStoreKeepsRoom ==
  ASSUME TypeOK, TypeOK', NEW d \in Drivers, StoreCount(d),
         NEW h \in Hosts, netloc[d] = h, HasRoom(h),
         NEW r \in Nat, read[d] = r, ~(r + 1 < Limit)
  PROVE  HasRoom(h)'
<1>1. /\ puts' = puts
      /\ NextCount(d, h)' = r + 2 /\ ~MayPut(d, h)'
      /\ \A e \in Drivers \ {d} :
           /\ Holds(e, h) => NextCount(e, h)' = NextCount(e, h) /\ ~MayPut(e, h)'
           /\ ~Holds(e, h) => NextCount(e, h)' = r + 2 /\ (MayPut(e, h)' => MayPut(e, h))
  BY StoreValues
<1>2. r + 2 \in Nat /\ r + 2 >= Limit
  BY <1>1, CrawlAssumption
<1> SUFFICES ASSUME NEW order \in Orders
             PROVE  puts'[h] + Total(Share(order, h)') <= Room(0, num_drivers)
  BY DEF HasRoom
<1> DEFINE f == Share(order, h)
           g == Share(order, h)'
           t == [n \in 0 .. num_drivers |-> 0]
<1>3. f \in [1 .. num_drivers -> Int] /\ g \in [1 .. num_drivers -> Int]
  BY ShareValues
<1>4. ASSUME NEW n \in 1 .. num_drivers PROVE g[n] + t[n] - t[n - 1] <= f[n]
  <2>1. n \in 0 .. num_drivers /\ n - 1 \in 0 .. num_drivers
    BY DriversAreFinite
  <2>2. t[n] = 0 /\ t[n - 1] = 0
    BY <2>1
  <2> DEFINE e == order[n]
             a == NextCount(order[n], h)
             b == NextCount(order[n], h)'
  <2>3. /\ e \in Drivers /\ a \in Nat /\ b \in Nat /\ f[n] \in Nat /\ g[n] \in Nat
        /\ f[n] = Room(a, n) + (IF MayPut(e, h) THEN 1 ELSE 0)
        /\ g[n] = Room(b, n) + (IF MayPut(e, h)' THEN 1 ELSE 0)
    BY ShareValues
  <2>4. Room(a, n) \in Nat /\ Room(r + 2, n) = 0
    BY <1>2, <2>1, <2>3, RoomValues
  <2> HIDE DEF f, g, t
  <2>5. CASE e = d
    <3>1. g[n] = 0
      BY <1>1, <2>3, <2>4, <2>5
    <3> QED
      BY <2>2, <2>3, <3>1
  <2>6. CASE e # d /\ Holds(e, h)
    <3>1. b = a /\ ~MayPut(e, h)'
      BY <1>1, <2>3, <2>6
    <3>2. g[n] = Room(a, n)
      BY <2>3, <2>4, <3>1
    <3> QED
      BY <2>2, <2>3, <2>4, <3>2
  <2>7. CASE e # d /\ ~Holds(e, h)
    <3>1. b = r + 2 /\ (MayPut(e, h)' => MayPut(e, h))
      BY <1>1, <2>3, <2>7
    <3>2. Room(b, n) = 0
      BY <2>4, <3>1
    <3> QED
      BY <2>2, <2>3, <2>4, <3>1, <3>2
  <2> QED
    BY <2>5, <2>6, <2>7
<1>5. t \in [0 .. num_drivers -> Int] /\ t[0] = 0 /\ t[num_drivers] = 0
  BY DriversAreFinite
<1> HIDE DEF f, g, t
<1>6. Total(f) \in Int /\ Total(g) \in Int /\ Total(g) + 0 <= Total(f)
  BY <1>3, <1>4, <1>5, TotalBound
<1>7. puts[h] + Total(f) <= Room(0, num_drivers)
  BY DEF HasRoom, f
<1>8. puts[h] \in Int /\ Room(0, num_drivers) \in Int
  BY DriversAreFinite, RoomValues DEF TypeOK
<1> QED
  BY <1>1, <1>6, <1>7, <1>8 DEF g

\* A write that leaves or takes the count below the limit: what all threads but those
\* with a count of their own can put then is no more than the thread itself was
\* allowed for, in an order where it comes after them.
LEMMA EarlyStoreKeepsRoom ==
  ASSUME TypeOK, TypeOK', NEW d \in Drivers, StoreCount(d),
         NEW h \in Hosts, netloc[d] = h, HasRoom(h),
         NEW r \in Nat, read[d] = r, r + 1 < Limit
  PROVE  HasRoom(h)'
<1>1. /\ puts' = puts
      /\ NextCount(d, h) = r + 1 /\ NextCount(d, h)' = r + 2 /\ ~Holds(d, h)'
      /\ \A e \in Drivers \ {d} :
           /\ Holds(e, h)' <=> Holds(e, h)
           /\ Holds(e, h) => NextCount(e, h)' = NextCount(e, h) /\ ~MayPut(e, h) /\ ~MayPut(e, h)'
           /\ ~Holds(e, h) => NextCount(e, h)' = r + 2
  BY StoreValues
<1>2. r + 1 \in Nat /\ r + 2 \in Nat /\ r + 1 < Limit /\ (r + 1) + 1 = r + 2 /\ num_drivers \in Nat
  BY <1>1, DriversAreFinite
<1> SUFFICES ASSUME NEW order \in Orders
             PROVE  puts'[h] + Total(Share(order, h)') <= Room(0, num_drivers)
  BY DEF HasRoom
<1> DEFINE I == 1 .. num_drivers
           U == {n \in I : ~Holds(order[n], h)'}
<1>3. /\ \A n \in I : order[n] \in Drivers
      /\ \A i, j \in I : order[i] = order[j] => i = j
  BY OrderValues
<1>4. PICK k \in I : order[k] = d
  BY OrderValues
<1>5. k \in U
  BY <1>1, <1>4
<1>6. PICK m \in U : \A n \in U : n <= m
  BY <1>2, <1>5, GreatestNumber
<1>7. m \in I
  BY <1>6
<1>8. PICK other \in Orders :
        other[m] = order[k] /\ \A n \in I : n # k /\ n # m => other[n] = order[n]
  BY <1>7, OrderSwapped
<1> DEFINE f == Share(other, h)
           g == Share(order, h)'
           t == [n \in 0 .. num_drivers |-> IF n < m THEN 0 - Room(r + 1, n) ELSE 0]
<1>9. /\ f \in [I -> Int] /\ g \in [I -> Int]
      /\ \A n \in I : f[n] \in Nat /\ g[n] \in Nat
  BY <1>8, ShareValues
<1>10. \A n \in 0 .. num_drivers : Room(r + 1, n) \in Nat /\ Room(r + 2, n) \in Nat
  BY <1>2, RoomValues
<1>11. ASSUME NEW n \in I
       PROVE  Room(r + 1, n) = 1 + Room(r + 1, n - 1) + Room(r + 2, n)
  <2>1. n \in 0 .. num_drivers /\ n # 0
    BY <1>2
  <2> QED
    BY <1>2, <2>1, RoomValues
<1>12. ASSUME NEW n \in U PROVE g[n] <= 1 + Room(r + 2, n)
  <2>1. order[n] \in Drivers /\ ~Holds(order[n], h)' /\ n \in I /\ n \in 0 .. num_drivers
    BY <1>2, <1>3
  <2>2. NextCount(order[n], h)' = r + 2
    BY <1>1, <2>1
  <2>3. g[n] = Room(NextCount(order[n], h)', n) + (IF MayPut(order[n], h)' THEN 1 ELSE 0)
    BY <2>1, ShareValues
  <2> HIDE DEF g
  <2> QED
    BY <1>10, <2>1, <2>2, <2>3
<1>13. ASSUME NEW n \in I, n \notin U PROVE g[n] = f[n] /\ n # k /\ n # m
  <2>1. n # k /\ n # m
    BY <1>5, <1>6, <1>13
  <2>2. other[n] = order[n] /\ order[n] \in Drivers \ {d} /\ Holds(order[n], h)
    BY <1>1, <1>3, <1>4, <1>8, <1>13, <2>1
  <2>3. NextCount(order[n], h)' = NextCount(order[n], h) /\ ~MayPut(order[n], h) /\ ~MayPut(order[n], h)'
    BY <1>1, <2>2
  <2>4. g[n] = Room(NextCount(order[n], h)', n) + (IF MayPut(order[n], h)' THEN 1 ELSE 0)
    BY ShareValues
  <2>5. f[n] = Room(NextCount(other[n], h), n) + (IF MayPut(other[n], h) THEN 1 ELSE 0)
    BY <1>8, ShareValues
  <2> HIDE DEF f, g
  <2> QED
    BY <2>1, <2>2, <2>3, <2>4, <2>5
<1>14. f[m] >= Room(r + 1, m)
  <2>1. f[m] = Room(NextCount(other[m], h), m) + (IF MayPut(other[m], h) THEN 1 ELSE 0)
    BY <1>7, <1>8, ShareValues
  <2>2. NextCount(other[m], h) = r + 1
    BY <1>1, <1>4, <1>8
  <2>3. Room(r + 1, m) \in Nat
    BY <1>2, <1>7, <1>10
  <2> HIDE DEF f
  <2> QED
    BY <2>1, <2>2, <2>3
<1>15. ASSUME NEW n \in I PROVE g[n] + t[n] - t[n - 1] <= f[n]
  <2>1. n \in 0 .. num_drivers /\ n - 1 \in 0 .. num_drivers /\ n \in Int /\ m \in Int
    BY <1>2, <1>7
  <2>2. /\ t[n] = (IF n < m THEN 0 - Room(r + 1, n) ELSE 0)
        /\ t[n - 1] = (IF n - 1 < m THEN 0 - Room(r + 1, n - 1) ELSE 0)
    BY <2>1
  <2>3. /\ Room(r + 1, n) \in Nat /\ Room(r + 1, n - 1) \in Nat /\ Room(r + 2, n) \in Nat
        /\ Room(r + 1, n) = 1 + Room(r + 1, n - 1) + Room(r + 2, n)
        /\ f[n] \in Nat /\ g[n] \in Nat
    BY <1>9, <1>10, <1>11, <2>1
  <2> HIDE DEF f, g, t
  <2>4. CASE n < m
    <3>1. t[n] - t[n - 1] = 0 - 1 - Room(r + 2, n) /\ t[n] \in Int /\ t[n - 1] \in Int
      BY <2>1, <2>2, <2>3, <2>4
    <3>2. CASE n \in U
      <4>1. g[n] <= 1 + Room(r + 2, n)
        BY <1>12, <3>2
      <4> QED
        BY <2>3, <3>1, <4>1
    <3>3. CASE n \notin U
      <4>1. g[n] = f[n]
        BY <1>13, <3>3
      <4> QED
        BY <2>3, <3>1, <4>1
    <3> QED
      BY <3>2, <3>3
  <2>5. CASE n = m
    <3>1. t[n] = 0 /\ t[n - 1] = 0 - Room(r + 1, n - 1)
      BY <2>1, <2>2, <2>5
    <3>2. g[n] <= 1 + Room(r + 2, n) /\ f[n] >= Room(r + 1, n)
      BY <1>6, <1>12, <1>14, <2>5
    <3> QED
      BY <2>3, <3>1, <3>2
  <2>6. CASE n > m
    <3>1. t[n] = 0 /\ t[n - 1] = 0
      BY <2>1, <2>2, <2>6
    <3>2. n \notin U
      BY <1>6, <2>1, <2>6
    <3>3. g[n] = f[n]
      BY <1>13, <3>2
    <3> QED
      BY <2>3, <3>1, <3>3
  <2> QED
    BY <2>1, <2>4, <2>5, <2>6
<1>16. t \in [0 .. num_drivers -> Int] /\ t[0] = 0 /\ t[num_drivers] = 0
  <2>1. \A n \in 0 .. num_drivers : t[n] \in Int
    BY <1>10
  <2>2. 0 \in 0 .. num_drivers /\ num_drivers \in 0 .. num_drivers /\ ~(num_drivers < m) /\ 0 < m
    BY <1>2, <1>7
  <2>3. Room(r + 1, 0) = 0
    BY <1>2, <2>2, RoomValues
  <2> QED
    BY <2>1, <2>2, <2>3
<1> HIDE DEF f, g, t, I
<1>17. Total(f) \in Int /\ Total(g) \in Int /\ Total(g) + 0 <= Total(f)
  BY <1>9, <1>15, <1>16, TotalBound DEF I
<1>18. puts[h] + Total(f) <= Room(0, num_drivers)
  BY <1>8 DEF HasRoom, f
<1>19. puts[h] \in Int /\ Room(0, num_drivers) \in Int
  BY DriversAreFinite, RoomValues DEF TypeOK
<1> QED
  BY <1>1, <1>17, <1>18, <1>19 DEF g

LEMMA RoomNext ==
  ASSUME CountInv, CountInv', RoomInv, [Next]_vars
  PROVE  RoomInv'
<1>0. TypeOK /\ TypeOK' /\ \A d \in Drivers : pc[d] \in {"put", "load", "store"} => netloc[d] \in Hosts
  BY DEF CountInv
<1> SUFFICES ASSUME NEW h \in Hosts PROVE HasRoom(h)'
  BY DEF RoomInv, HasRoom
<1>a. HasRoom(h)
  BY DEF RoomInv, HasRoom
<1>1. CASE UNCHANGED vars
  <2>1. \A e \in Drivers : NextCount(e, h)' = NextCount(e, h) /\ (MayPut(e, h)' <=> MayPut(e, h))
    BY <1>1 DEF vars, NextCount, MayPut, Within
  <2> QED
    BY <1>1, <1>a, <2>1, SameShares DEF vars
<1>2. ASSUME NEW d \in Drivers, MakeDriver(d) \/ GetPage(d) \/ LeavePage(d) PROVE HasRoom(h)'
  <2>1. netloc' = netloc /\ read' = read /\ netloc_count' = netloc_count /\ puts' = puts
        /\ (\A e \in Drivers : pc'[e] = pc[e] \/ (e = d /\ {pc[e], pc'[e]} \cap {"put", "load", "store"} = {}))
    BY <1>0, <1>2 DEF MakeDriver, GetPage, LeavePage, At, TypeOK
  <2>2. \A e \in Drivers : NextCount(e, h)' = NextCount(e, h) /\ (MayPut(e, h)' <=> MayPut(e, h))
    BY <2>1 DEF NextCount, MayPut, Within
  <2> QED
    BY <1>a, <2>1, <2>2, SameShares
<1>3. ASSUME NEW d \in Drivers, NEW x \in Hosts, TestLink(d, x) PROVE HasRoom(h)'
  <2>1. /\ netloc_count' = netloc_count /\ read' = read /\ puts' = puts /\ netloc'[d] = x
        /\ pc[d] = "page" /\ pc'[d] = (IF Within(x) THEN "put" ELSE "page")
        /\ \A e \in Drivers \ {d} : pc'[e] = pc[e] /\ netloc'[e] = netloc[e]
    BY <1>0, <1>3 DEF TestLink, At, TypeOK
  <2>2. \A e \in Drivers : NextCount(e, h)' = NextCount(e, h)
    BY <2>1 DEF NextCount
  <2>3. \A e \in Drivers \ {d} : MayPut(e, h)' <=> MayPut(e, h)
    BY <2>1 DEF MayPut, Within
  <2>4. MayPut(d, h)' <=> MayPut(d, h)
    BY <2>1 DEF MayPut, Within
  <2> QED
    BY <1>a, <2>1, <2>2, <2>3, <2>4, SameShares
<1>4. ASSUME NEW d \in Drivers, PutLink(d) PROVE HasRoom(h)'
  <2>1. CASE netloc[d] = h
    BY <1>0, <1>4, <1>a, <2>1, PutKeepsRoom
  <2>2. CASE netloc[d] # h
    <3>1. /\ netloc_count' = netloc_count /\ read' = read /\ netloc' = netloc /\ puts'[h] = puts[h]
          /\ \A e \in Drivers \ {d} : pc'[e] = pc[e]
      BY <1>0, <1>4, <2>2 DEF PutLink, At, TypeOK
    <3>2. \A e \in Drivers : NextCount(e, h)' = NextCount(e, h) /\ (MayPut(e, h)' <=> MayPut(e, h))
      BY <2>2, <3>1 DEF NextCount, MayPut, Within
    <3> QED
      BY <1>a, <3>1, <3>2, SameShares
  <2> QED
    BY <2>1, <2>2
<1>5. ASSUME NEW d \in Drivers, LoadCount(d) PROVE HasRoom(h)'
  <2>1. /\ netloc_count' = netloc_count /\ puts' = puts /\ netloc' = netloc
        /\ pc[d] = "load" /\ pc'[d] = "store" /\ read'[d] = netloc_count[netloc[d]]
        /\ \A e \in Drivers \ {d} : pc'[e] = pc[e] /\ read'[e] = read[e]
    BY <1>0, <1>5 DEF LoadCount, At, TypeOK
  <2>2. \A e \in Drivers \ {d} : NextCount(e, h)' = NextCount(e, h) /\ (MayPut(e, h)' <=> MayPut(e, h))
    BY <2>1 DEF NextCount, MayPut, Within
  <2>3. NextCount(d, h)' = NextCount(d, h) /\ (MayPut(d, h)' <=> MayPut(d, h))
    BY <2>1 DEF NextCount, MayPut, Within
  <2> QED
    BY <1>a, <2>1, <2>2, <2>3, SameShares
<1>6. ASSUME NEW d \in Drivers, StoreCount(d) PROVE HasRoom(h)'
  <2>1. CASE netloc[d] = h
    <3>1. read[d] \in Nat
      BY <1>0 DEF TypeOK
    <3>2. CASE read[d] + 1 < Limit
      BY <1>0, <1>6, <1>a, <2>1, <3>1, <3>2, EarlyStoreKeepsRoom
    <3>3. CASE ~(read[d] + 1 < Limit)
      BY <1>0, <1>6, <1>a, <2>1, <3>1, <3>3, LastStoreKeepsRoom
    <3> QED
      BY <3>2, <3>3
  <2>2. CASE netloc[d] # h
    <3>1. /\ netloc_count'[h] = netloc_count[h] /\ read' = read /\ netloc' = netloc /\ puts' = puts
          /\ \A e \in Drivers \ {d} : pc'[e] = pc[e]
      BY <1>0, <1>6, <2>2 DEF StoreCount, At, TypeOK
    <3>2. \A e \in Drivers : NextCount(e, h)' = NextCount(e, h) /\ (MayPut(e, h)' <=> MayPut(e, h))
      BY <2>2, <3>1 DEF NextCount, MayPut, Within
    <3> QED
      BY <1>a, <3>1, <3>2, SameShares
  <2> QED
    BY <2>1, <2>2
<1> QED
  BY <1>1, <1>2, <1>3, <1>4, <1>5, <1>6 DEF Next, Thread

LEMMA RoomInit == Init => RoomInv
<1> SUFFICES ASSUME Init, NEW h \in Hosts, NEW order \in Orders
             PROVE  puts[h] + Total(Share(order, h)) <= Room(0, num_drivers)
  BY DEF RoomInv
<1> DEFINE L == num_drivers
           f == Share(order, h)
           t == [n \in 0 .. L |-> Room(0, n)]
<1>1. L \in Nat /\ Limit \in Nat /\ 0 < Limit
  BY DriversAreFinite, CrawlAssumption
<1>2. \A n \in 1 .. L : order[n] \in Drivers
  BY OrderValues
<1>3. \A e \in Drivers : NextCount(e, h) = 1 /\ MayPut(e, h)
  BY <1>1 DEF Init, NextCount, MayPut, Within
<1>4. \A n \in 1 .. L : f[n] = Room(1, n) + 1
  BY <1>2, <1>3 DEF Share
<1>5. \A n \in 0 .. L : Room(0, n) \in Nat /\ Room(1, n) \in Nat
  BY RoomValues
<1>6. t \in [0 .. L -> Int] /\ \A n \in 0 .. L : t[n] = Room(0, n)
  BY <1>5
<1>7. ASSUME NEW n \in 1 .. L PROVE f[n] \in Int /\ t[n] - t[n - 1] = f[n]
  <2>1. n \in 0 .. L /\ n - 1 \in 0 .. L /\ n # 0
    BY <1>1
  <2>2. Room(0, n) = 1 + Room(0, n - 1) + Room(0 + 1, n)
    BY <1>1, <2>1, RoomValues
  <2>3. t[n] = Room(0, n) /\ t[n - 1] = Room(0, n - 1)
    BY <1>6, <2>1
  <2> HIDE DEF f, t, L
  <2> QED
    BY <1>4, <1>5, <2>1, <2>2, <2>3
<1>8. f \in [1 .. L -> Int]
  <2>1. f = [n \in 1 .. L |-> f[n]]
    BY DEF Share
  <2> HIDE DEF f
  <2> QED
    BY <1>7, <2>1
<1>9. 0 \in 0 .. L /\ L \in 0 .. L
  BY <1>1
<1>10. t[0] = 0
  BY <1>6, <1>9, RoomValues
<1>11. PICK s \in [0 .. L -> Int] :
         s[0] = 0 /\ (\A n \in 1 .. L : s[n] - s[n - 1] = f[n]) /\ Total(f) = s[L]
  BY <1>8, TotalIsSum
<1> HIDE DEF f, t, L
<1>12. ASSUME NEW n \in 1 .. L PROVE s[n] - s[n - 1] <= t[n] - t[n - 1]
  BY <1>7, <1>11
<1>13. s[L] <= t[L]
  <2>1. s[0] <= t[0] /\ t \in [0 .. L -> Int] /\ s \in [0 .. L -> Int]
    BY <1>6, <1>10, <1>11
  <2> QED
    BY <1>1, <1>12, <2>1, SmallerSteps
<1>14. puts[h] = 0 /\ s[L] \in Int
  BY <1>9, <1>11 DEF Init
<1>15. puts[h] + Total(f) <= Room(0, L)
  BY <1>5, <1>6, <1>9, <1>11, <1>13, <1>14
<1> QED
  BY <1>15 DEF f, L

LEMMA BoundedByRoom ==
  ASSUME TypeOK, RoomInv
  PROVE  WorstCase
<1> SUFFICES ASSUME NEW h \in Hosts PROVE puts[h] <= Ways(Limit + num_drivers, num_drivers) - 1
  BY DEF WorstCase, MostPuts
<1> DEFINE L == num_drivers
<1>1. L \in Nat /\ 0 \in 0 .. L /\ L \in 0 .. L /\ \A n \in 1 .. L : n \in 0 .. L
  BY DriversAreFinite
<1>2. PICK order \in Orders : TRUE
  BY CrawlAssumption, FS_CardinalityType DEF Orders, ExistsBijection, num_drivers
<1> DEFINE f == Share(order, h)
<1>3. ASSUME NEW n \in 1 .. L PROVE f[n] \in Nat
  <2>1. order[n] \in Drivers
    BY OrderValues
  <2>2. NextCount(order[n], h) \in Nat
    BY <2>1 DEF NextCount, TypeOK
  <2>3. Room(NextCount(order[n], h), n) \in Nat
    BY <1>1, <2>2, RoomValues
  <2> QED
    BY <2>3 DEF Share
<1>4. f \in [1 .. L -> Int]
  <2>1. f = [n \in 1 .. L |-> f[n]]
    BY DEF Share
  <2> HIDE DEF f
  <2> QED
    BY <1>3, <2>1
<1>5. PICK s \in [0 .. L -> Int] :
        s[0] = 0 /\ (\A n \in 1 .. L : s[n] - s[n - 1] = f[n]) /\ Total(f) = s[L]
  BY <1>4, TotalIsSum
<1> DEFINE z == [n \in 0 .. L |-> 0]
<1>6. z \in [0 .. L -> Int] /\ z[0] <= s[0]
  BY <1>1, <1>5
<1>7. ASSUME NEW n \in 1 .. L PROVE z[n] - z[n - 1] <= s[n] - s[n - 1]
  <2>1. n \in 0 .. L /\ n - 1 \in 0 .. L
    BY <1>1
  <2>2. z[n] = 0 /\ z[n - 1] = 0
    BY <2>1
  <2> HIDE DEF z, f
  <2> QED
    BY <1>3, <1>5, <2>2
<1>8. z[L] = 0
  BY <1>1
<1> HIDE DEF z, f, L
<1>9. 0 <= s[L]
  BY <1>1, <1>5, <1>6, <1>7, <1>8, SmallerSteps
<1>10. puts[h] + s[L] <= Room(0, L)
  BY <1>2, <1>5 DEF RoomInv, f, L
<1>11. puts[h] \in Nat /\ s[L] \in Int /\ Room(0, L) \in Nat
  BY <1>1, <1>5, RoomValues DEF TypeOK, L
<1>12. puts[h] <= Room(0, L)
  BY <1>9, <1>10, <1>11
<1>13. Room(0, L) = Ways(Limit + L, L) - 1
  <2>1. Limit \in Nat \ {0} /\ 0 \in 0 .. Limit /\ 0 < Limit /\ Limit - 0 + L = Limit + L
    BY <1>1, CrawlAssumption
  <2> QED
    BY <1>1, <2>1 DEF Room, Most, L
<1> QED
  BY <1>12, <1>13 DEF L

\* Neither what the threads have read and counted nor what they may still put goes
\* beyond what the invariant allows.
THEOREM CountsNeverExceed == Spec => []CrawlInv
<1>1. Init => CrawlInv
  BY CountInit, RoomInit DEF CrawlInv
<1>2. CrawlInv /\ [Next]_vars => CrawlInv'
  BY CountNext, RoomNext DEF CrawlInv
<1> QED
  BY <1>1, <1>2, PTL DEF Spec

\* However the threads interleave, no link is turned away before the limit is met.
THEOREM NoHostIsCutShort == Spec => []NotCutShort
<1>1. CrawlInv => NotCutShort
  <2> SUFFICES ASSUME CrawlInv, NEW h \in Hosts, ~Within(h) PROVE puts[h] >= Limit
    BY DEF NotCutShort
  <2>1. netloc_count[h] \in Nat /\ puts[h] \in Nat /\ netloc_count[h] + Cardinality(Counting(h)) <= puts[h]
    BY DEF CrawlInv, CountInv, TypeOK
  <2>2. Cardinality(Counting(h)) \in Nat
    BY CountingFinite
  <2> QED
    BY <2>1, <2>2, CrawlAssumption DEF Within
<1> QED
  BY <1>1, CountsNeverExceed, PTL

\* However many threads read and write the count of a host without a lock, no more
\* links of it are put than there are ways to choose the threads out of them and
\* the limit together, less one.
THEOREM OverrunIsBounded == Spec => []WorstCase
<1>1. CrawlInv => WorstCase
  BY BoundedByRoom DEF CrawlInv, CountInv
<1> QED
  BY <1>1, CountsNeverExceed, PTL

-----------------------------------------------------------------------------
(* ClientHellos and flows of packets of which more has been read.          *)

View == [key : Keys, hellos : SUBSET Nat, named : BOOLEAN, whole : BOOLEAN]

LEMMA HelloPair ==
  ASSUME NEW N \in Nat, NEW p \in [1 .. N -> View], NEW h
  PROVE  h \in Hellos(p) <=> \E n \in 1 .. N : \E r \in p[n].hellos : h = <<n, r>>
BY DEF Hellos

LEMMA HelloTyped ==
  ASSUME NEW N \in Nat, NEW p \in [1 .. N -> View], NEW h \in Hellos(p)
  PROVE  /\ h[1] \in 1 .. N /\ h[2] \in Nat /\ h[2] \in p[h[1]].hellos /\ h = <<h[1], h[2]>>
         /\ KeyOf(p, h) \in Keys
<1>1. PICK n \in 1 .. N : \E r \in p[n].hellos : h = <<n, r>>
  BY HelloPair
<1>2. PICK r \in p[n].hellos : h = <<n, r>>
  BY <1>1
<1>3. p[n] \in View
  OBVIOUS
<1> QED
  BY <1>2, <1>3 DEF View, KeyOf

LEMMA InvKeyTwice ==
  ASSUME NEW key \in Keys
  PROVE  InvKey(key) \in Keys /\ InvKey(InvKey(key)) = key /\ InvKey(key) # key
BY DEF Keys, InvKey

\* Of two ClientHellos one comes first, or they are the same.
LEMMA OneIsLatest ==
  ASSUME NEW N \in Nat, NEW p \in [1 .. N -> View],
         NEW g \in Hellos(p), NEW h \in Hellos(p), Latest(p, g), Latest(p, h), KeyOf(p, g) = KeyOf(p, h)
  PROVE  g = h
<1>1. /\ g[1] \in Nat /\ g[2] \in Nat /\ g = <<g[1], g[2]>>
      /\ h[1] \in Nat /\ h[2] \in Nat /\ h = <<h[1], h[2]>>
  BY HelloTyped
<1>2. ~Before(g, h) /\ ~Before(h, g)
  BY DEF Latest
<1>3. g[1] = h[1] /\ g[2] = h[2]
  BY <1>1, <1>2 DEF Before
<1> QED
  BY <1>1, <1>3

\* Up to the last packet the last ClientHello is the latest.
LEMMA LastIsLatest ==
  ASSUME NEW N \in Nat, NEW p \in [1 .. N -> View], NEW h \in Hellos(p)
  PROVE  LastHello(p, h, N) <=> Latest(p, h)
<1>1. h[1] <= N /\ \A g \in Hellos(p) : g[1] <= N
  BY HelloTyped
<1> QED
  BY <1>1 DEF LastHello, Latest

LEMMA SameFlow ==
  ASSUME NEW p, NEW q, NEW h, KeyOf(q, h) = KeyOf(p, h),
         FromClient(q, h) = FromClient(p, h), FromServer(q, h) = FromServer(p, h),
         IsNamed(q, h) <=> IsNamed(p, h)
  PROVE  FlowOf(q, h) = FlowOf(p, h)
<1>1. IsNamed(q, h) = IsNamed(p, h)
  BY DEF IsNamed
<1> QED
  BY <1>1 DEF FlowOf

\* LastHello depends on the ClientHellos of the same key alone.
LEMMA SameLast ==
  ASSUME NEW p, NEW q, NEW h, NEW n, KeyOf(q, h) = KeyOf(p, h),
         \A g : g \in Hellos(q) /\ KeyOf(q, g) = KeyOf(p, h) /\ g[1] <= n <=>
                g \in Hellos(p) /\ KeyOf(p, g) = KeyOf(p, h) /\ g[1] <= n
  PROVE  LastHello(q, h, n) <=> LastHello(p, h, n)
BY DEF LastHello

\* A packet of which nothing has been read.
LEMMA BlankPacket ==
  ASSUME NEW N \in Nat, NEW p \in [1 .. N -> View], NEW q \in [1 .. N + 1 -> View],
         \A n \in 1 .. N : q[n] = p[n],
         q[N + 1].hellos = {}, ~q[N + 1].named, ~q[N + 1].whole
  PROVE  /\ Hellos(q) = Hellos(p)
         /\ \A h \in Hellos(p) : /\ KeyOf(q, h) = KeyOf(p, h)
                                 /\ FlowOf(q, h) = FlowOf(p, h)
                                 /\ Latest(q, h) <=> Latest(p, h)
<1>1. Hellos(q) = Hellos(p)
  <2>1. \A n \in 1 .. N + 1 : n \in 1 .. N \/ n = N + 1
    OBVIOUS
  <2>2. \A n \in 1 .. N : n \in 1 .. N + 1
    OBVIOUS
  <2>3. N + 1 \in Nat
    OBVIOUS
  <2>4. ASSUME NEW h PROVE h \in Hellos(q) <=> h \in Hellos(p)
    <3>1. h \in Hellos(p) <=> \E n \in 1 .. N : \E r \in p[n].hellos : h = <<n, r>>
      BY HelloPair
    <3>2. h \in Hellos(q) <=> \E n \in 1 .. N + 1 : \E r \in q[n].hellos : h = <<n, r>>
      BY <2>3, HelloPair
    <3> QED
      BY <2>1, <2>2, <3>1, <3>2
  <2> QED
    BY <2>4
<1>2. \A h \in Hellos(p) : KeyOf(q, h) = KeyOf(p, h)
  BY HelloTyped DEF KeyOf
<1>3. ASSUME NEW h \in Hellos(p) PROVE FlowOf(q, h) = FlowOf(p, h)
  <2>1. \A n : LastHello(q, h, n) <=> LastHello(p, h, n)
    BY <1>1, <1>2 DEF LastHello
  <2>2. ASSUME NEW key, NEW n \in 1 .. N PROVE n \in During(q, h, key) <=> n \in During(p, h, key)
    BY <2>1 DEF During
  <2>3. \A n : OneWay(q, KeyOf(p, h), n) <=> OneWay(p, KeyOf(p, h), n)
    BY <1>1, <1>2 DEF OneWay
  <2> DEFINE own == KeyOf(p, h)
  <2>4. /\ \A key : During(p, h, key) \subseteq 1 .. N /\ During(q, h, key) \subseteq 1 .. N + 1
        /\ \A n \in 1 .. N + 1 : q[n].whole \/ q[n].named => n \in 1 .. N
        /\ \A n \in 1 .. N : n \in 1 .. N + 1
    BY DEF During
  <2> HIDE DEF own
  <2>5. FromClient(q, h) = FromClient(p, h)
    <3>1. ASSUME NEW n PROVE n \in FromClient(q, h) <=> n \in FromClient(p, h)
      BY <1>2, <2>2, <2>4 DEF FromClient, own
    <3> QED
      BY <3>1 DEF FromClient
  <2>6. FromServer(q, h) = FromServer(p, h)
    <3>1. ASSUME NEW n PROVE n \in FromServer(q, h) <=> n \in FromServer(p, h)
      BY <1>2, <2>2, <2>3, <2>4 DEF FromServer, own
    <3> QED
      BY <3>1 DEF FromServer
  <2>7. IsNamed(q, h) <=> IsNamed(p, h)
    BY <1>2, <2>2, <2>4 DEF IsNamed, own
  <2> QED
    BY <1>2, <2>5, <2>6, <2>7, SameFlow
<1>4. \A h \in Hellos(p) : Latest(q, h) <=> Latest(p, h)
  BY <1>1, <1>2 DEF Latest
<1> QED
  BY <1>1, <1>2, <1>3, <1>4

\* A ClientHello in the last packet, after those already there.
HelloRead(N, p, q, r) ==
  /\ N \in Nat \ {0} /\ p \in [1 .. N -> View] /\ q \in [1 .. N -> View] /\ r \in Nat
  /\ \A n \in 1 .. N : n # N => q[n] = p[n]
  /\ q[N].key = p[N].key /\ q[N].hellos = p[N].hellos \cup {r} /\ q[N].named = p[N].named
  /\ ~p[N].whole /\ ~q[N].whole /\ \A s \in p[N].hellos : s < r

LEMMA OneMoreHello ==
  ASSUME NEW N, NEW p, NEW q, NEW r, HelloRead(N, p, q, r), NEW g, g = <<N, r>>, NEW key, key = p[N].key,
         NEW new, new = [key |-> key, start |-> N, end |-> -1, alpn |-> FALSE, client |-> 0, server |-> 0]
  PROVE     /\ Hellos(q) = Hellos(p) \cup {g} /\ g \notin Hellos(p)
            /\ KeyOf(q, g) = key /\ Latest(q, g)
            /\ FlowOf(q, g) = new
            /\ \A h \in Hellos(p) : /\ KeyOf(q, h) = KeyOf(p, h)
                                    /\ FlowOf(q, h) = FlowOf(p, h)
                                    /\ Latest(q, h) <=> Latest(p, h) /\ KeyOf(p, h) # key
<1>0. /\ N \in Nat \ {0} /\ p \in [1 .. N -> View] /\ q \in [1 .. N -> View] /\ r \in Nat
      /\ \A n \in 1 .. N : n # N => q[n] = p[n]
      /\ q[N].key = p[N].key /\ q[N].hellos = p[N].hellos \cup {r} /\ q[N].named = p[N].named
      /\ ~p[N].whole /\ ~q[N].whole /\ \A s \in p[N].hellos : s < r
  BY DEF HelloRead
<1> USE <1>0
<1>1. /\ \A n \in 1 .. N : n # N => q[n] = p[n]
      /\ \A n \in 1 .. N : q[n].key = p[n].key /\ (q[n].whole <=> p[n].whole) /\ (q[n].named <=> p[n].named)
      /\ q[N].hellos = p[N].hellos \cup {r} /\ ~q[N].whole
      /\ N \in 1 .. N /\ p[N] \in View /\ key \in Keys
  <2>1. N \in 1 .. N /\ p[N] \in View
    OBVIOUS
  <2>2. key \in Keys
    BY <2>1 DEF View
  <2> QED
    BY <2>1, <2>2
<1>2. Hellos(q) = Hellos(p) \cup {g}
  <2>1. ASSUME NEW h PROVE h \in Hellos(q) <=> h \in Hellos(p) \/ h = g
    <3>1. \A x \in {p, q} : h \in Hellos(x) <=> \E n \in 1 .. N : \E s \in x[n].hellos : h = <<n, s>>
      <4>1. DOMAIN p = 1 .. N /\ DOMAIN q = 1 .. N
        OBVIOUS
      <4> QED
        BY <4>1 DEF Hellos
    <3>2. h \in Hellos(q) <=> \E n \in 1 .. N : \E s \in q[n].hellos : h = <<n, s>>
      BY <3>1
    <3> QED
      BY <1>1, <3>1, <3>2
  <2> QED
    BY <2>1
<1>3. g \notin Hellos(p)
  <2>1. r \notin p[N].hellos
    BY <1>1 DEF View
  <2> QED
    BY <2>1, HelloTyped
<1>4. KeyOf(q, g) = key /\ \A h \in Hellos(p) : KeyOf(q, h) = KeyOf(p, h)
  BY <1>1, HelloTyped DEF KeyOf
<1>5. \A h \in Hellos(p) : Before(h, g) /\ ~Before(g, h)
  <2> SUFFICES ASSUME NEW h \in Hellos(p) PROVE Before(h, g) /\ ~Before(g, h)
    OBVIOUS
  <2>1. h[1] \in 1 .. N /\ h[2] \in Nat /\ h[2] \in p[h[1]].hellos
    BY HelloTyped
  <2>2. g[1] = N /\ g[2] = r
    OBVIOUS
  <2>3. CASE h[1] = N
    BY <2>1, <2>2, <2>3 DEF Before
  <2>4. CASE h[1] < N
    BY <2>1, <2>2, <2>4 DEF Before
  <2> QED
    BY <2>1, <2>3, <2>4
<1>6. ~Before(g, g)
  BY DEF Before
<1>7. Latest(q, g)
  BY <1>2, <1>5, <1>6 DEF Latest
<1>8. ASSUME NEW h \in Hellos(p)
      PROVE  Latest(q, h) <=> Latest(p, h) /\ KeyOf(p, h) # key
  BY <1>2, <1>4, <1>5 DEF Latest
<1>9. g[1] = N /\ \A n \in 1 .. N : n # N => ~(N <= n)
  OBVIOUS
<1>10. ASSUME NEW h \in Hellos(p)
       PROVE  FlowOf(q, h) = FlowOf(p, h)
  <2>1. KeyOf(p, h) \in Keys
    BY HelloTyped
  <2> DEFINE own == KeyOf(p, h)
             other == InvKey(own)
  <2>2. own # other /\ InvKey(other) = own
    BY <2>1, InvKeyTwice
  <2> HIDE DEF own, other
  <2>3. \A n \in 1 .. N : n # N => (LastHello(q, h, n) <=> LastHello(p, h, n))
    BY <1>2, <1>4, <1>9 DEF LastHello
  <2>4. own # key => (LastHello(q, h, N) <=> LastHello(p, h, N))
    BY <1>2, <1>4, <1>9 DEF LastHello, own
  <2>5. \A n \in 1 .. N : n # N => (OneWay(q, own, n) <=> OneWay(p, own, n))
    BY <1>2, <1>4, <1>9 DEF OneWay
  <2>6. FromClient(q, h) = FromClient(p, h)
    BY <1>1, <1>4, <2>3 DEF FromClient, During
  <2>7. FromServer(q, h) = FromServer(p, h)
    BY <1>1, <1>4, <2>3, <2>5 DEF FromServer, During, own
  <2>8. IsNamed(q, h) <=> IsNamed(p, h)
    <3>1. \A n \in 1 .. N : n \in During(q, h, other) <=> n \in During(p, h, other)
      BY <1>1, <2>2, <2>3, <2>4 DEF During
    <3>2. During(q, h, other) \subseteq 1 .. N /\ During(p, h, other) \subseteq 1 .. N
      BY DEF During
    <3> QED
      BY <1>1, <1>4, <3>1, <3>2 DEF IsNamed, own, other
  <2> QED
    BY <1>4, <2>6, <2>7, <2>8, SameFlow
<1>11. FlowOf(q, g) = [key |-> key, start |-> N, end |-> -1, alpn |-> FALSE, client |-> 0, server |-> 0]
  <2>1. InvKey(key) # key
    BY <1>1, InvKeyTwice
  <2>2. \A n \in 1 .. N : LastHello(q, g, n) => n = N
    BY <1>9 DEF LastHello
  <2>3. FromClient(q, g) = {} /\ FromServer(q, g) = {} /\ ~IsNamed(q, g)
    BY <1>1, <1>4, <2>1, <2>2 DEF FromClient, FromServer, IsNamed, During
  <2>4. IsNamed(q, g) = FALSE
    BY <2>3 DEF IsNamed
  <2>5. Max({} \cup {} \cup {-1}) = -1
    BY DEF Max
  <2>6. Cardinality({}) = 0
    BY FS_EmptySet
  <2> QED
    BY <1>4, <1>9, <2>3, <2>4, <2>5, <2>6 DEF FlowOf
<1> QED
  BY <1>2, <1>3, <1>4, <1>7, <1>8, <1>10, <1>11

LEMMA MaxOf ==
  ASSUME NEW N \in Nat, NEW S \in SUBSET (-1 .. N), S # {}
  PROVE  Max(S) \in S /\ \A x \in S : x <= Max(S)
<1> DEFINE T == {N - x : x \in S}
<1>1. \A x \in S : x \in Int /\ x <= N
  OBVIOUS
<1>2. T \subseteq Nat /\ T # {}
  <2>1. \A x \in S : N - x \in Nat
    BY <1>1
  <2> QED
    BY <2>1
<1>3. PICK m \in T : \A n \in T : m <= n
  BY <1>2, LeastNumber
<1>4. PICK y \in S : m = N - y
  BY <1>3
<1>5. \A x \in S : y >= x
  <2> SUFFICES ASSUME NEW x \in S PROVE y >= x
    OBVIOUS
  <2>1. N - x \in T
    OBVIOUS
  <2>2. N - y <= N - x /\ x \in Int /\ y \in Int
    BY <1>1, <1>3, <1>4, <2>1
  <2> QED
    BY <2>2
<1>6. Max(S) \in S /\ \A x \in S : Max(S) >= x
  BY <1>5 DEF Max
<1>7. \A x \in S : x <= Max(S)
  <2>1. Max(S) \in Int
    BY <1>1, <1>6
  <2> HIDE DEF T
  <2> QED
    BY <1>1, <1>6, <2>1
<1> QED
  BY <1>6, <1>7

\* The packets of a flow are packets.
LEMMA FlowPackets ==
  ASSUME NEW N \in Nat, NEW p \in [1 .. N -> View], NEW h
  PROVE  /\ FromClient(p, h) \subseteq 1 .. N /\ IsFiniteSet(FromClient(p, h))
         /\ FromServer(p, h) \subseteq 1 .. N /\ IsFiniteSet(FromServer(p, h))
         /\ \A n \in 1 .. N : ~p[n].whole => n \notin FromClient(p, h) /\ n \notin FromServer(p, h)
<1>1. FromClient(p, h) \subseteq 1 .. N /\ FromServer(p, h) \subseteq 1 .. N
  BY DEF FromClient, FromServer, During
<1>2. IsFiniteSet(1 .. N)
  BY FS_Interval
<1>3. \A n \in 1 .. N : ~p[n].whole => n \notin FromClient(p, h) /\ n \notin FromServer(p, h)
  BY DEF FromClient, FromServer
<1> QED
  BY <1>1, <1>2, <1>3, FS_Subset

LEMMA FlowTyped ==
  ASSUME NEW N \in Nat, NEW p \in [1 .. N -> View], NEW h \in Hellos(p)
  PROVE  /\ FlowOf(p, h) \in Flow
         /\ FlowOf(p, h).key = KeyOf(p, h)
         /\ FlowOf(p, h).client \in Nat /\ FlowOf(p, h).server \in Nat
         /\ FlowOf(p, h).end \in Int /\ FlowOf(p, h).end <= N
         /\ FlowOf(p, h).alpn \in BOOLEAN /\ (FlowOf(p, h).alpn <=> IsNamed(p, h))
<1> DEFINE C == FromClient(p, h)
           S == FromServer(p, h)
           E == C \cup S \cup {-1}
<1>1. Cardinality(C) \in Nat /\ Cardinality(S) \in Nat
  BY FlowPackets, FS_CardinalityType
<1>2. E \in SUBSET (-1 .. N) /\ E # {}
  BY FlowPackets
<1> HIDE DEF E
<1>3. Max(E) \in -1 .. N
  BY <1>2, MaxOf
<1>4. IsNamed(p, h) \in BOOLEAN
  BY DEF IsNamed
<1> USE DEF E
<1>5. FlowOf(p, h) = [key |-> KeyOf(p, h), start |-> h[1], end |-> Max(E), alpn |-> IsNamed(p, h),
                      client |-> Cardinality(C), server |-> Cardinality(S)]
  BY DEF FlowOf
<1>6. h[1] \in Nat /\ KeyOf(p, h) \in Keys
  BY HelloTyped
<1> HIDE DEF C, S, E
<1> QED
  BY <1>1, <1>3, <1>4, <1>5, <1>6 DEF Flow

LEMMA FlowRecord ==
  ASSUME NEW f \in Flow
  PROVE  f = [key |-> f.key, start |-> f.start, end |-> f.end, alpn |-> f.alpn,
              client |-> f.client, server |-> f.server]
BY DEF Flow

LEMMA FlowNamed ==
  ASSUME NEW f \in Flow
  PROVE  [f EXCEPT !.alpn = TRUE] =
        [key |-> f.key, start |-> f.start, end |-> f.end,
         alpn |-> TRUE, client |-> f.client, server |-> f.server]
<1> DEFINE g == [f EXCEPT !.alpn = TRUE]
<1>1. g \in Flow
  BY DEF Flow
<1>2. /\ g.key = f.key /\ g.start = f.start /\ g.end = f.end
        /\ g.alpn = TRUE /\ g.client = f.client /\ g.server = f.server
  BY DEF Flow
<1> HIDE DEF g
<1>3. g = [key |-> g.key, start |-> g.start, end |-> g.end,
           alpn |-> g.alpn, client |-> g.client, server |-> g.server]
  BY <1>1, FlowRecord
<1>4. g = [key |-> f.key, start |-> f.start, end |-> f.end,
         alpn |-> TRUE, client |-> f.client, server |-> f.server]
  BY <1>2, <1>3
<1> QED
  BY <1>4 DEF g

LEMMA FlowCounts ==
  ASSUME NEW f \in Flow, NEW c \in Nat, NEW s \in Nat, NEW e \in Int
  PROVE  [f EXCEPT !.client = c, !.server = s, !.end = e] =
        [key |-> f.key, start |-> f.start, end |-> e,
         alpn |-> f.alpn, client |-> c, server |-> s]
<1> DEFINE g == [f EXCEPT !.client = c, !.server = s, !.end = e]
<1>1. g \in Flow
  BY DEF Flow
<1>2. /\ g.key = f.key /\ g.start = f.start /\ g.end = e
        /\ g.alpn = f.alpn /\ g.client = c /\ g.server = s
  BY DEF Flow
<1> HIDE DEF g
<1>3. g = [key |-> g.key, start |-> g.start, end |-> g.end,
           alpn |-> g.alpn, client |-> g.client, server |-> g.server]
  BY <1>1, FlowRecord
<1>4. g = [key |-> f.key, start |-> f.start, end |-> e,
         alpn |-> f.alpn, client |-> c, server |-> s]
  BY <1>2, <1>3
<1> QED
  BY <1>4 DEF g

\* Reading on without a ClientHello.
NoHelloRead(N, p, q) ==
  /\ N \in Nat /\ p \in [1 .. N -> View] /\ q \in [1 .. N -> View]
  /\ \A n \in 1 .. N : q[n].key = p[n].key /\ q[n].hellos = p[n].hellos

LEMMA SameHellos ==
  ASSUME NEW N, NEW p, NEW q, NoHelloRead(N, p, q)
  PROVE  /\ Hellos(q) = Hellos(p)
         /\ \A h \in Hellos(p) :
              /\ KeyOf(q, h) = KeyOf(p, h)
              /\ Latest(q, h) <=> Latest(p, h)
              /\ \A key : During(q, h, key) = During(p, h, key)
              /\ \A key, n : OneWay(q, key, n) <=> OneWay(p, key, n)
<1> N \in Nat /\ p \in [1 .. N -> View] /\ q \in [1 .. N -> View]
  BY DEF NoHelloRead
<1>1. DOMAIN p = 1 .. N /\ DOMAIN q = 1 .. N
  OBVIOUS
<1>2. Hellos(q) = Hellos(p)
  <2>1. ASSUME NEW h PROVE h \in Hellos(q) <=> h \in Hellos(p)
    BY <1>1 DEF Hellos, NoHelloRead
  <2> QED
    BY <2>1
<1>3. \A h \in Hellos(p) : KeyOf(q, h) = KeyOf(p, h)
  BY HelloTyped DEF KeyOf, NoHelloRead
<1>4. ASSUME NEW h \in Hellos(p)
      PROVE  /\ Latest(q, h) <=> Latest(p, h)
             /\ \A key : During(q, h, key) = During(p, h, key)
             /\ \A key, n : OneWay(q, key, n) <=> OneWay(p, key, n)
  <2>1. Latest(q, h) <=> Latest(p, h)
    BY <1>2, <1>3 DEF Latest
  <2>2. \A n : LastHello(q, h, n) <=> LastHello(p, h, n)
    BY <1>2, <1>3 DEF LastHello
  <2>3. \A key : During(q, h, key) = During(p, h, key)
    BY <1>1, <2>2 DEF During, NoHelloRead
  <2>4. \A key, n : OneWay(q, key, n) <=> OneWay(p, key, n)
    BY <1>2, <1>3 DEF OneWay
  <2> QED
    BY <2>1, <2>3, <2>4
<1> QED
  BY <1>2, <1>3, <1>4

\* A protocol is named in the last packet: by the flow the other way.
LEMMA NamedPacket ==
  ASSUME NEW N, NEW p, NEW q, NoHelloRead(N, p, q), N # 0,
         \A n \in 1 .. N : /\ q[n].whole = p[n].whole
                           /\ n # N => q[n].named = p[n].named,
         q[N].named
  PROVE  /\ Hellos(q) = Hellos(p)
         /\ \A h \in Hellos(p) :
              /\ KeyOf(q, h) = KeyOf(p, h)
              /\ Latest(q, h) <=> Latest(p, h)
              /\ Latest(p, h) /\ KeyOf(p, h) = InvKey(p[N].key) =>
                   FlowOf(q, h) = [FlowOf(p, h) EXCEPT !.alpn = TRUE]
              /\ ~(Latest(p, h) /\ KeyOf(p, h) = InvKey(p[N].key)) =>
                   FlowOf(q, h) = FlowOf(p, h)
<1>1. /\ \A n \in 1 .. N : /\ q[n].key = p[n].key /\ q[n].hellos = p[n].hellos
                           /\ q[n].whole = p[n].whole
                           /\ n # N => q[n].named = p[n].named
      /\ N \in Nat \ {0} /\ N \in 1 .. N /\ q[N].named /\ p[N].key \in Keys /\ p \in [1 .. N -> View]
  <2>1. N \in Nat /\ N \in 1 .. N /\ p \in [1 .. N -> View]
    BY DEF NoHelloRead
  <2>2. p[N] \in View
    BY <2>1
  <2>3. p[N].key \in Keys
    BY <2>2 DEF View
  <2> QED
    BY <2>1, <2>3 DEF NoHelloRead
<1>2. /\ Hellos(q) = Hellos(p)
      /\ \A h \in Hellos(p) :
              /\ KeyOf(q, h) = KeyOf(p, h)
              /\ Latest(q, h) <=> Latest(p, h)
              /\ \A key : During(q, h, key) = During(p, h, key)
              /\ \A key, n : OneWay(q, key, n) <=> OneWay(p, key, n)
  BY SameHellos
<1>3. ASSUME NEW h \in Hellos(p)
      PROVE  /\ Latest(p, h) /\ KeyOf(p, h) = InvKey(p[N].key) =>
                  FlowOf(q, h) = [FlowOf(p, h) EXCEPT !.alpn = TRUE]
             /\ ~(Latest(p, h) /\ KeyOf(p, h) = InvKey(p[N].key)) =>
                  FlowOf(q, h) = FlowOf(p, h)
  <2> DEFINE own == KeyOf(p, h)
  <2>1. FromClient(q, h) = FromClient(p, h) /\ FromServer(q, h) = FromServer(p, h)
    <3>1. \A k : During(p, h, k) \subseteq 1 .. N
      BY <1>1 DEF During
    <3>2. ASSUME NEW n
          PROVE  /\ n \in FromClient(q, h) <=> n \in FromClient(p, h)
                 /\ n \in FromServer(q, h) <=> n \in FromServer(p, h)
      <4> DEFINE D == During(p, h, own)
                 B == During(p, h, InvKey(own))
      <4>1. /\ n \in FromClient(q, h) <=> n \in D /\ q[n].whole
            /\ n \in FromClient(p, h) <=> n \in D /\ p[n].whole
            /\ n \in FromServer(q, h) <=> n \in B /\ q[n].whole /\ OneWay(p, own, n)
            /\ n \in FromServer(p, h) <=> n \in B /\ p[n].whole /\ OneWay(p, own, n)
        BY <1>2 DEF FromClient, FromServer
      <4>2. n \in D \/ n \in B => n \in 1 .. N
        BY <3>1
      <4> HIDE DEF D, B
      <4> QED
        BY <1>1, <4>1, <4>2 DEF D, B
    <3> QED
      BY <3>2 DEF FromClient, FromServer
  <2>2. own \in Keys /\ (own = InvKey(p[N].key) <=> InvKey(own) = p[N].key)
    <3>1. own \in Keys
      BY <1>1, HelloTyped
    <3> QED
      BY <1>1, <3>1, InvKeyTwice
  <2>3. N \in During(p, h, InvKey(own)) <=> Latest(p, h) /\ own = InvKey(p[N].key)
    BY <1>1, <2>2, LastIsLatest DEF During
  <2>4. \A key : During(p, h, key) \subseteq 1 .. N
    BY <1>1 DEF During
  <2> HIDE DEF own
  <2>5. IsNamed(q, h) <=> IsNamed(p, h) \/ N \in During(p, h, InvKey(own))
    <3> DEFINE D == During(p, h, InvKey(own))
    <3>1. (IsNamed(q, h) <=> \E n \in D : q[n].named) /\ (IsNamed(p, h) <=> \E n \in D : p[n].named)
      BY <1>2 DEF IsNamed, own
    <3>2. D \subseteq 1 .. N
      BY <2>4
    <3> HIDE DEF D
    <3>3. \A n \in D : q[n].named <=> p[n].named \/ n = N
      BY <1>1, <3>2
    <3> QED
      BY <3>1, <3>3 DEF D
  <2>6. IsNamed(p, h) \in BOOLEAN /\ IsNamed(q, h) \in BOOLEAN
    BY DEF IsNamed
  <2>7. CASE Latest(p, h) /\ own = InvKey(p[N].key)
    <3>1. IsNamed(q, h) = TRUE
      BY <2>3, <2>5, <2>6, <2>7
    <3> DEFINE f == FlowOf(p, h)
    <3>2. FlowOf(q, h) = [key |-> f.key, start |-> f.start, end |-> f.end, alpn |-> TRUE,
                          client |-> f.client, server |-> f.server]
      BY <1>2, <2>1, <3>1 DEF FlowOf
    <3>3. [f EXCEPT !.alpn = TRUE] = [key |-> f.key, start |-> f.start, end |-> f.end,
                                      alpn |-> TRUE, client |-> f.client, server |-> f.server]
      <4>1. f \in Flow
        BY <1>1, FlowTyped
      <4> HIDE DEF f
      <4> QED
        BY <4>1, FlowNamed
    <3> QED
      BY <2>7, <3>2, <3>3 DEF own
  <2>8. CASE ~(Latest(p, h) /\ own = InvKey(p[N].key))
    <3>1. IsNamed(q, h) <=> IsNamed(p, h)
      BY <2>3, <2>5, <2>8
    <3> QED
      BY <1>2, <2>1, <2>8, <3>1, SameFlow DEF own
  <2> QED
    BY <2>7, <2>8 DEF own
<1> QED
  BY <1>2, <1>3

\* One more packet, the last one, is of a flow.
LEMMA OneMorePacket ==
  ASSUME NEW N \in Nat \ {0}, NEW S \in SUBSET (1 .. N), N \notin S, NEW T \in SUBSET (1 .. N)
  PROVE  /\ Cardinality(S \cup {N}) = Cardinality(S) + 1
         /\ Max(S \cup {N} \cup T \cup {-1}) = N
         /\ Max(T \cup (S \cup {N}) \cup {-1}) = N
<1>1. IsFiniteSet(S)
  <2>1. IsFiniteSet(1 .. N)
    BY FS_Interval
  <2> QED
    BY <2>1, FS_Subset
<1>2. Cardinality(S \cup {N}) = Cardinality(S) + 1
  BY <1>1, FS_AddElement
<1> DEFINE E == S \cup {N} \cup T \cup {-1}
<1>3. E \in SUBSET (-1 .. N) /\ N \in E /\ E # {}
  OBVIOUS
<1>4. E = T \cup (S \cup {N}) \cup {-1}
  OBVIOUS
<1> HIDE DEF E
<1>5. Max(E) \in E /\ \A x \in E : x <= Max(E)
  BY <1>3, MaxOf
<1>6. Max(E) = N
  <2> DEFINE m == Max(E)
  <2>1. m \in -1 .. N /\ N <= m
    BY <1>3, <1>5
  <2> HIDE DEF m
  <2>2. m = N
    BY <2>1
  <2> QED
    BY <2>2 DEF m
<1> QED
  BY <1>2, <1>4, <1>6 DEF E

\* A flow with other counts.
Recount(f, client, server, end) ==
  [key |-> f.key, start |-> f.start, end |-> end, alpn |-> f.alpn,
   client |-> client, server |-> server]

\* The last packet is counted: for the latest flow of its key, or, when its key has
\* none, for that of the other direction.
LEMMA WholePacket ==
  ASSUME NEW N, NEW p, NEW q, NoHelloRead(N, p, q), N # 0,
         \A n \in 1 .. N : /\ q[n].named = p[n].named
                           /\ n # N => q[n].whole = p[n].whole,
         q[N].whole, ~p[N].whole
  PROVE  LET key == p[N].key
             taken == \E g \in Hellos(p) : KeyOf(p, g) = key
         IN /\ Hellos(q) = Hellos(p)
            /\ \A h \in Hellos(p) :
                 /\ KeyOf(q, h) = KeyOf(p, h)
                 /\ Latest(q, h) <=> Latest(p, h)
                 /\ Latest(p, h) /\ KeyOf(p, h) = key =>
                      LET f == FlowOf(p, h) IN FlowOf(q, h) = Recount(f, f.client + 1, f.server, N)
                 /\ Latest(p, h) /\ KeyOf(p, h) = InvKey(key) /\ ~taken =>
                      LET f == FlowOf(p, h) IN FlowOf(q, h) = Recount(f, f.client, f.server + 1, N)
                 /\ ~Latest(p, h) \/ (KeyOf(p, h) # key /\ (KeyOf(p, h) # InvKey(key) \/ taken)) =>
                      FlowOf(q, h) = FlowOf(p, h)
<1> DEFINE key == p[N].key
           taken == \E g \in Hellos(p) : KeyOf(p, g) = key
<1>1. /\ \A n \in 1 .. N : /\ q[n].key = p[n].key /\ q[n].hellos = p[n].hellos
                           /\ q[n].named = p[n].named
                           /\ n # N => q[n].whole = p[n].whole
      /\ N \in Nat \ {0} /\ N \in 1 .. N /\ q[N].whole /\ key \in Keys /\ p \in [1 .. N -> View]
  <2>1. N \in Nat /\ N \in 1 .. N /\ p \in [1 .. N -> View]
    BY DEF NoHelloRead
  <2>2. p[N] \in View
    BY <2>1
  <2>3. p[N].key \in Keys
    BY <2>2 DEF View
  <2> QED
    BY <2>1, <2>3 DEF NoHelloRead
<1>2. /\ Hellos(q) = Hellos(p)
      /\ \A h \in Hellos(p) :
              /\ KeyOf(q, h) = KeyOf(p, h)
              /\ Latest(q, h) <=> Latest(p, h)
              /\ \A k : During(q, h, k) = During(p, h, k)
              /\ \A k, n : OneWay(q, k, n) <=> OneWay(p, k, n)
  BY SameHellos
<1>3. ASSUME NEW h \in Hellos(p)
      PROVE  /\ Latest(p, h) /\ KeyOf(p, h) = key =>
                  LET f == FlowOf(p, h) IN FlowOf(q, h) = Recount(f, f.client + 1, f.server, N)
             /\ Latest(p, h) /\ KeyOf(p, h) = InvKey(key) /\ ~taken =>
                  LET f == FlowOf(p, h) IN FlowOf(q, h) = Recount(f, f.client, f.server + 1, N)
             /\ ~Latest(p, h) \/ (KeyOf(p, h) # key /\ (KeyOf(p, h) # InvKey(key) \/ taken)) =>
                  FlowOf(q, h) = FlowOf(p, h)
  <2> DEFINE own == KeyOf(p, h)
             C == FromClient(p, h)
             S == FromServer(p, h)
  <2>1. own \in Keys /\ InvKey(own) # own /\ (own = InvKey(key) <=> InvKey(own) = key)
        /\ InvKey(key) # key
    <3>1. own \in Keys
      BY <1>1, HelloTyped
    <3> QED
      BY <1>1, <3>1, InvKeyTwice
  <2>2. /\ N \in During(p, h, own) <=> Latest(p, h) /\ own = key
        /\ N \in During(p, h, InvKey(own)) <=> Latest(p, h) /\ own = InvKey(key)
    BY <1>1, <2>1, LastIsLatest DEF During
  <2>3. OneWay(p, own, N) /\ own = InvKey(key) <=> ~taken /\ own = InvKey(key)
    <3>1. \A g \in Hellos(p) : g[1] <= N
      BY <1>1, HelloTyped
    <3> QED
      BY <2>1, <3>1 DEF OneWay
  <2>4. IsNamed(q, h) = IsNamed(p, h)
    <3> DEFINE D == During(p, h, InvKey(own))
    <3>1. IsNamed(q, h) = (\E n \in D : q[n].named) /\ IsNamed(p, h) = (\E n \in D : p[n].named)
      BY <1>2 DEF IsNamed
    <3>2. D \subseteq 1 .. N
      BY <1>1 DEF During
    <3> HIDE DEF D
    <3>3. \A n \in D : q[n].named = p[n].named
      BY <1>1, <3>2
    <3> QED
      BY <3>1, <3>3
  <2>5. /\ C \in SUBSET (1 .. N) /\ N \notin C
        /\ S \in SUBSET (1 .. N) /\ N \notin S
    BY <1>1, FlowPackets
  <2>6. /\ FromClient(q, h) = IF Latest(p, h) /\ own = key THEN C \cup {N} ELSE C
        /\ FromServer(q, h) = IF Latest(p, h) /\ own = InvKey(key) /\ ~taken THEN S \cup {N} ELSE S
    <3> HIDE DEF own, key, taken
    <3>1. \A k : During(p, h, k) \subseteq 1 .. N
      BY <1>1 DEF During
    <3>2. ASSUME NEW n
          PROVE  /\ n \in FromClient(q, h) <=> n \in C \/ (n = N /\ N \in During(p, h, own))
                 /\ n \in FromServer(q, h) <=>
                      n \in S \/ (n = N /\ N \in During(p, h, InvKey(own)) /\ OneWay(p, own, N))
      <4> DEFINE D == During(p, h, own)
                 B == During(p, h, InvKey(own))
      <4>1. /\ n \in FromClient(q, h) <=> n \in D /\ q[n].whole
            /\ n \in C <=> n \in D /\ p[n].whole
            /\ n \in FromServer(q, h) <=> n \in B /\ q[n].whole /\ OneWay(p, own, n)
            /\ n \in S <=> n \in B /\ p[n].whole /\ OneWay(p, own, n)
        BY <1>2 DEF FromClient, FromServer, own
      <4>2. n \in D \/ n \in B => n \in 1 .. N
        BY <3>1
      <4> HIDE DEF D, B
      <4>3. n \in 1 .. N => (q[n].whole <=> p[n].whole \/ n = N)
        BY <1>1
      <4> HIDE DEF C, S
      <4> QED
        BY <4>1, <4>2, <4>3 DEF D, B
    <3>3. /\ N \in During(p, h, own) <=> Latest(p, h) /\ own = key
          /\ N \in During(p, h, InvKey(own)) /\ OneWay(p, own, N) <=>
               Latest(p, h) /\ own = InvKey(key) /\ ~taken
      BY <2>2, <2>3
    <3> HIDE DEF C, S
    <3>4. ASSUME NEW n
          PROVE  /\ n \in FromClient(q, h) <=> n \in IF Latest(p, h) /\ own = key THEN C \cup {N} ELSE C
                 /\ n \in FromServer(q, h) <=>
                      n \in IF Latest(p, h) /\ own = InvKey(key) /\ ~taken THEN S \cup {N} ELSE S
      BY <3>2, <3>3
    <3> QED
      BY <3>4 DEF FromClient, FromServer
  <2>7. /\ FlowOf(q, h) = [key |-> own, start |-> h[1],
                           end |-> Max(FromClient(q, h) \cup FromServer(q, h) \cup {-1}),
                           alpn |-> IsNamed(p, h), client |-> Cardinality(FromClient(q, h)),
                           server |-> Cardinality(FromServer(q, h))]
        /\ FlowOf(p, h) = [key |-> own, start |-> h[1], end |-> Max(C \cup S \cup {-1}),
                           alpn |-> IsNamed(p, h), client |-> Cardinality(C),
                           server |-> Cardinality(S)]
    BY <1>2, <2>4 DEF FlowOf
  <2> HIDE DEF own, key, taken, C, S
  <2>8. /\ Cardinality(C \cup {N}) = Cardinality(C) + 1 /\ Max(C \cup {N} \cup S \cup {-1}) = N
        /\ Cardinality(S \cup {N}) = Cardinality(S) + 1 /\ Max(C \cup (S \cup {N}) \cup {-1}) = N
    BY <1>1, <2>5, OneMorePacket
  <2> DEFINE f == FlowOf(p, h)
  <2>f. f \in Flow /\ f.key = own /\ f.start = h[1] /\ f.alpn = IsNamed(p, h)
        /\ f.client = Cardinality(C) /\ f.server = Cardinality(S) /\ f.end = Max(C \cup S \cup {-1})
    BY <1>1, <2>7, FlowTyped
  <2> HIDE DEF f
  <2>9. CASE Latest(p, h) /\ own = key
    <3>1. FlowOf(q, h) = Recount(f, f.client + 1, f.server, N)
      BY <2>1, <2>6, <2>7, <2>8, <2>9, <2>f DEF Recount
    <3> QED
      BY <2>1, <2>9, <3>1 DEF own, f
  <2>10. CASE Latest(p, h) /\ own = InvKey(key) /\ ~taken
    <3>1. FlowOf(q, h) = Recount(f, f.client, f.server + 1, N)
      BY <2>1, <2>6, <2>7, <2>8, <2>10, <2>f DEF Recount
    <3> QED
      BY <2>1, <2>10, <3>1 DEF own, f
  <2>11. CASE ~Latest(p, h) \/ (own # key /\ (own # InvKey(key) \/ taken))
    BY <2>1, <2>6, <2>7, <2>11 DEF own, f
  <2> QED
    BY <2>1, <2>9, <2>10, <2>11 DEF own
<1> QED
  BY <1>2, <1>3

-----------------------------------------------------------------------------
(* The flows held, as more of the capture is read.                         *)

LEMMA FlowKey ==
  ASSUME NEW p, NEW h
  PROVE  FlowOf(p, h).key = KeyOf(p, h)
BY DEF FlowOf

\* Without a new ClientHello the flows of the list stay, and those of the
\* dictionary may change where they are.
LEMMA StillHeld ==
  ASSUME NEW p, NEW q, NEW past, NEW last, NEW last2,
         Held(p, past, last), Len(last2) = Len(last), Hellos(q) = Hellos(p),
         \A h \in Hellos(p) : /\ KeyOf(q, h) = KeyOf(p, h)
                              /\ Latest(q, h) <=> Latest(p, h)
                              /\ ~Latest(p, h) => FlowOf(q, h) = FlowOf(p, h),
         \A i \in 1 .. Len(last), h \in Hellos(p) :
           Latest(p, h) /\ last[i] = FlowOf(p, h) => last2[i] = FlowOf(q, h)
  PROVE  Held(q, past, last2)
<1>1. \A i \in 1 .. Len(last) :
        \E h \in Hellos(p) : /\ Latest(p, h) /\ last2[i] = FlowOf(q, h)
                             /\ last2[i].key = last[i].key
  <2> SUFFICES ASSUME NEW i \in 1 .. Len(last)
               PROVE  \E h \in Hellos(p) : /\ Latest(p, h) /\ last2[i] = FlowOf(q, h)
                                           /\ last2[i].key = last[i].key
    OBVIOUS
  <2>1. PICK h \in Hellos(p) : Latest(p, h) /\ last[i] = FlowOf(p, h)
    BY DEF Held
  <2>2. last2[i] = FlowOf(q, h)
    BY <2>1
  <2>3. last2[i].key = last[i].key
    BY <2>1, <2>2, FlowKey
  <2> QED
    BY <2>1, <2>2, <2>3
<1>2. \A i, j \in 1 .. Len(last2) : last2[i].key = last2[j].key => i = j
  BY <1>1 DEF Held
<1>3. \A h \in Hellos(q) : \E i \in 1 .. Len(last2) : last2[i].key = KeyOf(q, h)
  BY <1>1 DEF Held
<1>4. /\ \A i \in 1 .. Len(past) : \E h \in Hellos(q) : ~Latest(q, h) /\ past[i] = FlowOf(q, h)
      /\ \A h \in Hellos(q) : ~Latest(q, h) => \E i \in 1 .. Len(past) : past[i] = FlowOf(q, h)
  <2>1. /\ \A i \in 1 .. Len(past) : \E h \in Hellos(p) : ~Latest(p, h) /\ past[i] = FlowOf(p, h)
        /\ \A h \in Hellos(p) : ~Latest(p, h) => \E i \in 1 .. Len(past) : past[i] = FlowOf(p, h)
    BY DEF Held
  <2> QED
    BY <2>1
<1>5. IsFiniteSet(Hellos(q)) /\ Cardinality(Hellos(q)) = Len(past) + Len(last2)
  BY DEF Held
<1>6. \A i \in 1 .. Len(last2) : \E h \in Hellos(q) : Latest(q, h) /\ last2[i] = FlowOf(q, h)
  BY <1>1
<1> QED
  BY <1>2, <1>3, <1>4, <1>5, <1>6 DEF Held

\* A new ClientHello g begins a flow, which takes the place of the one before it.
LEMMA BegunHeld ==
  ASSUME NEW N \in Nat, NEW p \in [1 .. N -> View], NEW q, NEW g, NEW new, NEW key,
         NEW past \in Seq(Flow), NEW last \in Seq(Flow),
         Held(p, past, last),
         Hellos(q) = Hellos(p) \cup {g}, g \notin Hellos(p),
         KeyOf(q, g) = key, Latest(q, g), FlowOf(q, g) = new, new \in Flow,
         \A h \in Hellos(p) : /\ KeyOf(q, h) = KeyOf(p, h)
                              /\ FlowOf(q, h) = FlowOf(p, h)
                              /\ Latest(q, h) <=> Latest(p, h) /\ KeyOf(p, h) # key
  PROVE  /\ (\A i \in 1 .. Len(last) : last[i].key # key) => Held(q, past, Append(last, new))
         /\ \A i \in 1 .. Len(last) :
              last[i].key = key => Held(q, Append(past, last[i]), [last EXCEPT ![i] = new])
<1>0. new.key = key
  BY FlowKey
<1>1. IsFiniteSet(Hellos(q)) /\ Cardinality(Hellos(q)) = Len(past) + Len(last) + 1
  <2>1. IsFiniteSet(Hellos(p)) /\ Cardinality(Hellos(p)) = Len(past) + Len(last)
    BY DEF Held
  <2> QED
    BY <2>1, FS_AddElement
<1>2. Len(past) \in Nat /\ Len(last) \in Nat
  OBVIOUS
<1>3. ASSUME \A i \in 1 .. Len(last) : last[i].key # key
      PROVE  Held(q, past, Append(last, new))
  <2> DEFINE next == Append(last, new)
  <2>1. /\ Len(next) = Len(last) + 1 /\ next[Len(last) + 1] = new
        /\ \A i \in 1 .. Len(last) : next[i] = last[i]
        /\ \A i \in 1 .. Len(next) : i \in 1 .. Len(last) \/ i = Len(last) + 1
        /\ \A i \in 1 .. Len(last) : i \in 1 .. Len(next)
        /\ Len(last) + 1 \in 1 .. Len(next)
    BY <1>2
  <2> HIDE DEF next
  <2>2. \A h \in Hellos(p) : KeyOf(p, h) # key /\ (Latest(q, h) <=> Latest(p, h))
    <3>1. \A h \in Hellos(p) : \E i \in 1 .. Len(last) : last[i].key = KeyOf(p, h)
      BY DEF Held
    <3> QED
      BY <1>3, <3>1
  <2>3. \A i, j \in 1 .. Len(next) : next[i].key = next[j].key => i = j
    BY <1>0, <1>3, <2>1 DEF Held
  <2>4. \A h \in Hellos(q) : \E i \in 1 .. Len(next) : next[i].key = KeyOf(q, h)
    BY <1>0, <2>1 DEF Held
  <2>5. \A i \in 1 .. Len(next) : \E h \in Hellos(q) : Latest(q, h) /\ next[i] = FlowOf(q, h)
    <3>1. ASSUME NEW i \in 1 .. Len(last)
          PROVE  \E h \in Hellos(q) : Latest(q, h) /\ next[i] = FlowOf(q, h)
      BY <2>1, <2>2 DEF Held
    <3> QED
      BY <2>1, <3>1
  <2>6. /\ \A i \in 1 .. Len(past) : \E h \in Hellos(q) : ~Latest(q, h) /\ past[i] = FlowOf(q, h)
        /\ \A h \in Hellos(q) : ~Latest(q, h) => \E i \in 1 .. Len(past) : past[i] = FlowOf(q, h)
    BY <2>2 DEF Held
  <2>7. Cardinality(Hellos(q)) = Len(past) + Len(next)
    BY <1>1, <1>2, <2>1
  <2> QED
    BY <1>1, <2>3, <2>4, <2>5, <2>6, <2>7 DEF Held, next
<1>4. ASSUME NEW k \in 1 .. Len(last), last[k].key = key
      PROVE  Held(q, Append(past, last[k]), [last EXCEPT ![k] = new])
  <2> DEFINE next == [last EXCEPT ![k] = new]
             list == Append(past, last[k])
  <2>1. /\ Len(next) = Len(last) /\ next[k] = new
        /\ \A i \in 1 .. Len(last) : i # k => next[i] = last[i]
    OBVIOUS
  <2>2. /\ Len(list) = Len(past) + 1 /\ list[Len(past) + 1] = last[k]
        /\ \A i \in 1 .. Len(past) : list[i] = past[i] /\ i \in 1 .. Len(list)
        /\ \A i \in 1 .. Len(list) : i \in 1 .. Len(past) \/ i = Len(past) + 1
        /\ Len(past) + 1 \in 1 .. Len(list)
    <3>1. last[k] \in Flow
      OBVIOUS
    <3> QED
      BY <1>2, <3>1
  <2> HIDE DEF next, list
  <2>3. PICK h0 \in Hellos(p) : Latest(p, h0) /\ last[k] = FlowOf(p, h0)
    BY DEF Held
  <2>4. KeyOf(p, h0) = key
    BY <1>4, <2>3, FlowKey
  <2>5. \A i \in 1 .. Len(last) : i # k => last[i].key # key
    BY <1>4 DEF Held
  <2>6. \A i, j \in 1 .. Len(next) : next[i].key = next[j].key => i = j
    <3>1. \A i, j \in 1 .. Len(last) : last[i].key = last[j].key => i = j
      BY DEF Held
    <3> QED
      BY <1>0, <2>1, <2>5, <3>1
  <2>7. \A h \in Hellos(q) : \E i \in 1 .. Len(next) : next[i].key = KeyOf(q, h)
    <3>1. ASSUME NEW h \in Hellos(p) PROVE \E i \in 1 .. Len(next) : next[i].key = KeyOf(q, h)
      <4>1. PICK i \in 1 .. Len(last) : last[i].key = KeyOf(p, h)
        BY DEF Held
      <4> QED
        BY <1>0, <1>4, <2>1, <4>1
    <3> QED
      BY <1>0, <2>1, <3>1
  <2>8. \A i \in 1 .. Len(next) : \E h \in Hellos(q) : Latest(q, h) /\ next[i] = FlowOf(q, h)
    <3>1. ASSUME NEW i \in 1 .. Len(last), i # k
          PROVE  \E h \in Hellos(q) : Latest(q, h) /\ next[i] = FlowOf(q, h)
      <4>1. PICK h \in Hellos(p) : Latest(p, h) /\ last[i] = FlowOf(p, h)
        BY DEF Held
      <4>2. KeyOf(p, h) # key
        BY <2>5, <3>1, <4>1, FlowKey
      <4> QED
        BY <2>1, <3>1, <4>1, <4>2
    <3> QED
      BY <2>1, <3>1
  <2>9. \A i \in 1 .. Len(list) : \E h \in Hellos(q) : ~Latest(q, h) /\ list[i] = FlowOf(q, h)
    <3>1. ASSUME NEW i \in 1 .. Len(past)
          PROVE  \E h \in Hellos(q) : ~Latest(q, h) /\ list[i] = FlowOf(q, h)
      <4>1. PICK h \in Hellos(p) : ~Latest(p, h) /\ past[i] = FlowOf(p, h)
        BY DEF Held
      <4> QED
        BY <2>2, <4>1
    <3> QED
      BY <2>2, <2>3, <2>4, <3>1
  <2>10. \A h \in Hellos(q) : ~Latest(q, h) => \E i \in 1 .. Len(list) : list[i] = FlowOf(q, h)
    <3> SUFFICES ASSUME NEW h \in Hellos(q), ~Latest(q, h)
                 PROVE  \E i \in 1 .. Len(list) : list[i] = FlowOf(q, h)
      OBVIOUS
    <3>1. h \in Hellos(p)
      OBVIOUS
    <3>2. CASE ~Latest(p, h)
      <4>1. PICK i \in 1 .. Len(past) : past[i] = FlowOf(p, h)
        BY <3>1, <3>2 DEF Held
      <4> QED
        BY <2>2, <3>1, <4>1
    <3>3. CASE Latest(p, h) /\ KeyOf(p, h) = key
      <4>1. h = h0
        BY <2>3, <2>4, <3>1, <3>3, OneIsLatest
      <4> QED
        BY <2>2, <2>3, <3>1, <4>1
    <3> QED
      BY <3>1, <3>2, <3>3
  <2>11. Cardinality(Hellos(q)) = Len(list) + Len(next)
    BY <1>1, <1>2, <2>1, <2>2
  <2> QED
    BY <1>1, <2>6, <2>7, <2>8, <2>9, <2>10, <2>11 DEF Held, next, list
<1> QED
  BY <1>3, <1>4

\* What is held is exactly the flows of the packets.
LEMMA HeldExact ==
  ASSUME NEW N \in Nat, NEW p \in [1 .. N -> View],
         NEW past \in Seq(Flow), NEW last \in Seq(Flow), Held(p, past, last)
  PROVE  /\ past \o last \in Seq(Flow)
         /\ Len(past \o last) = Cardinality(Hellos(p))
         /\ Range(past \o last) = {FlowOf(p, h) : h \in Hellos(p)}
<1> DEFINE all == past \o last
<1>1. all \in Seq(Flow) /\ Len(all) = Len(past) + Len(last) /\ Len(past) \in Nat /\ Len(last) \in Nat
  OBVIOUS
<1>2. /\ \A i \in 1 .. Len(past) : i \in 1 .. Len(all) /\ all[i] = past[i]
      /\ \A i \in 1 .. Len(last) : Len(past) + i \in 1 .. Len(all) /\ all[Len(past) + i] = last[i]
  BY <1>1
<1>3. \A i \in 1 .. Len(all) : i \in 1 .. Len(past)
                               \/ (i - Len(past) \in 1 .. Len(last) /\ all[i] = last[i - Len(past)])
  BY <1>1
<1> HIDE DEF all
<1>4. DOMAIN all = 1 .. Len(all)
  BY <1>1
<1>5. ASSUME NEW h \in Hellos(p) PROVE \E i \in 1 .. Len(all) : all[i] = FlowOf(p, h)
  <2>1. CASE ~Latest(p, h)
    <3>1. PICK i \in 1 .. Len(past) : past[i] = FlowOf(p, h)
      BY <2>1 DEF Held
    <3> QED
      BY <1>2, <3>1
  <2>2. CASE Latest(p, h)
    <3>1. PICK i \in 1 .. Len(last) : last[i].key = KeyOf(p, h)
      BY DEF Held
    <3>2. PICK g \in Hellos(p) : Latest(p, g) /\ last[i] = FlowOf(p, g)
      BY DEF Held
    <3>3. g = h
      <4>1. KeyOf(p, g) = KeyOf(p, h)
        BY <3>1, <3>2, FlowKey
      <4> QED
        BY <2>2, <3>2, <4>1, OneIsLatest
    <3> QED
      BY <1>2, <3>2, <3>3
  <2> QED
    BY <2>1, <2>2
<1>6. ASSUME NEW i \in 1 .. Len(all) PROVE \E h \in Hellos(p) : all[i] = FlowOf(p, h)
  <2>1. CASE i \in 1 .. Len(past)
    <3>1. PICK h \in Hellos(p) : ~Latest(p, h) /\ past[i] = FlowOf(p, h)
      BY <2>1 DEF Held
    <3> QED
      BY <1>2, <2>1, <3>1
  <2>2. CASE i - Len(past) \in 1 .. Len(last) /\ all[i] = last[i - Len(past)]
    BY <2>2 DEF Held
  <2> QED
    BY <1>3, <2>1, <2>2
<1>7. Range(all) = {FlowOf(p, h) : h \in Hellos(p)}
  <2>1. Range(all) = {all[i] : i \in 1 .. Len(all)}
    BY <1>4 DEF Range
  <2> QED
    BY <1>5, <1>6, <2>1
<1>8. Len(all) = Cardinality(Hellos(p))
  BY <1>1 DEF Held
<1> QED
  BY <1>1, <1>7, <1>8 DEF all

\* A protocol is named.
LEMMA NamedHeld ==
  ASSUME NEW N, NEW p, NEW q, NoHelloRead(N, p, q), N # 0,
         \A n \in 1 .. N : /\ q[n].whole = p[n].whole
                           /\ n # N => q[n].named = p[n].named,
         q[N].named,
         NEW past, NEW last \in Seq(Flow), Held(p, past, last),
         NEW last2, Len(last2) = Len(last),
         \A i \in 1 .. Len(last) :
           last2[i] = [last[i] EXCEPT !.alpn = @ \/ last[i].key = InvKey(p[N].key)]
  PROVE  Held(q, past, last2)
<1>1. /\ Hellos(q) = Hellos(p)
      /\ \A h \in Hellos(p) :
           /\ KeyOf(q, h) = KeyOf(p, h)
           /\ Latest(q, h) <=> Latest(p, h)
           /\ Latest(p, h) /\ KeyOf(p, h) = InvKey(p[N].key) =>
                FlowOf(q, h) = [FlowOf(p, h) EXCEPT !.alpn = TRUE]
           /\ ~(Latest(p, h) /\ KeyOf(p, h) = InvKey(p[N].key)) =>
                FlowOf(q, h) = FlowOf(p, h)
  BY NamedPacket
<1>2. ASSUME NEW f \in Flow, NEW b \in BOOLEAN
      PROVE  [f EXCEPT !.alpn = @ \/ b] = IF b THEN [f EXCEPT !.alpn = TRUE] ELSE f
  <2>1. f.alpn \in BOOLEAN
    BY DEF Flow
  <2>2. CASE b
    <3>1. (f.alpn \/ b) = TRUE
      BY <2>1, <2>2
    <3> QED
      BY <2>2, <3>1
  <2>3. CASE ~b
    <3>1. (f.alpn \/ b) = f.alpn
      BY <2>1, <2>3
    <3>2. [f EXCEPT !.alpn = f.alpn] = f
      BY DEF Flow
    <3> QED
      BY <2>3, <3>1, <3>2
  <2> QED
    BY <2>2, <2>3
<1>3. ASSUME NEW i \in 1 .. Len(last), NEW h \in Hellos(p), Latest(p, h), last[i] = FlowOf(p, h)
      PROVE  last2[i] = FlowOf(q, h)
  <2>1. last[i] \in Flow /\ last[i].key = KeyOf(p, h)
    BY <1>3, FlowKey
  <2> DEFINE b == last[i].key = InvKey(p[N].key)
  <2>2. b \in BOOLEAN /\ last2[i] = [last[i] EXCEPT !.alpn = @ \/ b]
    OBVIOUS
  <2>3. b <=> KeyOf(p, h) = InvKey(p[N].key)
    BY <2>1
  <2> HIDE DEF b
  <2>4. last2[i] = IF b THEN [last[i] EXCEPT !.alpn = TRUE] ELSE last[i]
    BY <1>2, <2>1, <2>2
  <2> QED
    BY <1>1, <1>3, <2>3, <2>4
<1> QED
  BY <1>1, <1>3, StillHeld

\* The dictionary has the keys of the ClientHellos.
LEMMA HeldKeys ==
  ASSUME NEW p, NEW past, NEW last, Held(p, past, last), NEW key
  PROVE  (\E g \in Hellos(p) : KeyOf(p, g) = key) <=> \E j \in 1 .. Len(last) : last[j].key = key
<1>1. /\ \A h \in Hellos(p) : \E i \in 1 .. Len(last) : last[i].key = KeyOf(p, h)
      /\ \A i \in 1 .. Len(last) : \E h \in Hellos(p) : last[i] = FlowOf(p, h)
  BY DEF Held
<1>2. ASSUME NEW j \in 1 .. Len(last) PROVE \E g \in Hellos(p) : KeyOf(p, g) = last[j].key
  <2>1. PICK h \in Hellos(p) : last[j] = FlowOf(p, h)
    BY <1>1
  <2> QED
    BY <2>1, FlowKey
<1> QED
  BY <1>1, <1>2

\* A packet is counted.
LEMMA CountedHeld ==
  ASSUME NEW N, NEW p, NEW q, NoHelloRead(N, p, q), N # 0,
         \A n \in 1 .. N : /\ q[n].named = p[n].named
                           /\ n # N => q[n].whole = p[n].whole,
         q[N].whole, ~p[N].whole,
         NEW past, NEW last, Held(p, past, last),
         NEW last2, Len(last2) = Len(last),
         \A i \in 1 .. Len(last) :
           LET f == last[i]
               key == p[N].key
               taken == \E j \in 1 .. Len(last) : last[j].key = key
           IN last2[i] = IF f.key = key THEN Recount(f, f.client + 1, f.server, N)
                         ELSE IF f.key = InvKey(key) /\ ~taken THEN Recount(f, f.client, f.server + 1, N)
                         ELSE f
  PROVE  Held(q, past, last2)
<1> DEFINE key == p[N].key
           taken == \E g \in Hellos(p) : KeyOf(p, g) = key
<1>1. /\ Hellos(q) = Hellos(p)
      /\ \A h \in Hellos(p) :
                 /\ KeyOf(q, h) = KeyOf(p, h)
                 /\ Latest(q, h) <=> Latest(p, h)
                 /\ Latest(p, h) /\ KeyOf(p, h) = key =>
                      LET f == FlowOf(p, h) IN FlowOf(q, h) = Recount(f, f.client + 1, f.server, N)
                 /\ Latest(p, h) /\ KeyOf(p, h) = InvKey(key) /\ ~taken =>
                      LET f == FlowOf(p, h) IN FlowOf(q, h) = Recount(f, f.client, f.server + 1, N)
                 /\ ~Latest(p, h) \/ (KeyOf(p, h) # key /\ (KeyOf(p, h) # InvKey(key) \/ taken)) =>
                      FlowOf(q, h) = FlowOf(p, h)
  BY WholePacket
<1>2. taken <=> \E j \in 1 .. Len(last) : last[j].key = key
  BY HeldKeys
<1> HIDE DEF taken, key
<1>3. ASSUME NEW i \in 1 .. Len(last), NEW h \in Hellos(p), Latest(p, h), last[i] = FlowOf(p, h)
      PROVE  last2[i] = FlowOf(q, h)
  <2> DEFINE f == FlowOf(p, h)
  <2>1. f.key = KeyOf(p, h)
    BY FlowKey
  <2>2. last2[i] = IF f.key = key THEN Recount(f, f.client + 1, f.server, N)
                   ELSE IF f.key = InvKey(key) /\ ~taken THEN Recount(f, f.client, f.server + 1, N)
                   ELSE f
    BY <1>2, <1>3 DEF key
  <2>3. /\ KeyOf(p, h) = key => FlowOf(q, h) = Recount(f, f.client + 1, f.server, N)
        /\ KeyOf(p, h) = InvKey(key) /\ ~taken => FlowOf(q, h) = Recount(f, f.client, f.server + 1, N)
        /\ KeyOf(p, h) # key /\ (KeyOf(p, h) # InvKey(key) \/ taken) => FlowOf(q, h) = f
    BY <1>1, <1>3
  <2> HIDE DEF f
  <2> QED
    BY <2>1, <2>2, <2>3
<1>4. \A h \in Hellos(p) : /\ KeyOf(q, h) = KeyOf(p, h)
                           /\ Latest(q, h) <=> Latest(p, h)
                           /\ ~Latest(p, h) => FlowOf(q, h) = FlowOf(p, h)
  BY <1>1
<1> QED
  BY <1>1, <1>3, <1>4, StillHeld

-----------------------------------------------------------------------------
(* The packets, as the program goes on.                                    *)

LEMMA PacketFacts ==
  ASSUME FlowsTypeOK
  PROVE  /\ now \in Nat /\ Packets \in [1 .. now -> View]
         /\ \A n \in 1 .. now :
              /\ capture[n].key \in Keys /\ Stream(n) \in Seq(Records)
              /\ Packets[n].key = capture[n].key
              /\ Packets[n].hellos = {r \in Reached(n) : Stream(n)[r] = "clientHello"}
              /\ Packets[n].named <=> \E r \in Reached(n) : Stream(n)[r] = "serverHello"
              /\ Packets[n].whole <=>
                   (~Pending(n) /\ \A r \in 1 .. Len(Stream(n)) : Stream(n)[r] # "partial")
<1>1. now \in Nat /\ \A n \in 1 .. now : capture[n] \in [key : Keys, stream : Streams]
  <2> DEFINE P == [key : Keys, stream : Streams]
  <2>1. capture \in Seq(P)
    BY DEF FlowsTypeOK
  <2> HIDE DEF P
  <2>2. Len(capture) \in Nat /\ \A n \in 1 .. Len(capture) : capture[n] \in P
    BY <2>1
  <2> QED
    BY <2>2 DEF P, now
<1>2. \A n \in 1 .. now : capture[n].key \in Keys /\ Stream(n) \in Seq(Records)
  BY <1>1, CaptureAssumption DEF Stream
<1>3. \A n \in 1 .. now : {r \in Reached(n) : Stream(n)[r] = "clientHello"} \subseteq Nat
  BY DEF Reached
<1> QED
  BY <1>1, <1>2, <1>3 DEF Packets, View

LEMMA PacketFactsNext ==
  ASSUME FlowsTypeOK'
  PROVE  /\ now' \in Nat /\ Packets' \in [1 .. now' -> View]
         /\ \A n \in 1 .. now' :
              /\ capture'[n].key \in Keys /\ Stream(n)' \in Seq(Records)
              /\ Packets'[n].key = capture'[n].key
              /\ Packets'[n].hellos = {r \in Reached(n)' : Stream(n)'[r] = "clientHello"}
              /\ Packets'[n].named <=> \E r \in Reached(n)' : Stream(n)'[r] = "serverHello"
              /\ Packets'[n].whole <=>
                   (~Pending(n)' /\ \A r \in 1 .. Len(Stream(n)') : Stream(n)'[r] # "partial")
<1>1. now' \in Nat /\ \A n \in 1 .. now' : capture'[n] \in [key : Keys, stream : Streams]
  <2> DEFINE P == [key : Keys, stream : Streams]
  <2>1. capture' \in Seq(P)
    BY DEF FlowsTypeOK
  <2> HIDE DEF P
  <2>2. Len(capture') \in Nat /\ \A n \in 1 .. Len(capture') : capture'[n] \in P
    BY <2>1
  <2> QED
    BY <2>2 DEF P, now
<1>2. \A n \in 1 .. now' : capture'[n].key \in Keys /\ Stream(n)' \in Seq(Records)
  BY <1>1, CaptureAssumption DEF Stream
<1>3. \A n \in 1 .. now' : {r \in Reached(n)' : Stream(n)'[r] = "clientHello"} \subseteq Nat
  BY DEF Reached
<1> QED
  BY <1>1, <1>2, <1>3 DEF Packets, View

\* Of packets no record of which is read in a step.
LEMMA OtherPackets ==
  ASSUME FlowsTypeOK, FlowsTypeOK',
         NEW n \in 1 .. now, n \in 1 .. now', capture'[n] = capture[n], ~Pending(n), ~Pending(n)'
  PROVE  Packets'[n] = Packets[n]
<1>1. Stream(n)' = Stream(n)
  BY DEF Stream
<1>2. Reached(n)' = Reached(n)
  BY <1>1 DEF Reached
<1> QED
  BY <1>1, <1>2 DEF Packets

\* The records read of the packet are those before the rest, todo.
LEMMA ReadSoFar ==
  ASSUME FlowsTypeOK, TodoInv, state = "records"
  PROVE  /\ now \in Nat \ {0} /\ now \in 1 .. now /\ Packet.stream = Stream(now)
         /\ Stream(now) \in Seq(Records) /\ todo \in Seq(Records)
         /\ Len(Stream(now)) - Len(todo) \in 0 .. Len(Stream(now))
         /\ Reached(now) = 1 .. Len(Stream(now)) - Len(todo)
<1>1. now \in Nat /\ now # 0 /\ todo \in Seq(Records) /\ Packet.stream = Stream(now)
  <2>1. now \in Nat /\ todo \in Seq(Records)
    BY DEF FlowsTypeOK, now
  <2> QED
    BY <2>1 DEF TodoInv, Packet, Stream
<1>2. now \in 1 .. now
  BY <1>1
<1>3. Stream(now) \in Seq(Records)
  BY <1>2, PacketFacts
<1>4. /\ Len(todo) <= Len(Stream(now)) /\ Len(todo) \in Nat /\ Len(Stream(now)) \in Nat
      /\ \A r \in 1 .. Len(Stream(now)) - Len(todo) : Stream(now)[r] # "partial"
  BY <1>1, <1>3 DEF TodoInv
<1>5. Pending(now)
  BY DEF Pending
<1> QED
  BY <1>1, <1>2, <1>3, <1>4, <1>5 DEF Reached

\* One more record is read, which can be.
LEMMA OneMoreRecord ==
  ASSUME NEW N, N = now, FlowsTypeOK, FlowsTypeOK', TodoInv, state = "records", state' = "records",
         capture' = capture, todo # <<>>, todo' = Tail(todo), Head(todo) # "partial"
  PROVE  LET r == Len(Stream(N)) - Len(todo) + 1
             p == Packets
             q == Packets'
         IN /\ TodoInv' /\ now' = N /\ N \in Nat \ {0} /\ N \in 1 .. N /\ r \in Nat
            /\ p \in [1 .. N -> View] /\ q \in [1 .. N -> View]
            /\ p[N].key = Packet.key /\ Packet.key \in Keys
            /\ \A n \in 1 .. N : n # N => q[n] = p[n]
            /\ q[N].key = p[N].key /\ ~p[N].whole /\ ~q[N].whole
            /\ \A s \in p[N].hellos : s < r
            /\ q[N].hellos = p[N].hellos \cup (IF Head(todo) = "clientHello" THEN {r} ELSE {})
            /\ q[N].named <=> p[N].named \/ Head(todo) = "serverHello"
<1> DEFINE s == Stream(N)
           r == Len(s) - Len(todo) + 1
           p == Packets
           q == Packets'
<1>1. /\ N \in Nat \ {0} /\ N \in 1 .. N /\ Packet.stream = s /\ s \in Seq(Records)
      /\ todo \in Seq(Records) /\ Len(s) - Len(todo) \in 0 .. Len(s)
      /\ Reached(N) = 1 .. Len(s) - Len(todo)
  BY ReadSoFar
<1>2. now' = N /\ Stream(N)' = s /\ Packet' = Packet /\ Pending(N) /\ Pending(N)'
  BY DEF Stream, Packet, Pending, now
<1>3. /\ r \in 1 .. Len(s) /\ Len(Tail(todo)) = Len(todo) - 1
      /\ \A i \in 1 .. Len(Tail(todo)) : Tail(todo)[i] = todo[i + 1] /\ i + 1 \in 1 .. Len(todo)
      /\ 1 \in 1 .. Len(todo) /\ todo[1] = Head(todo) /\ Len(todo) \in Nat /\ Len(s) \in Nat
  BY <1>1
<1>4. s[r] = Head(todo)
  BY <1>1, <1>3 DEF TodoInv
<1>5. TodoInv'
  <2>1. now' # 0 /\ Len(todo') <= Len(s)
    BY <1>1, <1>2, <1>3
  <2>2. ASSUME NEW i \in 1 .. Len(todo') PROVE todo'[i] = s[Len(s) - Len(todo') + i]
    BY <1>1, <1>3, <2>2 DEF TodoInv
  <2>3. ASSUME NEW k \in 1 .. Len(s) - Len(todo') PROVE s[k] # "partial"
    BY <1>1, <1>3, <1>4, <2>3 DEF TodoInv
  <2> QED
    BY <1>1, <1>2, <2>1, <2>2, <2>3 DEF TodoInv
<1>6. Reached(N)' = 1 .. r
  <2>1. \A k \in 1 .. r : s[k] # "partial"
    BY <1>1, <1>3, <1>4 DEF TodoInv
  <2> QED
    BY <1>2, <1>3, <2>1 DEF Reached
<1>7. p \in [1 .. N -> View] /\ q \in [1 .. N -> View]
  BY <1>2, PacketFacts, PacketFactsNext
<1>8. \A n \in 1 .. N : n # N => q[n] = p[n]
  BY <1>2, OtherPackets DEF Pending
<1>9. /\ p[N].key = Packet.key /\ Packet.key \in Keys /\ q[N].key = p[N].key
      /\ ~p[N].whole /\ ~q[N].whole
      /\ p[N].hellos = {k \in Reached(N) : s[k] = "clientHello"}
      /\ q[N].hellos = {k \in Reached(N)' : s[k] = "clientHello"}
      /\ p[N].named <=> \E k \in Reached(N) : s[k] = "serverHello"
      /\ q[N].named <=> \E k \in Reached(N)' : s[k] = "serverHello"
  <2>1. /\ capture[N].key \in Keys
        /\ p[N].key = capture[N].key
        /\ p[N].hellos = {k \in Reached(N) : s[k] = "clientHello"}
        /\ p[N].named <=> \E k \in Reached(N) : s[k] = "serverHello"
        /\ p[N].whole <=> (~Pending(N) /\ \A k \in 1 .. Len(s) : s[k] # "partial")
    BY <1>1, PacketFacts
  <2>2. /\ q[N].key = capture[N].key
        /\ q[N].hellos = {k \in Reached(N)' : s[k] = "clientHello"}
        /\ q[N].named <=> \E k \in Reached(N)' : s[k] = "serverHello"
        /\ q[N].whole <=> (~Pending(N)' /\ \A k \in 1 .. Len(s) : s[k] # "partial")
    <3>1. N \in 1 .. now'
      BY <1>1, <1>2
    <3> HIDE DEF s
    <3> QED
      BY <1>2, <3>1, PacketFactsNext
  <2>3. capture[N].key = Packet.key
    BY DEF Packet
  <2> QED
    BY <1>2, <2>1, <2>2, <2>3
<1> HIDE DEF s, p, q
<1>10. \A k \in p[N].hellos : k < r
  BY <1>1, <1>3, <1>9
<1>11. q[N].hellos = p[N].hellos \cup (IF Head(todo) = "clientHello" THEN {r} ELSE {})
  BY <1>1, <1>3, <1>4, <1>6, <1>9
<1>12. q[N].named <=> p[N].named \/ Head(todo) = "serverHello"
  BY <1>1, <1>3, <1>4, <1>6, <1>9
<1> QED
  BY <1>1, <1>2, <1>3, <1>5, <1>7, <1>8, <1>9, <1>10, <1>11, <1>12 DEF s, p, q

-----------------------------------------------------------------------------
(* The steps of the program.                                               *)

LEMMA CountedFlow ==
  ASSUME FlowsTypeOK, NEW f \in Flow, NEW key \in Keys
  PROVE  /\ Counted(f, key) \in Flow
         /\ f.end <= now =>
              Counted(f, key) = IF f.key = key THEN Recount(f, f.client + 1, f.server, now)
                                ELSE IF f.key = InvKey(key) THEN Recount(f, f.client, f.server + 1, now)
                                ELSE Recount(f, f.client, f.server, now)
<1>1. now \in Nat
  BY PacketFacts
<1>2. f.key \in Keys /\ f.client \in Nat /\ f.server \in Nat /\ f.end \in Int
  BY DEF Flow
<1>3. (key = InvKey(f.key) <=> f.key = InvKey(key)) /\ InvKey(key) # key
  BY <1>2, InvKeyTwice
<1> DEFINE c == f.client + (IF key = f.key THEN 1 ELSE 0)
           s == f.server + (IF key = InvKey(f.key) THEN 1 ELSE 0)
           e == IF f.end > now THEN f.end ELSE now
<1>4. Counted(f, key) = [f EXCEPT !.client = c, !.server = s, !.end = e]
  BY DEF Counted
<1>5. c \in Nat /\ s \in Nat /\ e \in Int
  BY <1>1, <1>2
<1>6. /\ c = IF f.key = key THEN f.client + 1 ELSE f.client
      /\ s = IF f.key = key THEN f.server ELSE IF f.key = InvKey(key) THEN f.server + 1 ELSE f.server
      /\ f.end <= now => e = now
  BY <1>1, <1>2, <1>3
<1> HIDE DEF c, s, e
<1>7. Counted(f, key) = Recount(f, c, s, e)
  BY <1>4, <1>5, FlowCounts DEF Recount
<1>8. Recount(f, c, s, e) \in Flow
  BY <1>5 DEF Recount, Flow
<1> QED
  BY <1>6, <1>7, <1>8

LEMMA FlowsTypes ==
  ASSUME FlowsTypeOK, TodoInv, FlowsNext
  PROVE  FlowsTypeOK'
<1>1. /\ now \in Nat /\ todo \in Seq(Records) /\ flows \in Seq(Flow) /\ flows_temp \in Seq(Flow)
      /\ capture \in Seq([key : Keys, stream : Streams])
  BY PacketFacts DEF FlowsTypeOK
<1>2. \A i \in 1 .. Len(flows_temp) : flows_temp[i] \in Flow
  <2> HIDE DEF Flow
  <2> QED
    BY <1>1
<1>3. \A key \in Keys : NewFlow(key) \in Flow
  BY <1>1 DEF NewFlow, Flow
<1>4. todo # <<>> => Tail(todo) \in Seq(Records)
  BY <1>1
<1>5. state = "records" => Packet.key \in Keys
  BY ReadSoFar, PacketFacts DEF Packet
<1>6. CASE ReadPacket
  <2>1. PICK key \in Keys, stream \in Streams :
          /\ capture' = Append(capture, [key |-> key, stream |-> stream])
          /\ todo' = stream
    BY <1>6 DEF ReadPacket
  <2>2. capture' \in Seq([key : Keys, stream : Streams]) /\ todo' \in Seq(Records)
    BY <1>1, <2>1, CaptureAssumption
  <2> QED
    BY <1>1, <1>6, <2>2 DEF ReadPacket, FlowsTypeOK
<1>7. CASE ClientHello
  <2>1. state = "records" /\ todo # <<>> /\ todo' = Tail(todo) /\ UNCHANGED <<state, capture>>
    BY <1>7 DEF ClientHello, Record
  <2>2. NewFlow(Packet.key) \in Flow
    BY <1>3, <1>5, <2>1
  <2> HIDE DEF Flow
  <2>3. flows' \in Seq(Flow) /\ flows_temp' \in Seq(Flow)
    <3>1. CASE flows_temp' = Append(flows_temp, NewFlow(Packet.key)) /\ flows' = flows
      BY <1>1, <2>2, <3>1
    <3>2. ASSUME NEW i \in Place(Packet.key), flows' = Retire(i),
                 flows_temp' = [flows_temp EXCEPT ![i] = NewFlow(Packet.key)]
          PROVE  flows' \in Seq(Flow) /\ flows_temp' \in Seq(Flow)
      <4>1. i \in 1 .. Len(flows_temp)
        BY DEF Place
      <4>2. flows_temp[i] \in Flow
        BY <1>2, <4>1
      <4>3. Append(flows, flows_temp[i]) \in Seq(Flow)
        BY <1>1, <4>2
      <4>4. [flows_temp EXCEPT ![i] = NewFlow(Packet.key)] \in Seq(Flow)
        <5> DEFINE new == NewFlow(Packet.key)
        <5>1. new \in Flow
          BY <2>2
        <5> HIDE DEF new
        <5>2. [flows_temp EXCEPT ![i] = new] \in Seq(Flow)
          BY <1>1, <4>1, <5>1
        <5> QED
          BY <5>2 DEF new
      <4> QED
        BY <3>2, <4>3, <4>4 DEF Retire
    <3> QED
      BY <1>7, <3>1, <3>2 DEF ClientHello
  <2> QED
    BY <1>1, <1>4, <2>1, <2>3 DEF FlowsTypeOK
<1>8. CASE ServerHello
  <2>1. state = "records" /\ todo # <<>> /\ todo' = Tail(todo) /\ UNCHANGED <<state, capture, flows>>
    BY <1>8 DEF ServerHello, Record
  <2>2. ASSUME NEW f \in Flow, NEW b \in BOOLEAN PROVE [f EXCEPT !.alpn = @ \/ b] \in Flow
    <3>1. f.alpn \in BOOLEAN
      BY DEF Flow
    <3>2. (f.alpn \/ b) \in BOOLEAN
      OBVIOUS
    <3> QED
      BY <3>2 DEF Flow
  <2>3. \A i \in 1 .. Len(flows_temp) :
          [flows_temp[i] EXCEPT !.alpn = @ \/ i \in Place(InvKey(Packet.key))] \in Flow
    BY <1>2, <2>2
  <2>4. flows_temp' \in Seq(Flow)
    <3> HIDE DEF Flow
    <3> QED
      BY <1>1, <1>8, <2>3 DEF ServerHello
  <2> QED
    BY <1>1, <1>4, <2>1, <2>4 DEF FlowsTypeOK
<1>9. CASE AddPacket
  <2>1. state = "records"
    BY <1>9 DEF AddPacket
  <2>2. \A i \in 1 .. Len(flows_temp) : Counted(flows_temp[i], Packet.key) \in Flow
    BY <1>2, <1>5, <2>1, CountedFlow
  <2>3. flows_temp' \in Seq(Flow)
    <3> HIDE DEF Flow
    <3> QED
      BY <1>1, <1>2, <1>9, <2>2 DEF AddPacket
  <2> QED
    BY <1>1, <1>9, <2>3 DEF FlowsTypeOK, AddPacket
<1>10. CASE Undecodable
  BY <1>1, <1>4, <1>10 DEF FlowsTypeOK, Undecodable, Record
<1>11. CASE Caught
  BY <1>1, <1>11 DEF FlowsTypeOK, Caught, Record
<1>12. CASE Raised
  BY <1>1, <1>12 DEF FlowsTypeOK, Raised, Record
<1>13. CASE Finish
  <2>1. flows' = flows \o flows_temp /\ state' \in {"printed", "zero"} /\ UNCHANGED <<capture, todo, flows_temp>>
    BY <1>13 DEF Finish
  <2>2. flows' \in Seq(Flow)
    <3> HIDE DEF Flow
    <3> QED
      BY <1>1, <2>1
  <2> QED
    BY <1>1, <2>1, <2>2 DEF FlowsTypeOK
<1> QED
  BY <1>6, <1>7, <1>8, <1>9, <1>10, <1>11, <1>12, <1>13 DEF FlowsNext

LEMMA PlaceFacts ==
  ASSUME FlowsTypeOK, NEW key
  PROVE  \A i : i \in Place(key) <=> i \in 1 .. Len(flows_temp) /\ flows_temp[i].key = key
BY DEF Place

LEMMA AfterClientHello ==
  ASSUME FlowsTypeOK, FlowsTypeOK', TodoInv, FlowsInv, ClientHello
  PROVE  TodoInv' /\ FlowsInv'
<1> DEFINE N == now
           key == Packet.key
           r == Len(Stream(N)) - Len(todo) + 1
           p == Packets
           q == Packets'
<1>1. /\ state = "records" /\ state' = "records" /\ capture' = capture /\ todo # <<>>
      /\ todo' = Tail(todo) /\ Head(todo) = "clientHello"
  BY DEF ClientHello, Record
<1>2. /\ TodoInv' /\ now' = N /\ N \in Nat \ {0} /\ N \in 1 .. N /\ r \in Nat
      /\ p \in [1 .. N -> View] /\ q \in [1 .. N -> View]
      /\ p[N].key = key /\ key \in Keys
      /\ \A n \in 1 .. N : n # N => q[n] = p[n]
      /\ q[N].key = p[N].key /\ ~p[N].whole /\ ~q[N].whole
      /\ \A s \in p[N].hellos : s < r
      /\ q[N].hellos = p[N].hellos \cup {r}
      /\ q[N].named <=> p[N].named
  BY <1>1, OneMoreRecord
<1>3. Held(p, flows, flows_temp) /\ flows \in Seq(Flow) /\ flows_temp \in Seq(Flow)
  BY DEF FlowsInv, FlowsTypeOK
<1>4. NewFlow(key) = [key |-> key, start |-> N, end |-> -1, alpn |-> FALSE, client |-> 0, server |-> 0]
  BY DEF NewFlow
<1>5. NewFlow(key) \in Flow
  BY <1>2, <1>4 DEF Flow
<1>n. q[N].named = p[N].named
  <2>1. p[N] \in View /\ q[N] \in View
    BY <1>2
  <2>2. p[N].named \in BOOLEAN /\ q[N].named \in BOOLEAN
    BY <2>1 DEF View
  <2> QED
    BY <1>2, <2>2
<1> HIDE DEF N, r, p, q, key
<1> DEFINE g == <<N, r>>
<1>g. g = <<N, r>>
  OBVIOUS
<1> HIDE DEF g
<1>6. /\ Hellos(q) = Hellos(p) \cup {g} /\ g \notin Hellos(p)
      /\ KeyOf(q, g) = key /\ Latest(q, g)
      /\ FlowOf(q, g) = NewFlow(key)
      /\ \A h \in Hellos(p) : /\ KeyOf(q, h) = KeyOf(p, h)
                              /\ FlowOf(q, h) = FlowOf(p, h)
                              /\ Latest(q, h) <=> Latest(p, h) /\ KeyOf(p, h) # key
  <2>1. HelloRead(N, p, q, r)
    BY <1>2, <1>n DEF HelloRead
  <2>2. key = p[N].key
    BY <1>2
  <2> DEFINE new == NewFlow(key)
  <2>3. new = [key |-> key, start |-> N, end |-> -1, alpn |-> FALSE, client |-> 0, server |-> 0]
    BY <1>4
  <2> HIDE DEF new
  <2>4. /\ Hellos(q) = Hellos(p) \cup {g} /\ g \notin Hellos(p)
        /\ KeyOf(q, g) = key /\ Latest(q, g)
        /\ FlowOf(q, g) = new
        /\ \A h \in Hellos(p) : /\ KeyOf(q, h) = KeyOf(p, h)
                                /\ FlowOf(q, h) = FlowOf(p, h)
                                /\ Latest(q, h) <=> Latest(p, h) /\ KeyOf(p, h) # key
    BY <1>g, <2>1, <2>2, <2>3, OneMoreHello
  <2> QED
    BY <2>4 DEF new
<1>7. /\ (\A i \in 1 .. Len(flows_temp) : flows_temp[i].key # key) =>
            Held(q, flows, Append(flows_temp, NewFlow(key)))
      /\ \A i \in 1 .. Len(flows_temp) :
            flows_temp[i].key = key =>
              Held(q, Append(flows, flows_temp[i]), [flows_temp EXCEPT ![i] = NewFlow(key)])
  BY <1>2, <1>3, <1>5, <1>6, BegunHeld
<1>8. Held(q, flows', flows_temp')
  <2>1. CASE Place(key) = {} /\ flows_temp' = Append(flows_temp, NewFlow(key)) /\ flows' = flows
    BY <1>7, <2>1, PlaceFacts
  <2>2. ASSUME NEW i \in Place(key), flows' = Retire(i),
               flows_temp' = [flows_temp EXCEPT ![i] = NewFlow(key)]
        PROVE  Held(q, flows', flows_temp')
    BY <1>7, <2>2, PlaceFacts DEF Retire
  <2> QED
    BY <2>1, <2>2 DEF ClientHello, key
<1> QED
  BY <1>2, <1>8 DEF FlowsInv, q

LEMMA AfterServerHello ==
  ASSUME FlowsTypeOK, FlowsTypeOK', TodoInv, FlowsInv, ServerHello
  PROVE  TodoInv' /\ FlowsInv'
<1> DEFINE N == now
           p == Packets
           q == Packets'
<1>1. /\ state = "records" /\ state' = "records" /\ capture' = capture /\ todo # <<>>
      /\ todo' = Tail(todo) /\ Head(todo) = "serverHello"
  BY DEF ServerHello, Record
<1>2. /\ TodoInv' /\ now' = N /\ N \in Nat \ {0} /\ N \in 1 .. N
      /\ p \in [1 .. N -> View] /\ q \in [1 .. N -> View]
      /\ p[N].key = Packet.key
      /\ \A n \in 1 .. N : n # N => q[n] = p[n]
      /\ q[N].key = p[N].key /\ ~p[N].whole /\ ~q[N].whole
      /\ q[N].hellos = p[N].hellos \cup {}
      /\ q[N].named
  BY <1>1, OneMoreRecord
<1>3. Held(p, flows, flows_temp) /\ flows_temp \in Seq(Flow)
  BY DEF FlowsInv, FlowsTypeOK
<1> HIDE DEF N, p, q
<1>4. q[N].whole = p[N].whole
  <2>1. p[N] \in View /\ q[N] \in View
    BY <1>2
  <2>2. p[N].whole \in BOOLEAN /\ q[N].whole \in BOOLEAN
    BY <2>1 DEF View
  <2> QED
    BY <1>2, <2>2
<1>5. NoHelloRead(N, p, q)
  BY <1>2 DEF NoHelloRead
<1>6. /\ Len(flows_temp') = Len(flows_temp)
      /\ \A i \in 1 .. Len(flows_temp) :
            flows_temp'[i] = [flows_temp[i] EXCEPT !.alpn = @ \/ flows_temp[i].key = InvKey(p[N].key)]
  <2>1. flows_temp' = [i \in 1 .. Len(flows_temp) |->
                        [flows_temp[i] EXCEPT !.alpn = @ \/ i \in Place(InvKey(Packet.key))]]
    BY DEF ServerHello
  <2>2. Len(flows_temp) \in Nat
    BY <1>3
  <2>3. \A i \in 1 .. Len(flows_temp) :
          (i \in Place(InvKey(Packet.key))) = (flows_temp[i].key = InvKey(p[N].key))
    BY <1>2, PlaceFacts
  <2> QED
    BY <2>1, <2>2, <2>3
<1>7. Held(q, flows, flows_temp')
  <2>1. N # 0 /\ q[N].named /\ \A n \in 1 .. N : q[n].whole = p[n].whole /\ (n # N => q[n].named = p[n].named)
    BY <1>2, <1>4
  <2> QED
    BY <1>3, <1>5, <1>6, <2>1, NamedHeld
<1>8. flows' = flows
  BY DEF ServerHello
<1> QED
  BY <1>2, <1>7, <1>8 DEF FlowsInv, q

\* Packets that are the same in every respect.
LEMMA SamePackets ==
  ASSUME NEW N, NEW p, NEW q, NoHelloRead(N, p, q),
         \A n \in 1 .. N : (q[n].named <=> p[n].named) /\ (q[n].whole <=> p[n].whole)
  PROVE  q = p
<1> USE DEF NoHelloRead
<1>1. ASSUME NEW v \in View
      PROVE  /\ v = [key |-> v.key, hellos |-> v.hellos, named |-> v.named, whole |-> v.whole]
             /\ v.named \in BOOLEAN /\ v.whole \in BOOLEAN
  BY DEF View
<1>2. ASSUME NEW n \in 1 .. N PROVE q[n] = p[n]
  <2>1. p[n] \in View /\ q[n] \in View
    OBVIOUS
  <2>2. q[n].named = p[n].named /\ q[n].whole = p[n].whole
    BY <1>1, <2>1
  <2> QED
    BY <1>1, <2>1, <2>2
<1>3. p = [n \in 1 .. N |-> p[n]] /\ q = [n \in 1 .. N |-> q[n]]
  OBVIOUS
<1>4. [n \in 1 .. N |-> q[n]] = [n \in 1 .. N |-> p[n]]
  BY <1>2
<1> QED
  BY <1>3, <1>4

LEMMA AfterReadPacket ==
  ASSUME NEW N, N = now, FlowsTypeOK, FlowsTypeOK', FlowsInv, ReadPacket
  PROVE  TodoInv' /\ FlowsInv'
<1> DEFINE p == Packets
           q == Packets'
<1>1. PICK key \in Keys, stream \in Streams :
        /\ capture' = Append(capture, [key |-> key, stream |-> stream])
        /\ todo' = stream
  BY DEF ReadPacket
<1>2. state = "next" /\ state' = "records" /\ flows' = flows /\ flows_temp' = flows_temp
  BY DEF ReadPacket
<1>3. N \in Nat /\ p \in [1 .. N -> View]
  BY PacketFacts
<1>4. /\ now' = N + 1 /\ N + 1 \in 1 .. now' /\ capture'[N + 1] = [key |-> key, stream |-> stream]
      /\ \A n \in 1 .. N : n \in 1 .. now' /\ capture'[n] = capture[n] /\ n # N + 1
  <2> DEFINE P == [key : Keys, stream : Streams]
  <2>1. capture \in Seq(P)
    BY DEF FlowsTypeOK
  <2> DEFINE e == [key |-> key, stream |-> stream]
  <2>2. e \in P
    OBVIOUS
  <2> HIDE DEF P, e
  <2>3. /\ Len(Append(capture, e)) = Len(capture) + 1
        /\ Append(capture, e)[Len(capture) + 1] = e
        /\ \A n \in 1 .. Len(capture) : Append(capture, e)[n] = capture[n]
        /\ Len(capture) \in Nat
    BY <2>1, <2>2
  <2>4. /\ now' = N + 1 /\ capture'[N + 1] = e
        /\ \A n \in 1 .. N : capture'[n] = capture[n]
    BY <1>1, <2>3 DEF e, now
  <2> QED
    BY <1>3, <2>4 DEF e
<1>5. Stream(N + 1)' = stream /\ stream \in Seq(Records) /\ Packet'.stream = stream
  <2>1. stream \in Seq(Records)
    BY CaptureAssumption
  <2>2. Stream(N + 1)' = stream
    BY <1>4 DEF Stream
  <2>3. Packet'.stream = stream
    BY <1>4 DEF Packet
  <2> QED
    BY <2>1, <2>2, <2>3
<1>6. TodoInv'
  BY <1>1, <1>3, <1>4, <1>5 DEF TodoInv
<1>7. q \in [1 .. N + 1 -> View]
  BY <1>4, PacketFactsNext
<1>8. \A n \in 1 .. N : q[n] = p[n]
  BY <1>2, <1>4, OtherPackets DEF Pending
<1>9. q[N + 1].hellos = {} /\ ~q[N + 1].named /\ ~q[N + 1].whole
  <2>1. Pending(N + 1)'
    BY <1>2, <1>4 DEF Pending
  <2>2. Reached(N + 1)' = {}
    BY <1>1, <1>5, <2>1 DEF Reached
  <2> QED
    BY <1>4, <2>1, <2>2, PacketFactsNext
<1> HIDE DEF p, q
<1>10. /\ Hellos(q) = Hellos(p)
       /\ \A h \in Hellos(p) : /\ KeyOf(q, h) = KeyOf(p, h)
                               /\ FlowOf(q, h) = FlowOf(p, h)
                               /\ Latest(q, h) <=> Latest(p, h)
  BY <1>3, <1>7, <1>8, <1>9, BlankPacket
<1>11. Held(p, flows, flows_temp)
  BY DEF FlowsInv, p
<1>12. Held(q, flows, flows_temp)
  BY <1>10, <1>11, StillHeld
<1> QED
  BY <1>2, <1>6, <1>12 DEF FlowsInv, q

\* The alpn was not set, and there is no flow to set it on.
LEMMA AfterUndecodable ==
  ASSUME FlowsTypeOK, FlowsTypeOK', TodoInv, FlowsInv, Undecodable, state' = "records"
  PROVE  TodoInv' /\ FlowsInv'
<1> DEFINE N == now
           p == Packets
           q == Packets'
<1>1. /\ state = "records" /\ capture' = capture /\ todo # <<>> /\ todo' = Tail(todo)
      /\ Head(todo) = "undecodable" /\ flows' = flows /\ flows_temp' = flows_temp
  BY DEF Undecodable, Record
<1>2. /\ TodoInv' /\ N \in Nat \ {0} /\ p \in [1 .. N -> View] /\ q \in [1 .. N -> View]
      /\ \A n \in 1 .. N : n # N => q[n] = p[n]
      /\ q[N].key = p[N].key /\ ~p[N].whole /\ ~q[N].whole
      /\ q[N].hellos = p[N].hellos \cup {}
      /\ q[N].named <=> p[N].named
  BY <1>1, OneMoreRecord
<1> HIDE DEF N, p, q
<1>3. q = p
  <2>1. NoHelloRead(N, p, q)
    BY <1>2 DEF NoHelloRead
  <2>2. \A n \in 1 .. N : (q[n].named <=> p[n].named) /\ (q[n].whole <=> p[n].whole)
    BY <1>2
  <2> QED
    BY <2>1, <2>2, SamePackets
<1> QED
  BY <1>1, <1>2, <1>3 DEF FlowsInv, p, q

\* The records after one that cannot be parsed are not read.
LEMMA AfterCaught ==
  ASSUME NEW N, N = now, FlowsTypeOK, FlowsTypeOK', TodoInv, Caught
  PROVE  Packets' = Packets
<1> DEFINE p == Packets
           q == Packets'
<1>1. /\ state = "records" /\ state' = "next" /\ capture' = capture
      /\ todo # <<>> /\ Head(todo) = "partial"
  BY DEF Caught, Record
<1> DEFINE s == Stream(N)
           k == Len(s) - Len(todo)
<1>2. /\ N \in Nat \ {0} /\ N \in 1 .. N /\ Packet.stream = s /\ s \in Seq(Records)
      /\ todo \in Seq(Records) /\ k \in 0 .. Len(s) /\ Reached(N) = 1 .. k
  BY <1>1, ReadSoFar
<1>3. now' = N /\ Stream(N)' = s /\ Pending(N) /\ ~Pending(N)' 
      /\ \A n : (n # N => ~Pending(n)) /\ ~Pending(n)'
  BY <1>1 DEF Stream, Pending, now
<1>4. /\ \A r \in 1 .. k : s[r] # "partial"
      /\ k + 1 \in 1 .. Len(s) /\ s[k + 1] = "partial"
  BY <1>1, <1>2 DEF TodoInv
<1>5. Reached(N)' = 1 .. k + 1
  BY <1>2, <1>3, <1>4 DEF Reached
<1>6. p \in [1 .. N -> View] /\ q \in [1 .. N -> View]
  BY <1>3, PacketFacts, PacketFactsNext
<1>7. \A n \in 1 .. N : n # N => q[n] = p[n]
  BY <1>1, <1>3, OtherPackets
<1>8. /\ q[N].key = p[N].key /\ q[N].hellos = p[N].hellos
      /\ q[N].named <=> p[N].named
      /\ q[N].whole <=> p[N].whole
  <2>1. /\ p[N].key = capture[N].key
        /\ p[N].hellos = {r \in Reached(N) : s[r] = "clientHello"}
        /\ p[N].named <=> \E r \in Reached(N) : s[r] = "serverHello"
        /\ p[N].whole <=> (~Pending(N) /\ \A r \in 1 .. Len(s) : s[r] # "partial")
    BY <1>2, PacketFacts
  <2>2. /\ q[N].key = capture[N].key
        /\ q[N].hellos = {r \in Reached(N)' : s[r] = "clientHello"}
        /\ q[N].named <=> \E r \in Reached(N)' : s[r] = "serverHello"
        /\ q[N].whole <=> (~Pending(N)' /\ \A r \in 1 .. Len(s) : s[r] # "partial")
    <3>1. N \in 1 .. now'
      BY <1>2, <1>3
    <3> HIDE DEF s
    <3> QED
      BY <1>1, <1>3, <3>1, PacketFactsNext
  <2> HIDE DEF s, k, p, q
  <2>3. k \in Nat
    BY <1>2
  <2> QED
    BY <1>2, <1>3, <1>4, <1>5, <2>1, <2>2, <2>3
<1> HIDE DEF p, q
<1>9. q = p
  <2>1. NoHelloRead(N, p, q)
    BY <1>2, <1>6, <1>7, <1>8 DEF NoHelloRead
  <2>2. \A n \in 1 .. N : (q[n].named <=> p[n].named) /\ (q[n].whole <=> p[n].whole)
    BY <1>7, <1>8
  <2> QED
    BY <2>1, <2>2, SamePackets
<1> QED
  BY <1>9 DEF p, q

LEMMA AfterAddPacket ==
  ASSUME NEW N, N = now, FlowsTypeOK, FlowsTypeOK', TodoInv, FlowsInv, AddPacket
  PROVE  FlowsInv'
<1> DEFINE p == Packets
           q == Packets'
           s == Stream(N)
           key == Packet.key
<1>1. /\ state = "records" /\ state' = "next" /\ capture' = capture /\ todo = <<>>
      /\ flows' = flows
      /\ flows_temp' = [i \in 1 .. Len(flows_temp) |->
                          IF i \in Target(key) THEN Counted(flows_temp[i], key) ELSE flows_temp[i]]
  BY DEF AddPacket
<1>2. /\ N \in Nat \ {0} /\ N \in 1 .. N /\ Packet.stream = s /\ s \in Seq(Records)
      /\ Len(s) \in Nat /\ Reached(N) = 1 .. Len(s)
      /\ \A r \in 1 .. Len(s) : s[r] # "partial"
  <2>1. N \in Nat \ {0} /\ N \in 1 .. N /\ Packet.stream = s /\ s \in Seq(Records) /\ Reached(N) = 1 .. Len(s) - Len(todo)
    BY <1>1, ReadSoFar
  <2>2. Len(todo) = 0 /\ Len(s) \in Nat /\ Len(s) - Len(todo) = Len(s)
    BY <1>1, <2>1
  <2> QED
    BY <1>1, <2>1, <2>2 DEF TodoInv
<1>3. /\ now' = N /\ Stream(N)' = s /\ Pending(N)
      /\ \A n : (n # N => ~Pending(n)) /\ ~Pending(n)'
  BY <1>1 DEF Stream, Pending, now
<1>4. Reached(N)' = 1 .. Len(s)
  BY <1>2, <1>3 DEF Reached
<1>5. p \in [1 .. N -> View] /\ q \in [1 .. N -> View]
  BY <1>3, PacketFacts, PacketFactsNext
<1>6. \A n \in 1 .. N : n # N => q[n] = p[n]
  BY <1>1, <1>3, OtherPackets
<1>7. /\ p[N].key = key /\ key \in Keys /\ q[N].key = p[N].key /\ q[N].hellos = p[N].hellos
      /\ q[N].named <=> p[N].named
      /\ q[N].whole /\ ~p[N].whole
  <2>1. /\ p[N].key = capture[N].key /\ capture[N].key \in Keys
        /\ p[N].hellos = {r \in Reached(N) : s[r] = "clientHello"}
        /\ p[N].named <=> \E r \in Reached(N) : s[r] = "serverHello"
        /\ p[N].whole <=> (~Pending(N) /\ \A r \in 1 .. Len(s) : s[r] # "partial")
    BY <1>2, PacketFacts
  <2>2. /\ q[N].key = capture[N].key
        /\ q[N].hellos = {r \in Reached(N)' : s[r] = "clientHello"}
        /\ q[N].named <=> \E r \in Reached(N)' : s[r] = "serverHello"
        /\ q[N].whole <=> (~Pending(N)' /\ \A r \in 1 .. Len(s) : s[r] # "partial")
    <3>1. N \in 1 .. now'
      BY <1>2, <1>3
    <3> HIDE DEF s
    <3> QED
      BY <1>1, <1>3, <3>1, PacketFactsNext
  <2>3. capture[N].key = key
    BY DEF Packet
  <2> HIDE DEF s, p, q, key
  <2> QED
    BY <1>2, <1>3, <1>4, <2>1, <2>2, <2>3
<1>8. Held(p, flows, flows_temp) /\ flows_temp \in Seq(Flow)
  BY DEF FlowsInv, FlowsTypeOK
<1> HIDE DEF s, p, q, key
<1>9. NoHelloRead(N, p, q)
  BY <1>2, <1>5, <1>6, <1>7 DEF NoHelloRead
<1>10. \A n \in 1 .. N : /\ q[n].named = p[n].named
                         /\ n # N => q[n].whole = p[n].whole
  <2>1. p[N] \in View /\ q[N] \in View
    BY <1>2, <1>5
  <2>2. p[N].named \in BOOLEAN /\ q[N].named \in BOOLEAN
    BY <2>1 DEF View
  <2>3. q[N].named = p[N].named
    BY <1>7, <2>2
  <2> QED
    BY <1>6, <2>3
<1>11. Len(flows_temp) \in Nat /\ Len(flows_temp') = Len(flows_temp)
  BY <1>1, <1>8
<1>12. InvKey(key) # key
  BY <1>7, InvKeyTwice
<1>13. ASSUME NEW i \in 1 .. Len(flows_temp)
       PROVE  LET f == flows_temp[i]
                  taken == \E j \in 1 .. Len(flows_temp) : flows_temp[j].key = p[N].key
              IN flows_temp'[i] =
                   IF f.key = p[N].key THEN Recount(f, f.client + 1, f.server, N)
                   ELSE IF f.key = InvKey(p[N].key) /\ ~taken THEN Recount(f, f.client, f.server + 1, N)
                   ELSE f
  <2> DEFINE f == flows_temp[i]
             taken == \E j \in 1 .. Len(flows_temp) : flows_temp[j].key = key
  <2>1. f \in Flow /\ f.end <= now
    <3>1. PICK h \in Hellos(p) : f = FlowOf(p, h)
      BY <1>8 DEF Held
    <3>2. N \in Nat
      BY <1>2
    <3> HIDE DEF f
    <3> QED
      BY <1>5, <3>1, <3>2, FlowTyped
  <2>2. flows_temp'[i] = IF i \in Target(key) THEN Counted(f, key) ELSE f
    BY <1>1
  <2>3. /\ Place(key) # {} <=> taken
        /\ i \in Place(key) <=> f.key = key
        /\ i \in Place(InvKey(key)) <=> f.key = InvKey(key)
    BY PlaceFacts
  <2>4. i \in Target(key) <=> f.key = key \/ (f.key = InvKey(key) /\ ~taken)
    BY <1>12, <2>3 DEF Target
  <2> HIDE DEF f, taken
  <2>5. Counted(f, key) = IF f.key = key THEN Recount(f, f.client + 1, f.server, N)
                          ELSE IF f.key = InvKey(key) THEN Recount(f, f.client, f.server + 1, N)
                          ELSE Recount(f, f.client, f.server, N)
    BY <1>7, <2>1, CountedFlow
  <2>6. flows_temp'[i] = IF f.key = key THEN Recount(f, f.client + 1, f.server, N)
                         ELSE IF f.key = InvKey(key) /\ ~taken THEN Recount(f, f.client, f.server + 1, N)
                         ELSE f
    BY <1>12, <2>2, <2>4, <2>5
  <2> QED
    BY <1>7, <2>6 DEF f, taken
<1>14. Held(q, flows, flows_temp')
  <2>1. N # 0 /\ q[N].whole /\ ~p[N].whole
    BY <1>2, <1>7
  <2> QED
    BY <1>8, <1>9, <1>10, <1>11, <1>13, <2>1, CountedHeld
<1> QED
  BY <1>1, <1>14 DEF FlowsInv, q

\* What counts of a flow that was named are zero for.
LEMMA NamedButZero ==
  ASSUME NEW N \in Nat, NEW p \in [1 .. N -> View], NEW h \in Hellos(p),
         FlowOf(p, h).alpn, FlowOf(p, h).client = 0 \/ FlowOf(p, h).server = 0
  PROVE  \/ \E n \in 1 .. N : ~p[n].whole /\ (p[n].hellos # {} \/ p[n].named)
         \/ \E g \in Hellos(p) : KeyOf(p, g) = InvKey(KeyOf(p, h))
<1>1. FlowOf(p, h).client = Cardinality(FromClient(p, h)) /\ FlowOf(p, h).server = Cardinality(FromServer(p, h))
  BY DEF FlowOf
<1>2. PICK n \in During(p, h, InvKey(KeyOf(p, h))) : p[n].named
  BY FlowTyped DEF IsNamed
<1>3. n \in 1 .. N /\ LastHello(p, h, n)
  BY <1>2 DEF During
<1>4. h[1] \in 1 .. N /\ p[h[1]].hellos # {}
  BY HelloTyped
<1>5. CASE FlowOf(p, h).client = 0
  <2>1. FromClient(p, h) = {}
    BY <1>1, <1>5, FlowPackets, FS_EmptySet
  <2>2. LastHello(p, h, h[1])
    <3>1. \A g \in Hellos(p) : g[1] \in 1 .. N
      BY HelloTyped
    <3> QED
      BY <1>3, <1>4, <3>1 DEF LastHello
  <2>3. h[1] \in During(p, h, KeyOf(p, h))
    BY <1>4, <2>2 DEF During, KeyOf
  <2>4. ~p[h[1]].whole
    BY <2>1, <2>3 DEF FromClient
  <2> QED
    BY <1>4, <2>4
<1>6. CASE FlowOf(p, h).server = 0
  <2>1. FromServer(p, h) = {}
    BY <1>1, <1>6, FlowPackets, FS_EmptySet
  <2>2. ~p[n].whole \/ ~OneWay(p, KeyOf(p, h), n)
    BY <1>2, <2>1 DEF FromServer
  <2> QED
    BY <1>2, <1>3, <2>2 DEF OneWay
<1> QED
  BY <1>5, <1>6

LEMMA AfterFinish ==
  ASSUME FlowsTypeOK, FlowsTypeOK', FlowsInv, Finish
  PROVE  FlowsExact' /\ ZeroOnlyIfPartial'
<1> DEFINE N == now
           p == Packets
           q == Packets'
           all == flows \o flows_temp
           failing == {i \in 1 .. Len(all) : all[i].alpn /\ ~Divisible(all[i])}
<1>1. /\ state = "next" /\ capture' = capture /\ flows' = all
      /\ state' = IF failing = {} THEN "printed" ELSE "zero"
  BY DEF Finish
<1>2. N \in Nat /\ p \in [1 .. N -> View] /\ now' = N /\ q \in [1 .. N -> View]
  BY <1>1, PacketFacts, PacketFactsNext DEF now
<1>3. q = p
  <2>1. \A n \in 1 .. N : q[n] = p[n]
    BY <1>1, <1>2, OtherPackets DEF Pending
  <2> HIDE DEF p, q
  <2> QED
    BY <1>2, <2>1
<1>4. Held(p, flows, flows_temp) /\ flows \in Seq(Flow) /\ flows_temp \in Seq(Flow)
  BY DEF FlowsInv, FlowsTypeOK
<1> HIDE DEF N, p, q
<1>5. /\ all \in Seq(Flow) /\ Len(all) = Cardinality(Hellos(p))
      /\ Range(all) = {FlowOf(p, h) : h \in Hellos(p)}
  BY <1>2, <1>4, HeldExact
<1>6. FlowsExact'
  <2>1. Kept' = all
    BY <1>1 DEF Kept
  <2> HIDE DEF all
  <2> QED
    BY <1>3, <1>5, <2>1 DEF FlowsExact, p, q
<1>7. ZeroOnlyIfPartial'
  <2> SUFFICES ASSUME failing # {}
               PROVE  \/ \E n \in 1 .. N : ~p[n].whole /\ (p[n].hellos # {} \/ p[n].named)
                      \/ \E g, h \in Hellos(p) : KeyOf(p, g) = InvKey(KeyOf(p, h))
    BY <1>1, <1>2, <1>3 DEF ZeroOnlyIfPartial, p, q, N
  <2>1. PICK i \in 1 .. Len(all) : all[i].alpn /\ ~Divisible(all[i])
    OBVIOUS
  <2> HIDE DEF all
  <2>2. all[i] \in Range(all)
    BY <1>5 DEF Range
  <2>3. PICK h \in Hellos(p) : all[i] = FlowOf(p, h)
    BY <1>5, <2>2
  <2>4. FlowOf(p, h).alpn /\ (FlowOf(p, h).client = 0 \/ FlowOf(p, h).server = 0)
    BY <2>1, <2>3 DEF Divisible
  <2> QED
    BY <1>2, <2>4, NamedButZero
<1> QED
  BY <1>6, <1>7

\* While the capture is read, the flows held are those of the packets.
LEMMA ExactWhileRead ==
  ASSUME FlowsTypeOK', FlowsInv', state' \in {"next", "records"}
  PROVE  FlowsExact' /\ ZeroOnlyIfPartial'
<1> DEFINE N == now'
           q == Packets'
<1>1. N \in Nat /\ q \in [1 .. N -> View]
  BY PacketFactsNext
<1>2. Held(q, flows', flows_temp') /\ flows' \in Seq(Flow) /\ flows_temp' \in Seq(Flow)
  BY DEF FlowsInv, FlowsTypeOK
<1>3. Kept' = flows' \o flows_temp'
  BY DEF Kept
<1> HIDE DEF N, q
<1>4. /\ Len(flows' \o flows_temp') = Cardinality(Hellos(q))
      /\ Range(flows' \o flows_temp') = {FlowOf(q, h) : h \in Hellos(q)}
  BY <1>1, <1>2, HeldExact
<1> QED
  BY <1>3, <1>4 DEF FlowsExact, ZeroOnlyIfPartial, q

\* Initially CaptureInv holds, and every step preserves it.
LEMMA InitialCapture ==
  ASSUME FlowsInit
  PROVE  CaptureInv
<1>1. FlowsTypeOK /\ TodoInv
  BY DEF FlowsInit, FlowsTypeOK, TodoInv
<1> DEFINE p == Packets
<1>2. now = 0 /\ p \in [1 .. 0 -> View]
  BY <1>1, PacketFacts DEF FlowsInit, now
<1>3. Hellos(p) = {}
  BY <1>2 DEF Hellos
<1>4. IsFiniteSet({}) /\ Cardinality({}) = 0
  BY FS_EmptySet
<1> HIDE DEF p
<1>5. Held(p, <<>>, <<>>)
  BY <1>3, <1>4 DEF Held
<1>6. Len(Kept) = Cardinality(Hellos(p)) /\ Range(Kept) = {FlowOf(p, h) : h \in Hellos(p)}
  <2>1. Kept = <<>>
    BY DEF FlowsInit, Kept
  <2>2. Range(<<>>) = {}
    BY DEF Range
  <2> QED
    BY <1>3, <1>4, <2>1, <2>2
<1>7. FlowsInv
  BY <1>5 DEF FlowsInit, FlowsInv, p
<1>8. FlowsExact /\ ZeroOnlyIfPartial
  BY <1>6 DEF FlowsInit, FlowsExact, ZeroOnlyIfPartial, p
<1> QED
  BY <1>1, <1>7, <1>8 DEF CaptureInv

LEMMA CaptureStep ==
  ASSUME CaptureInv, FlowsNext
  PROVE  CaptureInv'
<1>1. FlowsTypeOK /\ TodoInv /\ FlowsTypeOK'
  BY FlowsTypes DEF CaptureInv
<1>2. state \in {"next", "records"}
  BY DEF FlowsNext, ReadPacket, ClientHello, ServerHello, Undecodable, Caught, Raised, AddPacket,
         Finish, Record
<1>3. FlowsInv
  BY <1>2 DEF CaptureInv
<1>4. CASE state' \in {"next", "records"} /\ TodoInv' /\ FlowsInv'
  BY <1>1, <1>4, ExactWhileRead DEF CaptureInv
<1>5. CASE state' = "raised"
  BY <1>1, <1>5 DEF CaptureInv, TodoInv, FlowsExact, ZeroOnlyIfPartial
<1>6. CASE ReadPacket
  <2>1. state' = "records"
    BY <1>6 DEF ReadPacket
  <2> QED
    BY <1>1, <1>3, <1>4, <1>6, <2>1, AfterReadPacket
<1>7. CASE ClientHello
  <2>1. state' = "records"
    BY <1>7 DEF ClientHello, Record
  <2> QED
    BY <1>1, <1>3, <1>4, <1>7, <2>1, AfterClientHello
<1>8. CASE ServerHello
  <2>1. state' = "records"
    BY <1>8 DEF ServerHello, Record
  <2> QED
    BY <1>1, <1>3, <1>4, <1>8, <2>1, AfterServerHello
<1>9. CASE Undecodable
  <2>1. state' = "records" \/ state' = "raised"
    BY <1>9 DEF Undecodable, Record
  <2> QED
    BY <1>1, <1>3, <1>4, <1>5, <1>9, <2>1, AfterUndecodable
<1>10. CASE Caught
  <2>1. state' = "next" /\ flows' = flows /\ flows_temp' = flows_temp
    BY <1>10 DEF Caught
  <2>2. FlowsInv'
    BY <1>1, <1>3, <1>10, <2>1, AfterCaught DEF FlowsInv
  <2>3. TodoInv'
    BY <2>1 DEF TodoInv
  <2> QED
    BY <1>4, <2>1, <2>2, <2>3
<1>11. CASE Raised
  BY <1>5, <1>11 DEF Raised
<1>12. CASE AddPacket
  <2>1. state' = "next"
    BY <1>12 DEF AddPacket
  <2>2. TodoInv'
    BY <2>1 DEF TodoInv
  <2> QED
    BY <1>1, <1>3, <1>4, <1>12, <2>1, <2>2, AfterAddPacket
<1>13. CASE Finish
  <2>1. state' \in {"printed", "zero"}
    BY <1>13 DEF Finish
  <2>2. TodoInv'
    BY <2>1 DEF TodoInv
  <2> QED
    BY <1>1, <1>3, <1>13, <2>1, <2>2, AfterFinish DEF CaptureInv
<1> QED
  BY <1>6, <1>7, <1>8, <1>9, <1>10, <1>11, <1>12, <1>13 DEF FlowsNext

LEMMA CaptureStutter ==
  ASSUME CaptureInv, UNCHANGED flowvars
  PROVE  CaptureInv'
<1> /\ state' = state /\ capture' = capture /\ todo' = todo
    /\ flows' = flows /\ flows_temp' = flows_temp /\ rows' = rows
  BY DEF flowvars
<1>1. FlowsTypeOK' /\ TodoInv'
  BY DEF CaptureInv, FlowsTypeOK, TodoInv, Packet, now
<1>2. Packets' = Packets /\ Kept' = Kept
  BY DEF Packets, Reached, Pending, Stream, now, Kept
<1>3. FlowsExact' /\ (state' \in {"next", "records"} => FlowsInv')
  BY <1>2 DEF CaptureInv, FlowsExact, FlowsInv
<1>4. ZeroOnlyIfPartial'
  BY <1>2 DEF CaptureInv, ZeroOnlyIfPartial, now
<1> QED
  BY <1>1, <1>3, <1>4 DEF CaptureInv

\* As long as the capture is read, the dictionary and the list hold the flows of the
\* ClientHellos read so far, and nothing else.
THEOREM CaptureInvariance == FlowsSpec => []CaptureInv
<1>1. FlowsInit => CaptureInv
  BY InitialCapture
<1>2. CaptureInv /\ [FlowsNext]_flowvars => CaptureInv'
  BY CaptureStep, CaptureStutter
<1> QED
  BY <1>1, <1>2, PTL DEF FlowsSpec

\* At any time and when the rows are printed, unless an exception ended the program,
\* there is one flow for every ClientHello, with exactly the packets and the protocol
\* that belong to it.
THEOREM FlowsAreExact == FlowsSpec => []FlowsExact
<1>1. CaptureInv => FlowsExact
  BY DEF CaptureInv
<1> QED
  BY <1>1, CaptureInvariance, PTL

\* Printing divides by zero only if a packet was read in part after its hello had
\* been noted, or a connection has ClientHellos both ways.
THEOREM ZeroIsPartial == FlowsSpec => []ZeroOnlyIfPartial
<1>1. CaptureInv => ZeroOnlyIfPartial
  BY DEF CaptureInv
<1> QED
  BY <1>1, CaptureInvariance, PTL
=============================================================================
