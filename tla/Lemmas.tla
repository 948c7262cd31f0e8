-------------------------------- MODULE Lemmas --------------------------------
(***************************************************************************)
(* Facts that the proofs of several components need: sequences used as     *)
(* queues and as lists, least numbers, and % for a modulus that is no      *)
(* numeral.                                                                *)
(***************************************************************************)
EXTENDS Integers, Sequences, FiniteSets, SequenceTheorems, FiniteSetTheorems, TLAPS

-----------------------------------------------------------------------------
(* Queues.                                                                 *)

\* An element joins the end of a queue.
LEMMA AppendResult ==
  ASSUME NEW S, NEW q \in Seq(S), NEW m \in S
  PROVE  /\ Append(q, m) \in Seq(S)
         /\ Len(Append(q, m)) = Len(q) + 1
         /\ \A i \in 1 .. Len(q) : Append(q, m)[i] = q[i]
         /\ Append(q, m)[Len(q) + 1] = m
         /\ Append(q, m) # <<>>
BY AppendProperties

\* The first element is taken: every other one moves one place forward.
LEMMA TailResult ==
  ASSUME NEW S, NEW q \in Seq(S), q # <<>>
  PROVE  /\ Tail(q) \in Seq(S)
         /\ Len(q) \in Nat \ {0}
         /\ Head(q) = q[1]
         /\ Head(q) \in S
         /\ Len(Tail(q)) = Len(q) - 1
         /\ \A i \in 1 .. Len(q) - 1 : Tail(q)[i] = q[i + 1]
BY HeadTailProperties, EmptySeq, LenProperties, ElementOfSeq

\* What is left when the first k elements are taken.
LEMMA SuffixResult ==
  ASSUME NEW S, NEW q \in Seq(S), NEW k \in 1 .. Len(q)
  PROVE  /\ SubSeq(q, k + 1, Len(q)) \in Seq(S)
         /\ Len(SubSeq(q, k + 1, Len(q))) = Len(q) - k
         /\ \A i \in 1 .. Len(q) - k : SubSeq(q, k + 1, Len(q))[i] = q[k + i]
<1>1. Len(q) \in Nat /\ k \in Nat /\ k <= Len(q)
  BY LenProperties
<1>2. \A i \in k + 1 .. Len(q) : q[i] \in S
  BY <1>1, ElementOfSeq
<1> QED
  BY <1>1, <1>2, SubSeqProperties

-----------------------------------------------------------------------------
(* Lists, and what is on them.                                             *)

\* The range of a list, by positions.
LEMMA RangeByPosition ==
  ASSUME NEW S, NEW q \in Seq(S)
  PROVE  /\ Range(q) \subseteq S
         /\ \A x : x \in Range(q) <=> \E i \in 1 .. Len(q) : q[i] = x
         /\ IsInjective(q) <=> \A i, j \in 1 .. Len(q) : q[i] = q[j] => i = j
         /\ Range(q) = {} <=> q = <<>>
<1>1. Len(q) \in Nat /\ q \in [1 .. Len(q) -> S] /\ DOMAIN q = 1 .. Len(q)
  BY LenProperties
<1>2. /\ Range(q) \subseteq S
      /\ \A x : x \in Range(q) <=> \E i \in 1 .. Len(q) : q[i] = x
      /\ IsInjective(q) <=> \A i, j \in 1 .. Len(q) : q[i] = q[j] => i = j
  BY <1>1 DEF Range, IsInjective
<1>3. ASSUME Range(q) = {} PROVE q = <<>>
  <2>0. 1 \notin 1 .. Len(q)
    BY <1>2, <1>3
  <2>1. Len(q) = 0
    BY <1>1, <2>0
  <2> QED
    BY <2>1, EmptySeq
<1>4. ASSUME q = <<>> PROVE Range(q) = {}
  BY <1>2, <1>4
<1> QED
  BY <1>2, <1>3, <1>4

\* One more at the end of a list.
LEMMA ListAppend ==
  ASSUME NEW S, NEW q \in Seq(S), NEW x \in S
  PROVE  /\ Append(q, x) \in Seq(S)
         /\ Range(Append(q, x)) = Range(q) \cup {x}
         /\ IsInjective(q) /\ x \notin Range(q) => IsInjective(Append(q, x))
<1> DEFINE p == Append(q, x)
<1>1. /\ p \in Seq(S) /\ Len(q) \in Nat /\ Len(p) = Len(q) + 1
      /\ \A i \in 1 .. Len(q) : p[i] = q[i]
      /\ p[Len(q) + 1] = x
  BY AppendResult, LenProperties
<1> HIDE DEF p
<1>2. \A i \in 1 .. Len(p) : i \in 1 .. Len(q) \/ i = Len(q) + 1
  BY <1>1
<1>3. ASSUME NEW y PROVE y \in Range(p) <=> y \in Range(q) \cup {x}
  <2>1. y \in Range(p) <=> \E i \in 1 .. Len(p) : p[i] = y
    BY <1>1, RangeByPosition
  <2>2. y \in Range(q) <=> \E i \in 1 .. Len(q) : q[i] = y
    BY RangeByPosition
  <2>3. Len(q) + 1 \in 1 .. Len(p) /\ \A i \in 1 .. Len(q) : i \in 1 .. Len(p)
    BY <1>1
  <2> QED
    BY <1>1, <1>2, <2>1, <2>2, <2>3
<1>4. ASSUME IsInjective(q), x \notin Range(q), NEW i \in 1 .. Len(p), NEW j \in 1 .. Len(p), p[i] = p[j]
      PROVE  i = j
  <2>1. \A k \in 1 .. Len(q) : q[k] # x
    BY <1>4, RangeByPosition
  <2>2. \A k, l \in 1 .. Len(q) : q[k] = q[l] => k = l
    BY <1>4, RangeByPosition
  <2> QED
    BY <1>1, <1>2, <1>4, <2>1, <2>2
<1>5. IsInjective(q) /\ x \notin Range(q) => IsInjective(p)
  BY <1>1, <1>4, RangeByPosition
<1> QED
  BY <1>1, <1>3, <1>5 DEF p

\* A list of elements of a set is one of elements of any larger set.
LEMMA ListOfMore ==
  ASSUME NEW S, NEW T, S \subseteq T, NEW q \in Seq(S)
  PROVE  q \in Seq(T)
<1>1. Len(q) \in Nat /\ q \in [1 .. Len(q) -> S]
  BY LenProperties
<1>2. q \in [1 .. Len(q) -> T]
  BY <1>1
<1> QED
  BY <1>1, <1>2, SeqDef

\* The first of a list and the rest of it.
LEMMA ListTail ==
  ASSUME NEW S, NEW q \in Seq(S), q # <<>>
  PROVE  /\ Tail(q) \in Seq(S) /\ Head(q) \in S
         /\ Range(q) = {Head(q)} \cup Range(Tail(q))
         /\ IsInjective(q) => IsInjective(Tail(q)) /\ Head(q) \notin Range(Tail(q))
<1> DEFINE p == Tail(q)
           h == Head(q)
<1>1. /\ p \in Seq(S) /\ Len(q) \in Nat \ {0} /\ h = q[1] /\ h \in S /\ Len(p) = Len(q) - 1
      /\ \A i \in 1 .. Len(q) - 1 : p[i] = q[i + 1]
  BY TailResult
<1> HIDE DEF p, h
<1>2. \A x : /\ x \in Range(p) <=> \E i \in 1 .. Len(p) : p[i] = x
             /\ x \in Range(q) <=> \E i \in 1 .. Len(q) : q[i] = x
  BY <1>1, RangeByPosition
<1>3. \A i \in 1 .. Len(p) : i + 1 \in 1 .. Len(q) /\ p[i] = q[i + 1]
  BY <1>1
<1>4. \A i \in 1 .. Len(q) : i = 1 \/ (i - 1 \in 1 .. Len(p) /\ p[i - 1] = q[i])
  BY <1>1
<1>5. Range(q) = {h} \cup Range(p)
  <2>1. ASSUME NEW x \in Range(q) PROVE x \in {h} \cup Range(p)
    BY <1>1, <1>2, <1>4
  <2>2. ASSUME NEW x \in {h} \cup Range(p) PROVE x \in Range(q)
    <3>1. 1 \in 1 .. Len(q)
      BY <1>1
    <3> QED
      BY <1>1, <1>2, <1>3, <3>1
  <2> QED
    BY <2>1, <2>2
<1>6. ASSUME IsInjective(q) PROVE IsInjective(p) /\ h \notin Range(p)
  <2>1. \A i, j \in 1 .. Len(q) : q[i] = q[j] => i = j
    BY <1>6, RangeByPosition
  <2>2. ASSUME NEW i \in 1 .. Len(p), NEW j \in 1 .. Len(p), p[i] = p[j] PROVE i = j
    <3>1. i + 1 = j + 1
      BY <1>3, <2>1, <2>2
    <3> QED
      BY <3>1
  <2>3. ASSUME NEW i \in 1 .. Len(p) PROVE p[i] # h
    <3>1. 1 \in 1 .. Len(q) /\ i + 1 # 1
      BY <1>1
    <3> QED
      BY <1>1, <1>3, <2>1, <3>1
  <2> QED
    BY <1>1, <1>2, <2>2, <2>3, RangeByPosition
<1> QED
  BY <1>1, <1>5, <1>6 DEF p, h

\* A list that names nobody twice is as long as the set of those it names.
LEMMA ListCardinality ==
  ASSUME NEW S, NEW q \in Seq(S), IsInjective(q)
  PROVE  IsFiniteSet(Range(q)) /\ Cardinality(Range(q)) = Len(q)
<1>1. Len(q) \in Nat /\ DOMAIN q = 1 .. Len(q) /\ q \in [1 .. Len(q) -> S]
  BY LenProperties
<1>2. q \in [1 .. Len(q) -> Range(q)] /\ \A x \in Range(q) : \E i \in 1 .. Len(q) : q[i] = x
  BY <1>1 DEF Range
<1>3. q \in Bijection(1 .. Len(q), Range(q))
  BY <1>2 DEF Bijection, Injection, Surjection
<1>4. ExistsBijection(1 .. Len(q), Range(q))
  BY <1>3 DEF ExistsBijection
<1> QED
  BY <1>1, <1>4, FS_CountingElements, FS_NatBijection

\* A set has at most one element if no two of them are different.
LEMMA AtMostOne ==
  ASSUME NEW S, IsFiniteSet(S)
  PROVE  Cardinality(S) <= 1 <=> \A x, y \in S : x = y
<1>1. ASSUME \A x, y \in S : x = y PROVE Cardinality(S) <= 1
  <2>1. S = {} \/ \E x : S = {x}
    BY <1>1
  <2> QED
    BY <2>1, FS_EmptySet, FS_Singleton
<1>2. ASSUME Cardinality(S) <= 1, NEW x \in S, NEW y \in S PROVE x = y
  <2>1. Cardinality(S) \in Nat
    BY FS_CardinalityType
  <2>2. Cardinality(S) = 0 \/ Cardinality(S) = 1
    BY <1>2, <2>1
  <2>3. S # {}
    OBVIOUS
  <2>4. Cardinality(S) = 1
    BY <2>2, <2>3, FS_EmptySet
  <2> QED
    BY <2>4, FS_Singleton
<1> QED
  BY <1>1, <1>2

-----------------------------------------------------------------------------
(* Least numbers. With them what holds of a number if it holds of all less *)
(* can be proved of all numbers without a theorem about operators.         *)

\* A set of numbers that is not empty has a least one, since of the sets 0 .. n a
\* smallest one can be chosen.
LEMMA LeastNumber ==
  ASSUME NEW T, T \subseteq Nat, T # {}
  PROVE  \E m \in T : \A n \in T : m <= n
<1> DEFINE U == {0 .. n : n \in T}
<1>1. IsWellFoundedOn(StrictSubsetOrdering(Nat), FiniteSubsetsOf(Nat))
  BY FS_StrictSubsetOrderingWellFounded
<1>2. U \subseteq FiniteSubsetsOf(Nat)
  <2>1. ASSUME NEW n \in T PROVE 0 .. n \in FiniteSubsetsOf(Nat)
    BY FS_Interval DEF FiniteSubsetsOf
  <2> QED
    BY <2>1
<1>3. U # {}
  OBVIOUS
<1> HIDE DEF U
<1>4. \E x \in U : \A y \in U : ~(<<y, x>> \in StrictSubsetOrdering(Nat))
  BY <1>1, <1>2, <1>3, WFMin
<1>5. PICK m \in T : \A n \in T : ~(<<0 .. n, 0 .. m>> \in StrictSubsetOrdering(Nat))
  BY <1>4 DEF U
<1>6. ASSUME NEW n \in T, n < m PROVE FALSE
  <2> DEFINE x == 0 .. n
             y == 0 .. m
  <2>1. x \in SUBSET Nat /\ y \in SUBSET Nat /\ x \subseteq y /\ x # y
    BY <1>6
  <2> HIDE DEF x, y
  <2>2. <<x, y>> \in StrictSubsetOrdering(Nat)
    BY <2>1 DEF StrictSubsetOrdering
  <2> QED
    BY <1>5, <2>2 DEF x, y
<1> QED
  BY <1>6

LEMMA GreatestNumber ==
  ASSUME NEW L \in Nat, NEW U, U \subseteq 1 .. L, U # {}
  PROVE  \E m \in U : \A n \in U : n <= m
<1> DEFINE T == {L - n : n \in U}
<1>1. T \subseteq Nat /\ T # {}
  <2>1. \A n \in U : L - n \in Nat
    OBVIOUS
  <2> QED
    BY <2>1
<1>2. PICK x \in T : \A y \in T : x <= y
  BY <1>1, LeastNumber
<1>3. PICK m \in U : x = L - m
  BY <1>2
<1>4. ASSUME NEW n \in U PROVE n <= m
  <2>1. L - m <= L - n /\ m \in 1 .. L /\ n \in 1 .. L
    BY <1>2, <1>3
  <2> QED
    BY <2>1
<1> QED
  BY <1>4

\* What holds at 1 and at the next number whenever it holds at one holds at all
\* numbers, the numbers where it holds being given as a set.
LEMMA AllUpTo ==
  ASSUME NEW L \in Nat \ {0}, NEW T, 1 \in T,
         \A n \in 1 .. L - 1 : n \in T => n + 1 \in T
  PROVE  1 .. L \subseteq T
<1> DEFINE F == {n \in 1 .. L : n \notin T}
<1> SUFFICES ASSUME F # {} PROVE FALSE
  OBVIOUS
<1>1. F \subseteq Nat
  OBVIOUS
<1>2. PICK m \in F : \A n \in F : m <= n
  BY <1>1, LeastNumber
<1>3. m \in 1 .. L /\ m \notin T /\ m # 1
  BY <1>2
<1>4. m - 1 \in 1 .. L - 1 /\ m - 1 \in 1 .. L /\ m = (m - 1) + 1 /\ ~(m <= m - 1)
  BY <1>3
<1>5. m - 1 \in T
  BY <1>2, <1>4
<1> QED
  BY <1>3, <1>4, <1>5

\* The same from zero on.
LEMMA AllFromZero ==
  ASSUME NEW L \in Nat, NEW T, 0 \in T,
         \A n \in 0 .. L - 1 : n \in T => n + 1 \in T
  PROVE  0 .. L \subseteq T
<1> DEFINE F == {n \in 0 .. L : n \notin T}
<1> SUFFICES ASSUME F # {} PROVE FALSE
  OBVIOUS
<1>1. F \subseteq Nat
  OBVIOUS
<1>2. PICK m \in F : \A n \in F : m <= n
  BY <1>1, LeastNumber
<1>3. m \in 0 .. L /\ m \notin T /\ m # 0
  BY <1>2
<1>4. m - 1 \in 0 .. L - 1 /\ m - 1 \in 0 .. L /\ m = (m - 1) + 1 /\ ~(m <= m - 1)
  BY <1>3
<1>5. m - 1 \notin F
  BY <1>2, <1>4
<1>6. m - 1 \in T
  BY <1>4, <1>5
<1> QED
  BY <1>3, <1>4, <1>6

\* The sums of the first so many of some numbers.
Sums(f, w, L) == f = [n \in 1 .. L |-> IF n = 1 THEN 0 ELSE f[n - 1] + w[n - 1]]

LEMMA SumsExist ==
  ASSUME NEW L \in Nat \ {0}, NEW w
  PROVE  \E f : Sums(f, w, L)
<1> DEFINE T == {n \in 1 .. L : \E f : Sums(f, w, n)}
<1>1. 1 \in T
  <2>1. Sums([i \in 1 .. 1 |-> 0], w, 1)
    BY DEF Sums
  <2> QED
    BY <2>1
<1>2. ASSUME NEW n \in 1 .. L - 1, n \in T PROVE n + 1 \in T
  <2>1. PICK f : f = [i \in 1 .. n |-> IF i = 1 THEN 0 ELSE f[i - 1] + w[i - 1]]
    BY <1>2 DEF Sums
  <2> DEFINE h == [i \in 1 .. n + 1 |-> IF i \in 1 .. n THEN f[i] ELSE f[n] + w[n]]
  <2>2. ASSUME NEW i \in 1 .. n + 1 PROVE h[i] = IF i = 1 THEN 0 ELSE h[i - 1] + w[i - 1]
    <3>1. CASE i \in 1 .. n
      <4>1. i = 1 \/ i - 1 \in 1 .. n
        BY <3>1
      <4>2. f[i] = IF i = 1 THEN 0 ELSE f[i - 1] + w[i - 1]
        BY <2>1, <3>1
      <4> QED
        BY <3>1, <4>1, <4>2
    <3>2. CASE i = n + 1
      <4>1. i - 1 = n /\ n \in 1 .. n /\ i \notin 1 .. n /\ i # 1
        BY <3>2
      <4> QED
        BY <4>1
    <3> QED
      BY <3>1, <3>2
  <2>3. h = [i \in 1 .. n + 1 |-> h[i]]
    OBVIOUS
  <2> HIDE DEF h
  <2>4. Sums(h, w, n + 1)
    BY <2>2, <2>3, Zenon DEF Sums
  <2>5. n + 1 \in 1 .. L
    OBVIOUS
  <2> QED
    BY <2>4, <2>5
<1> HIDE DEF T
<1>3. 1 .. L \subseteq T
  BY <1>1, <1>2, AllUpTo
<1>4. L \in T
  BY <1>3
<1> QED
  BY <1>4 DEF T

-----------------------------------------------------------------------------
(* Remainders.                                                             *)

\* Division with remainder: what the provers know of % and \div.
LEMMA DivisionWithRemainder ==
  ASSUME NEW M \in Nat \ {0}, NEW a \in Int
  PROVE  /\ a \div M \in Int
         /\ a % M \in 0 .. M - 1
         /\ a = M * (a \div M) + (a % M)
  OBVIOUS

\* Multiples of M are at least M apart.
LEMMA MultiplesApart ==
  ASSUME NEW M \in Nat \ {0}, NEW p \in Int, NEW q \in Int, p > q
  PROVE  M * p >= M * q + M
<1>1. p - q - 1 \in Nat
  OBVIOUS
<1>2. M * (p - q - 1) >= 0
  BY <1>1
<1>3. M * (p - q - 1) = M * p - M * q - M
  OBVIOUS
<1> QED
  BY <1>2, <1>3

\* Numbers with equal remainders that are less than M apart are equal.
LEMMA EqualWithinModulus ==
  ASSUME NEW M \in Nat \ {0}, NEW a \in Int, NEW b \in Int,
         a % M = b % M, a <= b, b < a + M
  PROVE  a = b
<1> DEFINE p == a \div M
           q == b \div M
<1>1. p \in Int /\ q \in Int /\ a = M * p + (a % M) /\ b = M * q + (b % M)
  BY DivisionWithRemainder
<1>2. M * p \in Int /\ M * q \in Int /\ a % M \in Int
  BY <1>1, DivisionWithRemainder
<1> HIDE DEF p, q
<1>3. M * q - M * p >= 0 /\ M * q - M * p < M
  BY <1>1, <1>2
<1>4. ~ (q > p)
  BY <1>1, <1>2, <1>3, MultiplesApart
<1>5. ~ (p > q)
  BY <1>1, <1>2, <1>3, MultiplesApart
<1> QED
  BY <1>1, <1>4, <1>5

\* Adding a multiple of M does not change the remainder.
LEMMA AddMultiple ==
  ASSUME NEW M \in Nat \ {0}, NEW q \in Int, NEW r \in Int
  PROVE  (M * q + r) % M = r % M
<1> DEFINE a == M * q + r
           d == a \div M
           e == r \div M
<1>1. a \in Int
  OBVIOUS
<1>2. d \in Int /\ a % M \in 0 .. M - 1 /\ a = M * d + (a % M)
  BY <1>1, DivisionWithRemainder
<1>3. e \in Int /\ r % M \in 0 .. M - 1 /\ r = M * e + (r % M)
  BY DivisionWithRemainder
<1>4. a = M * (q + e) + (r % M)
  <2>1. M * (q + e) = M * q + M * e
    BY <1>3
  <2> QED
    BY <1>3, <2>1
<1>5. q + e \in Int /\ M * (q + e) \in Int /\ M * d \in Int
  BY <1>2, <1>3
<1> HIDE DEF a, d, e
<1>6. ~ (d > q + e)
  BY <1>2, <1>3, <1>4, <1>5, MultiplesApart
<1>7. ~ (q + e > d)
  BY <1>2, <1>3, <1>4, <1>5, MultiplesApart
<1>8. d = q + e
  BY <1>2, <1>5, <1>6, <1>7
<1>9. a % M = r % M
  BY <1>2, <1>3, <1>4, <1>5, <1>8
<1> QED
  BY <1>9 DEF a

\* A number below the modulus is its own remainder.
LEMMA RemainderOfSmall ==
  ASSUME NEW M \in Nat \ {0}, NEW a \in 0 .. M - 1
  PROVE  a % M = a
<1>1. a % M \in 0 .. M - 1 /\ (a % M) % M = a % M
  <2>1. a \div M \in Int /\ a % M \in 0 .. M - 1 /\ a = M * (a \div M) + (a % M)
    BY DivisionWithRemainder
  <2>2. a % M = M * (-(a \div M)) + a
    <3>1. M * (-(a \div M)) = -(M * (a \div M))
      BY <2>1
    <3> QED
      BY <2>1, <3>1
  <2>3. -(a \div M) \in Int
    BY <2>1
  <2> QED
    BY <2>1, <2>2, <2>3, AddMultiple
<1> DEFINE r == a % M
<1>2. r \in Int /\ a \in Int /\ r % M = a % M /\ a < r + M /\ r < a + M
  BY <1>1
<1> HIDE DEF r
<1>3. r = a
  BY <1>2, EqualWithinModulus
<1> QED
  BY <1>3 DEF r

\* A remainder may be taken before adding or subtracting.
LEMMA RemainderOfSum ==
  ASSUME NEW M \in Nat \ {0}, NEW a \in Int, NEW b \in Int
  PROVE  /\ ((a % M) + b) % M = (a + b) % M
         /\ ((a % M) - (b % M)) % M = (a - b) % M
         /\ (a - (b % M)) % M = (a - b) % M
<1> DEFINE p == a \div M
           q == b \div M
           r == a % M
           t == b % M
<1>1. p \in Int /\ r \in Int /\ a = M * p + r
  BY DivisionWithRemainder
<1>2. q \in Int /\ t \in Int /\ b = M * q + t
  BY DivisionWithRemainder
<1>3. M * (-p) = -(M * p) /\ M * (q - p) = M * q - M * p
  BY <1>1, <1>2
<1>4. /\ M * p \in Int /\ M * q \in Int
      /\ -p \in Int /\ q - p \in Int /\ a + b \in Int /\ a - b \in Int
  BY <1>1, <1>2
<1> HIDE DEF p, q, r, t
<1>5. (r + b) % M = (a + b) % M
  <2>1. r + b = M * (-p) + (a + b)
    BY <1>1, <1>3, <1>4
  <2>2. (M * (-p) + (a + b)) % M = (a + b) % M
    BY <1>2, <1>4, AddMultiple, Zenon
  <2> QED
    BY <2>1, <2>2
<1>6. (r - t) % M = (a - b) % M
  <2>1. r - t = M * (q - p) + (a - b)
    BY <1>1, <1>2, <1>3, <1>4
  <2>2. (M * (q - p) + (a - b)) % M = (a - b) % M
    BY <1>2, <1>4, AddMultiple, Zenon
  <2> QED
    BY <2>1, <2>2
<1>7. (a - t) % M = (a - b) % M
  <2>1. a - t = M * q + (a - b)
    BY <1>2, <1>4
  <2>2. (M * q + (a - b)) % M = (a - b) % M
    BY <1>2, <1>4, AddMultiple, Zenon
  <2> QED
    BY <2>1, <2>2
<1> QED
  BY <1>5, <1>6, <1>7 DEF r, t
=============================================================================
