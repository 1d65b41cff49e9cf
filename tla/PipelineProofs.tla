--------------------------- MODULE PipelineProofs ---------------------------
(***************************************************************************)
(* Proofs about the readers of the drivers and about Pipeline: which rows  *)
(* the recursive loops of the readers send, how partitions and ranges      *)
(* share the rows of a table, and from these the saved key of a pipeline's *)
(* job and the rows of a job that has succeeded.                           *)
(***************************************************************************)
EXTENDS Pipeline, MCReads, FiniteSetTheorems, SequenceTheorems, WellFoundedInduction, TLAPS

-----------------------------------------------------------------------------
(* The rows of a query: the keys of a set in their order. *)

\* A non-empty set of naturals has a least element.
LEMMA LeastNat ==
  ASSUME NEW T, T \subseteq Nat, T # {}
  PROVE  \E m \in T : \A k \in T : m <= k
<1>1. IsWellFoundedOn({p \in Nat \X Nat : p[1] < p[2]}, Nat)
  BY NatLessThanWellFounded DEF OpToRel
<1>2. PICK m \in T : \A k \in T : ~(<<k, m>> \in {p \in Nat \X Nat : p[1] < p[2]})
  BY <1>1, WFMin
<1>3. \A k \in T : ~(k < m)
  BY <1>2
<1> QED BY <1>3

\* How many keys of S are not greater than k.
Rank(S, k) == Cardinality({j \in S : j <= k})

LEMMA RankFacts ==
  ASSUME NEW S \in SUBSET Int, IsFiniteSet(S)
  PROVE  /\ Cardinality(S) \in Nat
         /\ \A k \in Int : Rank(S, k) \in 0 .. Cardinality(S)
         /\ \A j, k \in Int : j <= k => Rank(S, j) <= Rank(S, k)
         /\ \A j \in Int, k \in S : j < k => Rank(S, j) < Rank(S, k)
         /\ \A k \in S : Rank(S, k) \in 1 .. Cardinality(S)
<1> DEFINE Below(k) == {j \in S : j <= k}
<1>1. Cardinality(S) \in Nat
  BY FS_CardinalityType
<1>2. ASSUME NEW k \in Int PROVE IsFiniteSet(Below(k)) /\ Rank(S, k) \in 0 .. Cardinality(S)
  <2>1. Below(k) \in SUBSET S
    OBVIOUS
  <2>2. IsFiniteSet(Below(k)) /\ Cardinality(Below(k)) <= Cardinality(S)
    BY <2>1, FS_Subset
  <2>3. Cardinality(Below(k)) \in Nat
    BY <2>2, FS_CardinalityType
  <2> QED BY <1>1, <2>2, <2>3 DEF Rank
<1>3. ASSUME NEW j \in Int, NEW k \in Int, j <= k PROVE Rank(S, j) <= Rank(S, k)
  <2>1. \A i \in S : i \in Int
    OBVIOUS
  <2>2. Below(j) \in SUBSET Below(k)
    <3> SUFFICES ASSUME NEW i \in Below(j) PROVE i \in Below(k)
      OBVIOUS
    <3>1. i \in Int /\ i <= j /\ i \in S
      BY <2>1
    <3> QED BY <1>3, <3>1
  <2>3. IsFiniteSet(Below(k))
    BY <1>2
  <2> QED BY <2>2, <2>3, FS_Subset DEF Rank
<1>4. ASSUME NEW j \in Int, NEW k \in S, j < k PROVE Rank(S, j) < Rank(S, k)
  <2>1. k \in Int /\ \A i \in S : i \in Int
    OBVIOUS
  <2>2. Below(j) \in SUBSET Below(k) /\ k \in Below(k) /\ k \notin Below(j)
    <3>1. \A i \in Below(j) : i \in Below(k)
      <4> SUFFICES ASSUME NEW i \in Below(j) PROVE i \in Below(k)
        OBVIOUS
      <4>1. i \in Int /\ i <= j /\ i \in S
        BY <2>1
      <4> QED BY <1>4, <2>1, <4>1
    <3>2. k \in Below(k) /\ k \notin Below(j)
      BY <1>4, <2>1
    <3> QED BY <3>1, <3>2
  <2>3. IsFiniteSet(Below(k)) /\ Rank(S, j) \in Nat /\ Rank(S, k) \in Nat
    <3>1. IsFiniteSet(Below(k)) /\ Rank(S, k) \in 0 .. Cardinality(S)
      BY <1>2, <2>1
    <3>2. Rank(S, j) \in 0 .. Cardinality(S)
      BY <1>2
    <3> QED BY <1>1, <3>1, <3>2
  <2>4. Cardinality(Below(j)) <= Cardinality(Below(k)) /\ Cardinality(Below(j)) # Cardinality(Below(k))
    BY <2>2, <2>3, FS_Subset
  <2> QED BY <2>3, <2>4 DEF Rank
<1>5. ASSUME NEW k \in S PROVE Rank(S, k) \in 1 .. Cardinality(S)
  <2>1. k \in Int /\ k - 1 \in Int /\ k - 1 < k
    OBVIOUS
  <2>2. Rank(S, k - 1) < Rank(S, k)
    BY <1>4, <2>1
  <2>3. Rank(S, k - 1) \in 0 .. Cardinality(S) /\ Rank(S, k) \in 0 .. Cardinality(S)
    BY <1>2, <2>1
  <2> HIDE DEF Below
  <2> QED BY <1>1, <2>2, <2>3
<1> QED BY <1>1, <1>2, <1>3, <1>4, <1>5

\* Each number up to the size of the set is the rank of one of its keys.
LEMMA RankOnto ==
  ASSUME NEW S \in SUBSET Int, IsFiniteSet(S), NEW i \in 1 .. Cardinality(S)
  PROVE  \E k \in S : Rank(S, k) = i
<1> DEFINE T == 1 .. Cardinality(S)
           f == [k \in S |-> Rank(S, k)]
<1>1. Cardinality(S) \in Nat
  BY RankFacts
<1>2. IsFiniteSet(T) /\ Cardinality(T) = Cardinality(S)
  BY <1>1, FS_Interval
<1>3. f \in [S -> T]
  BY RankFacts
<1>4. \A a, b \in S : a < b \/ b < a \/ a = b
  OBVIOUS
<1>5. \A a \in S : Rank(S, a) \in Int
  BY RankFacts
<1>6. \A a, b \in S : Rank(S, a) = Rank(S, b) => a = b
  BY <1>4, <1>5, RankFacts
<1>7. f \in Injection(S, T)
  BY <1>3, <1>6 DEF Injection, IsInjective
<1> HIDE DEF f, T
<1>8. f \in Surjection(S, T)
  BY <1>2, <1>7, FS_Injection
<1>9. \E k \in S : f[k] = i
  BY <1>8 DEF Surjection, T
<1> QED BY <1>9 DEF f

LEMMA SortedFacts ==
  ASSUME NEW S \in SUBSET Int, IsFiniteSet(S)
  PROVE  /\ Sorted(S) \in Seq(S) /\ Len(Sorted(S)) = Cardinality(S)
         /\ \A i \in 1 .. Cardinality(S) : Sorted(S)[i] \in S /\ Rank(S, Sorted(S)[i]) = i
         /\ \A k \in S : Sorted(S)[Rank(S, k)] = k
         /\ \A i, j \in 1 .. Cardinality(S) : i < j => Sorted(S)[i] < Sorted(S)[j]
<1> DEFINE n == Cardinality(S)
<1>1. n \in Nat
  BY RankFacts
<1>2. Sorted(S) = [i \in 1 .. n |-> CHOOSE k \in S : Rank(S, k) = i]
  BY DEF Sorted, Rank
<1>3. \A i \in 1 .. n : Sorted(S)[i] \in S /\ Rank(S, Sorted(S)[i]) = i
  <2> SUFFICES ASSUME NEW i \in 1 .. n PROVE Sorted(S)[i] \in S /\ Rank(S, Sorted(S)[i]) = i
    OBVIOUS
  <2>1. \E k \in S : Rank(S, k) = i
    BY RankOnto
  <2>2. Sorted(S)[i] = CHOOSE k \in S : Rank(S, k) = i
    BY <1>2
  <2> QED BY <2>1, <2>2
<1> HIDE DEF n
<1>4. Sorted(S) \in [1 .. n -> S]
  BY <1>2, <1>3
<1>5. Sorted(S) \in Seq(S) /\ Len(Sorted(S)) = n
  BY <1>1, <1>4
<1>6. \A a, b \in S : a < b \/ b < a \/ a = b
  OBVIOUS
<1>7. \A a \in S : Rank(S, a) \in 1 .. n
  BY RankFacts DEF n
<1>8. \A a, b \in S : Rank(S, a) = Rank(S, b) => a = b
  BY <1>1, <1>6, <1>7, RankFacts
<1>9. ASSUME NEW k \in S PROVE Sorted(S)[Rank(S, k)] = k
  BY <1>3, <1>7, <1>8
<1>10. ASSUME NEW i \in 1 .. n, NEW j \in 1 .. n, i < j PROVE Sorted(S)[i] < Sorted(S)[j]
  <2>1. PICK a \in S : a = Sorted(S)[i] /\ Rank(S, a) = i
    BY <1>3
  <2>2. PICK b \in S : b = Sorted(S)[j] /\ Rank(S, b) = j
    BY <1>3
  <2>3. ~(b <= a)
    <3>1. b <= a => Rank(S, b) <= Rank(S, a)
      BY RankFacts
    <3> QED BY <1>10, <2>1, <2>2, <3>1
  <2> QED BY <2>1, <2>2, <2>3
<1> QED BY <1>3, <1>5, <1>9, <1>10 DEF n

\* The first m keys of a set are m.
LEMMA RankInitial ==
  ASSUME NEW S \in SUBSET Int, IsFiniteSet(S), NEW m \in 0 .. Cardinality(S)
  PROVE  /\ IsFiniteSet({j \in S : Rank(S, j) <= m})
         /\ Cardinality({j \in S : Rank(S, j) <= m}) = m
<1> DEFINE A == {j \in S : Rank(S, j) <= m}
<1>1. Cardinality(S) \in Nat /\ \A j \in S : Rank(S, j) \in 1 .. Cardinality(S)
  BY RankFacts
<1>2. A \in SUBSET S
  OBVIOUS
<1>3. IsFiniteSet(A)
  BY <1>2, FS_Subset
<1>4. CASE m = 0
  <2>1. A = {}
    <3> SUFFICES ASSUME NEW j \in A PROVE FALSE
      OBVIOUS
    <3>1. j \in S /\ Rank(S, j) <= m
      OBVIOUS
    <3> QED BY <1>1, <1>4, <3>1
  <2> QED BY <1>3, <1>4, <2>1, FS_EmptySet
<1>5. CASE m # 0
  <2>1. m \in 1 .. Cardinality(S)
    BY <1>1, <1>5
  <2>2. PICK c \in S : Rank(S, c) = m
    BY <2>1, RankOnto
  <2>3. ASSUME NEW j \in S PROVE Rank(S, j) <= m <=> j <= c
    <3>1. j \in Int /\ c \in Int
      OBVIOUS
    <3>2. j <= c => Rank(S, j) <= Rank(S, c)
      BY <3>1, RankFacts
    <3>3. c < j => Rank(S, c) < Rank(S, j)
      BY <3>1, RankFacts
    <3> QED BY <1>1, <2>1, <2>2, <3>1, <3>2, <3>3
  <2>4. A = {j \in S : j <= c}
    BY <2>3
  <2> QED BY <1>3, <2>2, <2>4 DEF Rank
<1> QED BY <1>3, <1>4, <1>5

LEMMA SubSeqFacts ==
  ASSUME NEW T, NEW s \in Seq(T), NEW a \in Nat \ {0}, NEW b \in Int, b <= Len(s)
  PROVE  /\ SubSeq(s, a, b) \in Seq(T)
         /\ Len(SubSeq(s, a, b)) = IF a <= b THEN b - a + 1 ELSE 0
         /\ \A i \in 1 .. Len(SubSeq(s, a, b)) : SubSeq(s, a, b)[i] = s[a + i - 1]
         /\ b < a => SubSeq(s, a, b) = << >>
<1>1. \A i \in a .. b : s[i] \in T
  <2> SUFFICES ASSUME NEW i \in a .. b PROVE s[i] \in T
    OBVIOUS
  <2>1. i \in 1 .. Len(s)
    BY LenProperties
  <2> QED BY <2>1, ElementOfSeq
<1>2. /\ SubSeq(s, a, b) \in Seq(T)
      /\ Len(SubSeq(s, a, b)) = IF a <= b THEN b - a + 1 ELSE 0
      /\ \A i \in 1 .. b - a + 1 : SubSeq(s, a, b)[i] = s[a + i - 1]
  BY <1>1, SubSeqProperties
<1>3. b < a => SubSeq(s, a, b) = << >>
  BY SubSeqEmpty
<1>4. 1 .. Len(SubSeq(s, a, b)) \subseteq 1 .. b - a + 1
  BY <1>2
<1> QED BY <1>2, <1>3, <1>4

LEMMA Smaller ==
  ASSUME NEW a \in Int, NEW b \in Int
  PROVE  /\ SmallerOf(a, b) \in {a, b}
         /\ SmallerOf(a, b) <= a /\ SmallerOf(a, b) <= b
BY DEF SmallerOf

\* The rows numbered from + 1 .. to, in order, are a section of the table in order.
LEMMA SortedNumbered ==
  ASSUME NEW S \in SUBSET Int, IsFiniteSet(S), NEW from \in Nat, NEW to \in Nat
  PROVE  /\ Numbered(S, from, to) \in SUBSET S /\ IsFiniteSet(Numbered(S, from, to))
         /\ Sorted(Numbered(S, from, to))
              = SubSeq(Sorted(S), from + 1, SmallerOf(to, Cardinality(S)))
<1> DEFINE n == Cardinality(S)
           h == SmallerOf(to, n)
           N == Numbered(S, from, to)
<1>1. n \in Nat /\ \A j \in S : Rank(S, j) \in 1 .. n
  BY RankFacts
<1>2. h \in Nat /\ h <= n /\ h <= to
  BY <1>1, Smaller
<1>3. N = {k \in S : from < Rank(S, k) /\ Rank(S, k) <= h}
  <2>1. \A k \in S : Rank(S, k) <= to <=> Rank(S, k) <= h
    BY <1>1 DEF SmallerOf
  <2> QED BY <2>1 DEF Numbered, Rank
<1>4. N \in SUBSET S
  BY <1>3
<1>5. IsFiniteSet(N)
  BY <1>4, FS_Subset
<1>6. Sorted(S) \in Seq(S) /\ Len(Sorted(S)) = n
  BY SortedFacts
<1> DEFINE sub == SubSeq(Sorted(S), from + 1, h)
<1>7. /\ sub \in Seq(S) /\ Len(sub) = (IF from < h THEN h - from ELSE 0)
      /\ \A i \in 1 .. Len(sub) : sub[i] = Sorted(S)[(from + 1) + i - 1]
      /\ h < from + 1 => sub = << >>
  <2>1. from + 1 \in Nat \ {0} /\ h \in Int /\ h <= Len(Sorted(S)) /\ (from + 1 <= h <=> from < h)
    BY <1>2, <1>6
  <2> HIDE DEF h
  <2>2. Len(sub) = IF from + 1 <= h THEN h - (from + 1) + 1 ELSE 0
    BY <1>6, <2>1, SubSeqFacts
  <2>3. Len(sub) = (IF from < h THEN h - from ELSE 0)
    BY <1>2, <2>1, <2>2
  <2> QED BY <1>6, <2>1, <2>3, SubSeqFacts
<1>8. CASE h <= from
  <2>1. N = {}
    <3> SUFFICES ASSUME NEW j \in N PROVE FALSE
      OBVIOUS
    <3>1. j \in S /\ from < Rank(S, j) /\ Rank(S, j) <= h
      BY <1>3
    <3> QED BY <1>1, <1>2, <1>8, <3>1
  <2>2. Cardinality(N) = 0
    BY <2>1, FS_EmptySet
  <2>3. N \in SUBSET Int
    BY <1>4
  <2>4. Sorted(N) \in Seq(N) /\ Len(Sorted(N)) = 0
    BY <1>5, <2>2, <2>3, SortedFacts
  <2>5. Sorted(N) = << >>
    BY <2>4, EmptySeq
  <2>6. sub = << >>
    BY <1>2, <1>7, <1>8
  <2> QED BY <1>4, <1>5, <2>5, <2>6
<1>9. CASE from < h
  <2> DEFINE A == {j \in S : Rank(S, j) <= from}
             H == {j \in S : Rank(S, j) <= h}
  <2>1. from \in 0 .. n /\ h \in 0 .. n
    BY <1>1, <1>2, <1>9
  <2>2. IsFiniteSet(A) /\ Cardinality(A) = from /\ IsFiniteSet(H) /\ Cardinality(H) = h
    BY <2>1, RankInitial
  <2>3. N = H \ A /\ H \cap A = A
    <3>1. ASSUME NEW j \in S
          PROVE  /\ (from < Rank(S, j) /\ Rank(S, j) <= h) <=> (Rank(S, j) <= h /\ ~(Rank(S, j) <= from))
                 /\ Rank(S, j) <= from => Rank(S, j) <= h
      BY <1>1, <1>2, <1>9
    <3>2. N = H \ A
      BY <1>3, <3>1
    <3> QED BY <3>1, <3>2
  <2>4. Cardinality(N) = h - from
    BY <2>2, <2>3, FS_Difference
  <2>5. ASSUME NEW k \in N PROVE Rank(N, k) = Rank(S, k) - from
    <3> DEFINE U == {j \in S : j <= k}
    <3>1. k \in S /\ k \in Int
      BY <1>4
    <3>2. \A j \in S : j <= k => Rank(S, j) <= Rank(S, k)
      BY <3>1, RankFacts
    <3>3. \A j \in S : k < j => Rank(S, k) < Rank(S, j)
      BY <3>1, RankFacts
    <3>4. from < Rank(S, k) /\ Rank(S, k) <= h
      BY <1>3
    <3>5. \A j \in S : j \in Int /\ Rank(S, j) \in Int
      BY <1>1
    <3>6. A \subseteq U
      <4> SUFFICES ASSUME NEW j \in A PROVE j \in U
        OBVIOUS
      <4>1. j \in S /\ Rank(S, j) <= from
        OBVIOUS
      <4> QED BY <3>1, <3>3, <3>4, <3>5, <4>1
    <3>7. {j \in N : j <= k} = U \ A
      <4>1. ASSUME NEW j \in S PROVE (j \in N /\ j <= k) <=> (j <= k /\ ~(Rank(S, j) <= from))
        BY <1>2, <1>3, <3>1, <3>2, <3>4, <3>5
      <4> QED BY <1>4, <4>1
    <3>8. IsFiniteSet(U)
      <4>1. U \in SUBSET S
        OBVIOUS
      <4> QED BY <4>1, FS_Subset
    <3>9. U \cap A = A
      BY <3>6
    <3>10. Cardinality(U \ A) = Cardinality(U) - Cardinality(A)
      <4> HIDE DEF U, A
      <4> QED BY <3>8, <3>9, FS_Difference
    <3> QED BY <2>2, <3>7, <3>10 DEF Rank
  <2> HIDE DEF N, n, h, sub
  <2>6. N \in SUBSET Int
    BY <1>4
  <2>7. Sorted(N) \in Seq(N) /\ Len(Sorted(N)) = h - from
    BY <1>5, <2>4, <2>6, SortedFacts
  <2>8. ASSUME NEW i \in 1 .. h - from PROVE Sorted(N)[i] = sub[i]
    <3>1. from + i \in 1 .. n /\ (from + 1) + i - 1 = from + i /\ from < from + i /\ from + i <= h
      BY <1>1, <1>2, <1>9
    <3>2. PICK k \in S : k = Sorted(S)[from + i] /\ Rank(S, k) = from + i
      BY <3>1, SortedFacts DEF n
    <3>3. k \in N
      BY <1>3, <3>1, <3>2
    <3>4. Rank(N, k) = i
      BY <2>5, <3>2, <3>3
    <3>5. Sorted(N)[Rank(N, k)] = k
      BY <1>5, <2>6, <3>3, SortedFacts
    <3>6. i \in 1 .. Len(sub)
      BY <1>7, <1>9
    <3>7. sub[i] = Sorted(S)[from + i]
      BY <1>7, <3>1, <3>6
    <3> QED BY <3>2, <3>4, <3>5, <3>7
  <2>9. Sorted(N) \in Seq(S)
    BY <1>4, <2>7, SeqMonotonic
  <2>10. Len(Sorted(N)) = Len(sub)
    BY <1>7, <1>9, <2>7
  <2>11. Sorted(N) = sub
    BY <1>7, <2>7, <2>8, <2>9, <2>10, SeqEqual
  <2> QED BY <1>4, <1>5, <2>11 DEF sub, N, h, n
<1> QED BY <1>1, <1>2, <1>8, <1>9

-----------------------------------------------------------------------------
(* Rows in batches. *)

LEMMA DivBounds ==
  ASSUME NEW a \in Nat, NEW n \in Nat \ {0}
  PROVE  a \div n \in Nat /\ n * (a \div n) <= a /\ a < n * (a \div n) + n
OBVIOUS

LEMMA TimesMonotone ==
  ASSUME NEW i \in Nat, NEW k \in Nat, NEW s \in Nat, i <= k
  PROVE  i * s \in Nat /\ i * s <= k * s
<1>1. PICK d \in Nat : k = i + d
  <2>1. k - i \in Nat /\ k = i + (k - i)
    OBVIOUS
  <2> QED BY <2>1
<1>2. d * s \in Nat /\ i * s \in Nat
  OBVIOUS
<1>3. k * s = i * s + d * s
  BY <1>1
<1> QED BY <1>2, <1>3

\* Only one number of batches of a size holds so many rows, the last of them not empty.
LEMMA CountUnique ==
  ASSUME NEW s \in Nat \ {0}, NEW n \in Nat, NEW c \in Nat, NEW d \in Nat,
         n <= c * s, c # 0 => (c - 1) * s < n,
         n <= d * s, d # 0 => (d - 1) * s < n
  PROVE  c = d
<1>1. ASSUME NEW a \in Nat, NEW b \in Nat, a < b, b # 0 => (b - 1) * s < n, n <= a * s
      PROVE  FALSE
  <2>1. a <= b - 1 /\ b - 1 \in Nat
    BY <1>1
  <2>2. a * s \in Nat /\ a * s <= (b - 1) * s
    BY <2>1, TimesMonotone
  <2>3. (b - 1) * s \in Nat
    BY <2>1
  <2> QED BY <1>1, <2>1, <2>2, <2>3
<1>2. ~(c < d) /\ ~(d < c)
  BY <1>1
<1> QED BY <1>2

Batches(n, limit) == (n + limit - 1) \div limit

LEMMA BatchesFacts ==
  ASSUME NEW n \in Nat, NEW limit \in Nat \ {0}
  PROVE  /\ Batches(n, limit) \in Nat
         /\ n <= Batches(n, limit) * limit
         /\ Batches(n, limit) # 0 => (Batches(n, limit) - 1) * limit < n
         /\ Batches(n, limit) = 0 <=> n = 0
         /\ \A i \in 1 .. Batches(n, limit) :
              /\ (i - 1) * limit \in Nat /\ i * limit = (i - 1) * limit + limit
              /\ (i - 1) * limit < n
<1> DEFINE a == n + limit - 1
           c == Batches(n, limit)
<1>1. a \in Nat
  OBVIOUS
<1>2. c \in Nat /\ limit * c <= a /\ a < limit * c + limit
  BY <1>1, DivBounds DEF Batches
<1> HIDE DEF c
<1>3. limit * c \in Nat /\ limit * c = c * limit
  BY <1>2
<1>4. c # 0 => (c - 1) * limit = c * limit - limit
  BY <1>2
<1>5. n <= c * limit /\ (c # 0 => (c - 1) * limit < n)
  BY <1>2, <1>3, <1>4
<1>6. c = 0 <=> n = 0
  <2>1. c = 0 => c * limit = 0
    OBVIOUS
  <2>2. c # 0 => (c - 1) * limit \in Nat
    <3>1. c # 0 => c - 1 \in Nat
      BY <1>2
    <3> QED BY <3>1
  <2> QED BY <1>2, <1>5, <2>1, <2>2
<1>7. ASSUME NEW i \in 1 .. c
      PROVE  /\ (i - 1) * limit \in Nat /\ i * limit = (i - 1) * limit + limit
             /\ (i - 1) * limit < n
  <2>1. i - 1 \in Nat /\ c - 1 \in Nat /\ i - 1 <= c - 1 /\ c # 0
    BY <1>2
  <2>2. (i - 1) * limit \in Nat /\ (i - 1) * limit <= (c - 1) * limit
    BY <2>1, TimesMonotone
  <2>3. i * limit = (i - 1) * limit + limit
    BY <2>1
  <2>4. (c - 1) * limit \in Nat
    BY <2>1
  <2> QED BY <1>5, <2>1, <2>2, <2>3, <2>4
<1> QED BY <1>2, <1>5, <1>6, <1>7 DEF c

(* The batches of some rows: their number, their sizes and their rows. *)
InBatches(T, rows, limit) ==
  /\ Chunks(rows, limit) \in Seq(Seq(T))
  /\ Len(Chunks(rows, limit)) = Batches(Len(rows), limit)
  /\ \A i \in 1 .. Batches(Len(rows), limit) :
       /\ Chunks(rows, limit)[i]
            = SubSeq(rows, (i - 1) * limit + 1, SmallerOf(i * limit, Len(rows)))
       /\ Len(Chunks(rows, limit)[i]) = SmallerOf(limit, Len(rows) - (i - 1) * limit)
       /\ Len(Chunks(rows, limit)[i]) \in 1 .. limit
       /\ \A j \in 1 .. Len(Chunks(rows, limit)[i]) :
            Chunks(rows, limit)[i][j] = rows[(i - 1) * limit + j]

LEMMA ChunksFacts ==
  ASSUME NEW T, NEW rows \in Seq(T), NEW limit \in Nat \ {0}
  PROVE  InBatches(T, rows, limit)
<1> DEFINE n == Len(rows)
           c == Batches(n, limit)
           part(i) == SubSeq(rows, (i - 1) * limit + 1, SmallerOf(i * limit, n))
<1>1. n \in Nat
  BY LenProperties
<1>2. c \in Nat /\ \A i \in 1 .. c : /\ (i - 1) * limit \in Nat /\ i * limit = (i - 1) * limit + limit
                                     /\ (i - 1) * limit < n
  BY <1>1, BatchesFacts
<1>3. Chunks(rows, limit) = [i \in 1 .. c |-> part(i)]
  BY DEF Chunks, Batches
<1> HIDE DEF c
<1>4. ASSUME NEW i \in 1 .. c
      PROVE  /\ part(i) \in Seq(T)
             /\ Len(part(i)) = SmallerOf(limit, n - (i - 1) * limit)
             /\ Len(part(i)) \in 1 .. limit
             /\ \A j \in 1 .. Len(part(i)) : part(i)[j] = rows[(i - 1) * limit + j]
  <2>1. PICK a \in Nat : a = (i - 1) * limit /\ i * limit = a + limit /\ a < n
    BY <1>2
  <2>2. PICK b : b = SmallerOf(a + limit, n)
    OBVIOUS
  <2>3. part(i) = SubSeq(rows, a + 1, b)
    BY <2>1, <2>2
  <2>4. b \in Nat /\ b <= n /\ a + 1 <= b /\ b - (a + 1) + 1 = SmallerOf(limit, n - a)
    <3> HIDE DEF n
    <3>1. a < n /\ b = IF a + limit < n THEN a + limit ELSE n
      BY <2>1, <2>2 DEF SmallerOf
    <3>2. CASE a + limit < n
      <4>1. b = a + limit /\ SmallerOf(limit, n - a) = limit
        BY <1>1, <3>1, <3>2 DEF SmallerOf
      <4> QED BY <1>1, <3>1, <3>2, <4>1
    <3>3. CASE ~(a + limit < n)
      <4>1. b = n /\ SmallerOf(limit, n - a) = n - a
        BY <1>1, <3>1, <3>3 DEF SmallerOf
      <4> QED BY <1>1, <3>1, <3>3, <4>1
    <3> QED BY <3>2, <3>3
  <2>5. SmallerOf(limit, n - a) \in 1 .. limit
    BY <1>1, <2>1 DEF SmallerOf
  <2> HIDE DEF part, n
  <2>6. a + 1 \in Nat \ {0} /\ b \in Int /\ b <= Len(rows)
    BY <2>4 DEF n
  <2>7. /\ part(i) \in Seq(T) /\ Len(part(i)) = SmallerOf(limit, n - a)
        /\ \A j \in 1 .. Len(part(i)) : part(i)[j] = rows[(a + 1) + j - 1]
    BY <2>3, <2>4, <2>6, SubSeqFacts
  <2>8. \A j \in 1 .. Len(part(i)) : (a + 1) + j - 1 = a + j
    OBVIOUS
  <2> QED BY <2>1, <2>5, <2>7, <2>8
<1>5. \A i \in 1 .. c : Chunks(rows, limit)[i] = part(i)
  BY <1>3
<1>6. Chunks(rows, limit) \in Seq(Seq(T)) /\ Len(Chunks(rows, limit)) = c
  <2> HIDE DEF part
  <2>1. Chunks(rows, limit) \in [1 .. c -> Seq(T)]
    BY <1>3, <1>4
  <2> QED BY <1>2, <2>1
<1> QED BY <1>4, <1>5, <1>6 DEF c, InBatches

\* The batches of some rows are the first rows, and the batches of the others.
LEMMA ChunksFirst ==
  ASSUME NEW T, NEW rows \in Seq(T), NEW limit \in Nat \ {0}, rows # << >>,
         NEW m, m = SmallerOf(limit, Len(rows))
  PROVE  /\ m \in 1 .. Len(rows)
         /\ SubSeq(rows, 1, m) \in Seq(T)
         /\ SubSeq(rows, m + 1, Len(rows)) \in Seq(T)
         /\ Chunks(rows, limit)
              = << SubSeq(rows, 1, m) >> \o Chunks(SubSeq(rows, m + 1, Len(rows)), limit)
<1> DEFINE n == Len(rows)
           head == SubSeq(rows, 1, m)
           rest == SubSeq(rows, m + 1, n)
           c == Batches(n, limit)
           d == Batches(n - m, limit)
<1>1. n \in Nat \ {0}
  BY EmptySeq
<1>2. m \in 1 .. n /\ m \in Nat /\ n - m \in Nat
  BY <1>1 DEF SmallerOf
<1>3. head \in Seq(T)
  <2> HIDE DEF n
  <2>1. 1 \in Nat \ {0} /\ m \in Int /\ m <= Len(rows)
    BY <1>1, <1>2 DEF n
  <2> QED BY <2>1, SubSeqFacts
<1>4. rest \in Seq(T) /\ Len(rest) = n - m /\ \A i \in 1 .. n - m : rest[i] = rows[m + i]
  <2>1. m + 1 \in Nat \ {0} /\ n \in Int /\ n <= Len(rows)
    BY <1>1, <1>2
  <2>2. /\ rest \in Seq(T) /\ Len(rest) = IF m + 1 <= n THEN n - (m + 1) + 1 ELSE 0
        /\ \A i \in 1 .. Len(rest) : rest[i] = rows[(m + 1) + i - 1]
    <3> HIDE DEF n
    <3> QED BY <2>1, SubSeqFacts
  <2>3. Len(rest) = n - m
    BY <1>1, <1>2, <2>2
  <2>4. \A i \in 1 .. n - m : (m + 1) + i - 1 = m + i
    BY <1>1, <1>2
  <2> QED BY <2>2, <2>3, <2>4
<1>5. c \in Nat /\ n <= c * limit /\ (c # 0 => (c - 1) * limit < n) /\ c # 0
  BY <1>1, BatchesFacts
<1>6. d \in Nat /\ n - m <= d * limit /\ (d # 0 => (d - 1) * limit < n - m) /\ (d = 0 <=> n - m = 0)
  BY <1>2, BatchesFacts
<1> HIDE DEF n, head, rest, c, d
<1>7. n <= (d + 1) * limit /\ ((d + 1) - 1) * limit < n
  <2>1. (d + 1) * limit = d * limit + limit /\ d * limit \in Nat /\ (d + 1) - 1 = d
    BY <1>6
  <2>2. CASE n <= limit
    <3>1. m = n
      BY <1>1, <2>2 DEF SmallerOf, n
    <3>2. d = 0
      BY <1>1, <1>6, <3>1
    <3>3. d * limit = 0
      BY <3>2
    <3> QED BY <1>1, <2>1, <2>2, <3>3
  <2>3. CASE limit < n
    <3>1. m = limit
      BY <1>1, <2>3 DEF SmallerOf, n
    <3>2. d # 0
      BY <1>1, <1>6, <2>3, <3>1
    <3>3. (d - 1) * limit = d * limit - limit
      BY <1>6
    <3> QED BY <1>1, <1>6, <2>1, <3>1, <3>2, <3>3
  <2> QED BY <1>1, <2>2, <2>3
<1>8. c = d + 1
  <2>1. d + 1 \in Nat /\ d + 1 # 0 /\ n \in Nat
    BY <1>1, <1>6
  <2> QED BY <1>5, <1>7, <2>1, CountUnique
<1>9. /\ Chunks(rows, limit) \in Seq(Seq(T)) /\ Len(Chunks(rows, limit)) = c
      /\ \A i \in 1 .. c :
           /\ Chunks(rows, limit)[i] = SubSeq(rows, (i - 1) * limit + 1, SmallerOf(i * limit, n))
           /\ Len(Chunks(rows, limit)[i]) = SmallerOf(limit, n - (i - 1) * limit)
           /\ \A j \in 1 .. Len(Chunks(rows, limit)[i]) :
                Chunks(rows, limit)[i][j] = rows[(i - 1) * limit + j]
  <2>1. InBatches(T, rows, limit)
    BY ChunksFacts
  <2> QED BY <2>1 DEF n, c, InBatches
<1>10. /\ Chunks(rest, limit) \in Seq(Seq(T)) /\ Len(Chunks(rest, limit)) = d
       /\ \A i \in 1 .. d :
            /\ Len(Chunks(rest, limit)[i]) = SmallerOf(limit, (n - m) - (i - 1) * limit)
            /\ \A j \in 1 .. Len(Chunks(rest, limit)[i]) :
                 Chunks(rest, limit)[i][j] = rest[(i - 1) * limit + j]
  <2>1. InBatches(T, rest, limit)
    BY <1>4, ChunksFacts
  <2> QED BY <1>4, <2>1 DEF d, InBatches
<1> DEFINE both == << head >> \o Chunks(rest, limit)
<1>11. << head >> \in Seq(Seq(T)) /\ Len(<< head >>) = 1 /\ << head >>[1] = head
  BY <1>3
<1>12. /\ both \in Seq(Seq(T)) /\ Len(both) = 1 + d
       /\ \A i \in 1 .. 1 + d : both[i] = IF i <= 1 THEN << head >>[i] ELSE Chunks(rest, limit)[i - 1]
  <2> HIDE DEF Batches
  <2> QED BY <1>10, <1>11, ConcatProperties
<1>13. ASSUME NEW i \in 1 .. c PROVE Chunks(rows, limit)[i] = both[i]
  <2>1. CASE i = 1
    <3>1. (i - 1) * limit + 1 = 1 /\ i * limit = limit
      BY <2>1
    <3>2. Chunks(rows, limit)[i] = SubSeq(rows, 1, m)
      BY <1>9, <3>1 DEF n
    <3>3. both[i] = head
      BY <1>6, <1>11, <1>12, <2>1
    <3> QED BY <3>2, <3>3 DEF head
  <2>2. CASE i # 1
    <3>1. i - 1 \in 1 .. d /\ i \in 1 .. 1 + d /\ ~(i <= 1)
      BY <1>6, <1>8, <2>2
    <3>2. both[i] = Chunks(rest, limit)[i - 1]
      BY <1>12, <3>1
    <3>3. m = limit
      <4>1. d # 0
        BY <1>6, <3>1
      <4>2. n - m # 0
        BY <1>6, <4>1
      <4> QED BY <1>1, <1>2, <4>2 DEF SmallerOf, n
    <3>4. PICK b \in Nat : b = ((i - 1) - 1) * limit /\ (i - 1) * limit = b + limit
      <4>1. (i - 1) - 1 \in Nat
        BY <3>1
      <4>2. ((i - 1) - 1) * limit \in Nat /\ (i - 1) * limit = ((i - 1) - 1) * limit + limit
        BY <3>1, <4>1
      <4> QED BY <4>2
    <3>5. Len(Chunks(rows, limit)[i]) = SmallerOf(limit, n - (b + limit))
      BY <1>9, <3>4
    <3>6. Len(Chunks(rest, limit)[i - 1]) = SmallerOf(limit, (n - limit) - b)
      BY <1>10, <3>1, <3>3, <3>4
    <3>7. n - (b + limit) = (n - limit) - b
      BY <1>1
    <3>8. Len(Chunks(rows, limit)[i]) = Len(Chunks(rest, limit)[i - 1])
      BY <3>5, <3>6, <3>7
    <3>9. Chunks(rows, limit)[i] \in Seq(T) /\ Chunks(rest, limit)[i - 1] \in Seq(T)
      <4>1. i \in 1 .. Len(Chunks(rows, limit)) /\ i - 1 \in 1 .. Len(Chunks(rest, limit))
        BY <1>9, <1>10, <3>1
      <4> QED BY <1>9, <1>10, <4>1, ElementOfSeq
    <3>10. ASSUME NEW j \in 1 .. Len(Chunks(rows, limit)[i])
           PROVE  Chunks(rows, limit)[i][j] = Chunks(rest, limit)[i - 1][j]
      <4>1. Chunks(rows, limit)[i][j] = rows[(b + limit) + j]
        BY <1>9, <3>4
      <4>2. Chunks(rest, limit)[i - 1][j] = rest[b + j]
        BY <1>10, <3>1, <3>4, <3>8
      <4>3. j \in Nat \ {0} /\ j <= (n - limit) - b
        <5>1. SmallerOf(limit, (n - limit) - b) <= (n - limit) - b
          BY <1>1, Smaller
        <5>2. Len(Chunks(rows, limit)[i]) \in Nat
          BY <3>9, LenProperties
        <5>3. SmallerOf(limit, (n - limit) - b) \in Nat
          BY <3>5, <3>7, <5>2
        <5> QED BY <1>1, <3>5, <3>7, <5>1, <5>3
      <4>4. b + j \in 1 .. n - m /\ m + (b + j) = (b + limit) + j
        BY <1>1, <3>3, <4>3
      <4>5. rest[b + j] = rows[m + (b + j)]
        BY <1>4, <4>4
      <4> QED BY <4>1, <4>2, <4>4, <4>5
    <3>11. Chunks(rows, limit)[i] = Chunks(rest, limit)[i - 1]
      BY <3>8, <3>9, <3>10, SeqEqual
    <3> QED BY <3>2, <3>11
  <2> QED BY <2>1, <2>2
<1>14. Chunks(rows, limit) = both
  <2>1. Len(Chunks(rows, limit)) = Len(both)
    BY <1>6, <1>8, <1>9, <1>12
  <2> HIDE DEF both
  <2> QED BY <1>9, <1>12, <1>13, <2>1, SeqEqual
<1> QED BY <1>2, <1>3, <1>4, <1>14 DEF n, head, rest

-----------------------------------------------------------------------------
(* The loop of readKeysetPagination. *)

\* The rows that a keyset read has yet to send when it has reached the key last.
KeysAfter(table, filtered, last, maxPK) ==
  {k \in IF filtered THEN table.changed ELSE table.keys :
     last < k /\ (maxPK # NoKey => k <= maxPK.val)}

\* A round of the loop; next[k] is what the rounds after it send.
KeysetRound(table, filtered, maxPK, limit, last, next) ==
  LET batch == First(limit, KeysAfter(table, filtered, last, maxPK))
  IN IF batch = << >> THEN << >>
     ELSE << batch >> \o (IF \/ maxPK # NoKey /\ CompareKeys(LastKey(table, batch), maxPK) >= 0
                             \/ Len(batch) < limit
                          THEN << >> ELSE next[batch[Len(batch)]])

\* A table of integer keys and a bound that the driver can compare with them.
Readable(table, maxPK) ==
  /\ table.keys \in SUBSET Int /\ IsFiniteSet(table.keys) /\ table.changed \subseteq table.keys
  /\ \/ maxPK = NoKey
     \/ maxPK # NoKey /\ maxPK.val \in Int /\ maxPK.kind = table.kind /\ table.kind \in Comparable

LEMMA KeysAfterFacts ==
  ASSUME NEW table, NEW maxPK, Readable(table, maxPK), NEW filtered \in BOOLEAN, NEW last \in Int
  PROVE  /\ KeysAfter(table, filtered, last, maxPK) \in SUBSET table.keys
         /\ KeysAfter(table, filtered, last, maxPK) \in SUBSET Int
         /\ IsFiniteSet(KeysAfter(table, filtered, last, maxPK))
         /\ Cardinality(KeysAfter(table, filtered, last, maxPK)) \in Nat
<1>1. KeysAfter(table, filtered, last, maxPK) \in SUBSET table.keys
  BY DEF KeysAfter, Readable
<1>2. IsFiniteSet(KeysAfter(table, filtered, last, maxPK))
  BY <1>1, FS_Subset DEF Readable
<1> QED BY <1>1, <1>2, FS_CardinalityType DEF Readable

LEMMA FirstIs ==
  ASSUME NEW S \in SUBSET Int, IsFiniteSet(S), NEW limit \in Nat \ {0}
  PROVE  First(limit, S) = SubSeq(Sorted(S), 1, SmallerOf(limit, Len(Sorted(S))))
<1>1. Sorted(S) \in Seq(S) /\ Len(Sorted(S)) = Cardinality(S) /\ Cardinality(S) \in Nat
  BY SortedFacts, RankFacts
<1>2. CASE Cardinality(S) <= limit
  <2>1. SmallerOf(limit, Len(Sorted(S))) = Len(Sorted(S))
    BY <1>1, <1>2 DEF SmallerOf
  <2>2. SubSeq(Sorted(S), 1, Len(Sorted(S))) = Sorted(S)
    BY <1>1, SubSeqFull
  <2> QED BY <1>2, <2>1, <2>2 DEF First
<1>3. CASE ~(Cardinality(S) <= limit)
  <2>1. SmallerOf(limit, Len(Sorted(S))) = limit
    BY <1>1, <1>3 DEF SmallerOf
  <2> QED BY <1>3, <2>1 DEF First
<1> QED BY <1>2, <1>3

\* If the rounds after it send the rows after its last key in batches of at most limit,
\* a round and those after it do so with the rows after the key it starts from.
LEMMA KeysetRoundDoes ==
  ASSUME NEW table, NEW maxPK, Readable(table, maxPK), NEW filtered \in BOOLEAN,
         NEW limit \in Nat \ {0}, NEW last \in Int, NEW next,
         \A b \in table.keys :
           Cardinality(KeysAfter(table, filtered, b, maxPK))
               < Cardinality(KeysAfter(table, filtered, last, maxPK))
             => next[b] = Chunks(Sorted(KeysAfter(table, filtered, b, maxPK)), limit)
  PROVE  KeysetRound(table, filtered, maxPK, limit, last, next)
           = Chunks(Sorted(KeysAfter(table, filtered, last, maxPK)), limit)
<1> DEFINE S == KeysAfter(table, filtered, last, maxPK)
           rows == Sorted(S)
           n == Cardinality(S)
           m == SmallerOf(limit, n)
           batch == First(limit, S)
           done == \/ maxPK # NoKey /\ CompareKeys(LastKey(table, batch), maxPK) >= 0
                   \/ Len(batch) < limit
<1>1. S \in SUBSET table.keys /\ S \in SUBSET Int /\ IsFiniteSet(S) /\ n \in Nat
  BY KeysAfterFacts
<1>2. \A k \in S : maxPK # NoKey => k <= maxPK.val
  BY DEF KeysAfter
<1>3. KeysetRound(table, filtered, maxPK, limit, last, next)
        = IF batch = << >> THEN << >>
          ELSE << batch >> \o (IF done THEN << >> ELSE next[batch[Len(batch)]])
  BY DEF KeysetRound
<1>4. \A b \in table.keys : Cardinality(KeysAfter(table, filtered, b, maxPK)) < n
        => next[b] = Chunks(Sorted(KeysAfter(table, filtered, b, maxPK)), limit)
  OBVIOUS
<1>5. \A b \in S : KeysAfter(table, filtered, b, maxPK) = {k \in S : b < k}
  <2> SUFFICES ASSUME NEW b \in S
               PROVE  KeysAfter(table, filtered, b, maxPK) = {k \in S : b < k}
    OBVIOUS
  <2>1. b \in Int /\ last < b /\ table.keys \subseteq Int /\ table.changed \subseteq Int
    BY <1>1 DEF KeysAfter, Readable
  <2>2. \A k \in Int : b < k => last < k
    BY <2>1
  <2>3. \A k \in IF filtered THEN table.changed ELSE table.keys : k \in Int
    BY <2>1
  <2> QED BY <2>2, <2>3 DEF KeysAfter
<1> HIDE DEF S
<1>6. /\ rows \in Seq(S) /\ rows \in Seq(Int) /\ Len(rows) = n
      /\ \A i \in 1 .. n : rows[i] \in S /\ Rank(S, rows[i]) = i
      /\ \A i, j \in 1 .. n : i < j => rows[i] < rows[j]
  <2>1. /\ rows \in Seq(S) /\ Len(rows) = n
        /\ \A i \in 1 .. n : rows[i] \in S /\ Rank(S, rows[i]) = i
        /\ \A i, j \in 1 .. n : i < j => rows[i] < rows[j]
    BY <1>1, SortedFacts
  <2>2. S \subseteq Int
    BY <1>1
  <2>3. rows \in Seq(Int)
    <3> HIDE DEF rows
    <3> QED BY <2>1, <2>2, SeqMonotonic
  <2> QED BY <2>1, <2>3
<1>7. batch = SubSeq(rows, 1, m)
  <2>1. batch = SubSeq(rows, 1, SmallerOf(limit, Len(rows)))
    BY <1>1, FirstIs
  <2> QED BY <1>6, <2>1
<1>8. CASE n = 0
  <2>1. rows = << >>
    BY <1>6, <1>8, EmptySeq
  <2>2. batch = << >>
    <3>1. m = 0
      BY <1>8 DEF SmallerOf
    <3> QED BY <1>7, <3>1, SubSeqEmpty
  <2>3. Chunks(rows, limit) = << >>
    <3>1. InBatches(Int, rows, limit)
      BY <1>6, ChunksFacts
    <3>2. Chunks(rows, limit) \in Seq(Seq(Int)) /\ Len(Chunks(rows, limit)) = Batches(n, limit)
      BY <1>6, <3>1 DEF InBatches
    <3>3. Batches(n, limit) = 0
      BY <1>1, <1>8, BatchesFacts
    <3> QED BY <3>2, <3>3, EmptySeq
  <2> QED BY <1>3, <2>2, <2>3 DEF S
<1>9. CASE n # 0
  <2> DEFINE rest == SubSeq(rows, m + 1, n)
             b == rows[m]
  <2> HIDE DEF batch, rows, n
  <2>1. m = SmallerOf(limit, Len(rows)) /\ rows # << >> /\ n = Len(rows)
    BY <1>6, <1>9, EmptySeq
  <2>2. /\ m \in 1 .. n /\ batch \in Seq(Int) /\ rest \in Seq(Int)
        /\ Chunks(rows, limit) = << batch >> \o Chunks(rest, limit)
    <3> HIDE DEF m
    <3>1. /\ m \in 1 .. Len(rows)
          /\ SubSeq(rows, 1, m) \in Seq(Int)
          /\ SubSeq(rows, m + 1, Len(rows)) \in Seq(Int)
          /\ Chunks(rows, limit)
               = << SubSeq(rows, 1, m) >> \o Chunks(SubSeq(rows, m + 1, Len(rows)), limit)
      <4>1. /\ rows \in Seq(Int) /\ rows # << >> /\ m = SmallerOf(limit, Len(rows))
            /\ limit \in Nat \ {0}
        BY <1>6, <2>1
      <4> HIDE DEF done, S, rest, b
      <4> QED BY ONLY <4>1, ChunksFirst, SMTT(60)
    <3> QED BY <1>7, <2>1, <3>1
  <2>3. m \in Nat \ {0} /\ m <= limit /\ m <= n /\ m \in {limit, n}
    <3>1. m \in {limit, n} /\ m <= limit /\ m <= n
      BY <1>1, Smaller DEF n
    <3> QED BY <1>1, <2>2, <3>1 DEF n
  <2> HIDE DEF m, rest
  <2>4. Len(batch) = m /\ batch[m] = b
    <3>1. m \in Int /\ m <= Len(rows) /\ 1 \in Nat \ {0} /\ 1 <= m
      BY <2>1, <2>3
    <3>2. /\ Len(batch) = IF 1 <= m THEN m - 1 + 1 ELSE 0
          /\ \A i \in 1 .. Len(batch) : batch[i] = rows[1 + i - 1]
      BY <1>6, <1>7, <3>1, SubSeqFacts
    <3>3. Len(batch) = m /\ m \in 1 .. m /\ 1 + m - 1 = m
      BY <2>3, <3>1, <3>2
    <3> QED BY <3>2, <3>3
  <2>5. batch # << >>
    BY <2>2, <2>3, <2>4, EmptySeq
  <2>6. b \in S /\ Rank(S, b) = m /\ b \in Int /\ b \in table.keys
    BY <1>1, <1>6, <2>2 DEF n
  <2>7. CASE done
    <3>1. m = n
      <4>1. CASE Len(batch) < limit
        BY <2>3, <2>4, <4>1
      <4>2. CASE maxPK # NoKey /\ CompareKeys(LastKey(table, batch), maxPK) >= 0
        <5>1. maxPK.val \in Int /\ maxPK.kind = table.kind /\ table.kind \in Comparable
          BY <4>2 DEF Readable
        <5>2. LastKey(table, batch) = [kind |-> table.kind, val |-> b]
          BY <2>4 DEF LastKey
        <5>3. b >= maxPK.val
          <6>1. ~(b < maxPK.val)
            <7> SUFFICES ASSUME b < maxPK.val PROVE FALSE
              OBVIOUS
            <7>1. CompareKeys(LastKey(table, batch), maxPK) = -1
              <8>1. b # maxPK.val
                BY <2>6, <5>1
              <8> QED BY <5>1, <5>2, <8>1 DEF CompareKeys
            <7> QED BY <4>2, <7>1
          <6> QED BY <2>6, <5>1, <6>1
        <5>4. n \in 1 .. n /\ m \in 1 .. n
          BY <1>1, <2>2, <2>3 DEF n
        <5>5. rows[n] <= maxPK.val /\ rows[n] \in Int
          BY <1>1, <1>2, <1>6, <4>2, <5>4 DEF n
        <5>6. ~(rows[m] < rows[n])
          BY <2>6, <5>1, <5>3, <5>5
        <5> QED BY <1>6, <2>3, <5>4, <5>6 DEF n
      <4> QED BY <2>7, <4>1, <4>2 DEF done
    <3>2. rest = << >>
      BY <2>3, <3>1, SubSeqEmpty DEF rest
    <3>3. Chunks(rest, limit) = << >>
      <4>1. InBatches(Int, rest, limit)
        BY <2>2, ChunksFacts
      <4>2. Len(rest) = 0
        BY <3>2
      <4>3. Chunks(rest, limit) \in Seq(Seq(Int)) /\ Len(Chunks(rest, limit)) = Batches(0, limit)
        BY <4>1, <4>2 DEF InBatches
      <4>4. Batches(0, limit) = 0
        BY BatchesFacts
      <4> QED BY <4>3, <4>4, EmptySeq
    <3> QED BY <1>3, <2>2, <2>5, <2>7, <3>3 DEF S, rows
  <2>8. CASE ~done
    <3> DEFINE S2 == KeysAfter(table, filtered, b, maxPK)
    <3>1. S2 = {k \in S : b < k}
      BY <1>5, <2>6
    <3>2. S2 = Numbered(S, m, n)
      <4>1. \A k \in S : k \in Int /\ Rank(S, k) \in 1 .. n /\ n \in Nat
        BY <1>1, RankFacts DEF n
      <4>2. ASSUME NEW k \in S PROVE b < k <=> (m < Rank(S, k) /\ Rank(S, k) <= n)
        <5>1. b < k => Rank(S, b) < Rank(S, k)
          BY <1>1, <2>6, RankFacts
        <5>2. k <= b => Rank(S, k) <= Rank(S, b)
          BY <1>1, <2>6, <4>1, RankFacts
        <5> QED BY <2>3, <2>6, <4>1, <5>1, <5>2
      <4> QED BY <3>1, <4>2 DEF Numbered, Rank
    <3>3. Sorted(S2) = rest
      <4>1. n \in Nat /\ m \in Nat
        BY <1>1, <2>3 DEF n
      <4>2. Sorted(Numbered(S, m, n)) = SubSeq(Sorted(S), m + 1, SmallerOf(n, Cardinality(S)))
        BY <1>1, <4>1, SortedNumbered
      <4>3. SmallerOf(n, Cardinality(S)) = n
        BY <4>1 DEF SmallerOf, n
      <4> QED BY <3>2, <4>2, <4>3 DEF rest, rows
    <3>4. Cardinality(S2) < n
      <4>1. S2 \in SUBSET S /\ b \notin S2
        BY <2>6, <3>1
      <4>2. Cardinality(S2) <= n /\ Cardinality(S2) # n
        <5> HIDE DEF S2
        <5> QED BY <1>1, <2>6, <4>1, FS_Subset DEF n
      <4>3. Cardinality(S2) \in Nat
        BY <2>6, KeysAfterFacts
      <4> QED BY <1>1, <4>2, <4>3 DEF n
    <3>5. next[b] = Chunks(rest, limit)
      BY <1>4, <2>6, <3>3, <3>4 DEF n, S
    <3> QED BY <1>3, <2>2, <2>4, <2>5, <2>8, <3>5 DEF S, rows
  <2> QED BY <2>7, <2>8
<1> QED BY <1>8, <1>9

\* Whatever the sizes of the gaps and the date filter, the loop sends the rows after its
\* first key, in order and in batches of limit: it is the only function of the key
\* reached that satisfies its equation.
KeysetSends(table, filtered, maxPK, limit, start) ==
  (CHOOSE g : g = [last \in {start} \cup table.keys |->
                     KeysetRound(table, filtered, maxPK, limit, last, g)])[start]

LEMMA KeysetLoop ==
  ASSUME NEW table, NEW maxPK, Readable(table, maxPK), NEW filtered \in BOOLEAN,
         NEW limit \in Nat \ {0}, NEW start \in Int
  PROVE  KeysetSends(table, filtered, maxPK, limit, start)
           = Chunks(Sorted(KeysAfter(table, filtered, start, maxPK)), limit)
<1>0. PICK from : from = CHOOSE g : g = [last \in {start} \cup table.keys |->
                                           KeysetRound(table, filtered, maxPK, limit, last, g)]
  OBVIOUS
<1> DEFINE D == {start} \cup table.keys
           after(last) == KeysAfter(table, filtered, last, maxPK)
           sent(last) == Chunks(Sorted(after(last)), limit)
           round(last, g) == KeysetRound(table, filtered, maxPK, limit, last, g)
           all == [last \in D |-> sent(last)]
<1>1. D \in SUBSET Int /\ table.keys \subseteq D
  BY DEF Readable
<1>2. \A last \in D : Cardinality(after(last)) \in Nat
  BY <1>1, KeysAfterFacts
<1>3. ASSUME NEW last \in D, NEW g,
             \A b \in table.keys : Cardinality(after(b)) < Cardinality(after(last)) => g[b] = sent(b)
      PROVE  round(last, g) = sent(last)
  <2>1. last \in Int
    BY <1>1
  <2> QED BY <1>3, <2>1, KeysetRoundDoes
<1> HIDE DEF D, after, round, sent
<1>4. all = [last \in D |-> round(last, all)]
  <2>1. ASSUME NEW last \in D PROVE round(last, all) = sent(last)
    <3>1. \A b \in table.keys : all[b] = sent(b)
      BY <1>1
    <3> HIDE DEF all
    <3> QED BY <1>3, <3>1
  <2> QED BY <2>1
<1>5. from = [last \in D |-> round(last, from)]
  <2> HIDE DEF all
  <2>1. from = CHOOSE g : g = [last \in D |-> round(last, g)]
    BY <1>0 DEF D, round
  <2> QED BY <1>4, <2>1
<1> DEFINE T == {Cardinality(after(last)) : last \in {k \in D : from[k] # sent(k)}}
<1>6. T = {}
  <2> SUFFICES ASSUME T # {} PROVE FALSE
    OBVIOUS
  <2>1. T \subseteq Nat
    BY <1>2
  <2>2. PICK m \in T : \A k \in T : m <= k
    <3> HIDE DEF T
    <3> QED BY <2>1, LeastNat
  <2>3. PICK last \in D : from[last] # sent(last) /\ m = Cardinality(after(last))
    OBVIOUS
  <2>4. ASSUME NEW b \in table.keys, Cardinality(after(b)) < Cardinality(after(last))
        PROVE  from[b] = sent(b)
    <3>1. b \in D /\ Cardinality(after(b)) \in Nat /\ m \in Nat /\ Cardinality(after(b)) < m
      BY <1>1, <1>2, <2>1, <2>3, <2>4
    <3>2. Cardinality(after(b)) \notin T
      <4> SUFFICES ASSUME Cardinality(after(b)) \in T PROVE FALSE
        OBVIOUS
      <4>1. m <= Cardinality(after(b))
        <5> HIDE DEF T
        <5> QED BY <2>2
      <4> HIDE DEF T
      <4> QED BY <3>1, <4>1
    <3> QED BY <3>1, <3>2
  <2>5. round(last, from) = sent(last)
    BY <1>3, <2>4
  <2>6. from[last] = round(last, from)
    BY <1>5
  <2> QED BY <2>3, <2>5, <2>6
<1>7. start \in D
  BY DEF D
<1>8. from[start] = sent(start)
  BY <1>6, <1>7
<1> QED BY <1>0, <1>8 DEF sent, after, KeysetSends

-----------------------------------------------------------------------------
(* What has arrived of some batches. *)

\* RowsOf: its recursion has one solution.
Joins(F, bs, n) ==
  /\ n \in Nat /\ Len(bs) = n /\ F[0] = << >>
  /\ \A i \in 1 .. n : F[i] = F[i - 1] \o bs[i]

LEMMA RowsOfIs ==
  ASSUME NEW bs, NEW n, NEW F, Joins(F, bs, n)
  PROVE  RowsOf(bs) = F[n]
<1>0. /\ n \in Nat /\ Len(bs) = n /\ F[0] = << >>
      /\ \A i \in 1 .. n : F[i] = F[i - 1] \o bs[i]
  BY DEF Joins
<1> DEFINE eq(g) == [i \in 0 .. n |-> IF i = 0 THEN << >> ELSE g[i - 1] \o bs[i]]
           G == [i \in 0 .. n |-> F[i]]
           rows == CHOOSE g : g = eq(g)
<1>1. RowsOf(bs) = rows[n]
  BY <1>0 DEF RowsOf
<1>2. G = eq(G)
  <2>1. ASSUME NEW i \in 0 .. n
        PROVE  F[i] = IF i = 0 THEN << >> ELSE G[i - 1] \o bs[i]
    <3>1. CASE i = 0
      BY <1>0, <3>1
    <3>2. CASE i # 0
      <4>1. i \in 1 .. n /\ i - 1 \in 0 .. n
        BY <1>0, <3>2
      <4>2. G[i - 1] = F[i - 1]
        BY <4>1
      <4> HIDE DEF G
      <4> QED BY <1>0, <3>2, <4>1, <4>2
    <3> QED BY <3>1, <3>2
  <2> QED BY <2>1
<1>3. rows = eq(rows)
  <2> HIDE DEF G, eq
  <2> QED BY <1>2
<1> HIDE DEF rows
<1> DEFINE T == {i \in 0 .. n : rows[i] # F[i]}
<1>4. T = {}
  <2> SUFFICES ASSUME T # {} PROVE FALSE
    OBVIOUS
  <2>1. T \subseteq Nat
    BY <1>0
  <2>2. PICK m \in T : \A k \in T : m <= k
    <3> HIDE DEF T
    <3> QED BY <2>1, LeastNat
  <2>3. m \in 0 .. n /\ rows[m] # F[m]
    OBVIOUS
  <2>4. rows[m] = IF m = 0 THEN << >> ELSE rows[m - 1] \o bs[m]
    BY <1>3, <2>3
  <2>5. m # 0
    BY <1>0, <2>3, <2>4
  <2>6. m \in 1 .. n /\ m - 1 \in 0 .. n
    BY <1>0, <2>3, <2>5
  <2>7. m - 1 \notin T
    <3> SUFFICES ASSUME m - 1 \in T PROVE FALSE
      OBVIOUS
    <3>1. m <= m - 1
      <4> HIDE DEF T
      <4> QED BY <2>2
    <3> QED BY <2>6, <3>1
  <2>8. rows[m - 1] = F[m - 1]
    BY <2>6, <2>7
  <2> HIDE DEF T
  <2>9. F[m] = F[m - 1] \o bs[m]
    BY <1>0, <2>6
  <2> QED BY <2>3, <2>4, <2>5, <2>8, <2>9
<1>5. n \in 0 .. n
  BY <1>0
<1> QED BY <1>1, <1>4, <1>5

\* The rows of the first batches are the first rows.
LEMMA ChunksRows ==
  ASSUME NEW T, NEW rows \in Seq(T), NEW limit \in Nat \ {0},
         NEW i \in 0 .. Batches(Len(rows), limit)
  PROVE  /\ i * limit \in Nat
         /\ SmallerOf(i * limit, Len(rows)) \in 0 .. Len(rows)
         /\ RowsOf(SubSeq(Chunks(rows, limit), 1, i))
              = SubSeq(rows, 1, SmallerOf(i * limit, Len(rows)))
<1> DEFINE n == Len(rows)
           c == Batches(n, limit)
           bs == Chunks(rows, limit)
           h(j) == SmallerOf(j * limit, n)
<1>1. n \in Nat
  BY LenProperties
<1>2. /\ c \in Nat
      /\ \A j \in 1 .. c : /\ (j - 1) * limit \in Nat /\ j * limit = (j - 1) * limit + limit
                           /\ (j - 1) * limit < n
  BY <1>1, BatchesFacts
<1>3. /\ bs \in Seq(Seq(T)) /\ Len(bs) = c
      /\ \A j \in 1 .. c : bs[j] = SubSeq(rows, (j - 1) * limit + 1, h(j))
  <2>1. InBatches(T, rows, limit)
    BY ChunksFacts
  <2> QED BY <2>1 DEF InBatches
<1>4. i \in Nat /\ i <= c
  BY <1>2
<1>5. i * limit \in Nat
  BY <1>4
<1>6. h(i) \in 0 .. n
  BY <1>1, <1>5 DEF SmallerOf
<1> HIDE DEF bs, n, c
<1>7. /\ SubSeq(bs, 1, i) \in Seq(Seq(T)) /\ Len(SubSeq(bs, 1, i)) = i
      /\ \A j \in 1 .. i : SubSeq(bs, 1, i)[j] = bs[j]
  <2>1. 1 \in Nat \ {0} /\ i \in Int /\ i <= Len(bs)
    BY <1>3, <1>4
  <2>2. /\ SubSeq(bs, 1, i) \in Seq(Seq(T))
        /\ Len(SubSeq(bs, 1, i)) = IF 1 <= i THEN i - 1 + 1 ELSE 0
        /\ \A j \in 1 .. Len(SubSeq(bs, 1, i)) : SubSeq(bs, 1, i)[j] = bs[1 + j - 1]
    BY <1>3, <2>1, SubSeqFacts
  <2>3. Len(SubSeq(bs, 1, i)) = i
    BY <1>4, <2>2
  <2>4. \A j \in 1 .. i : 1 + j - 1 = j
    OBVIOUS
  <2> QED BY <2>2, <2>3, <2>4
<1> DEFINE F == [j \in 0 .. i |-> SubSeq(rows, 1, h(j))]
           part == SubSeq(bs, 1, i)
<1>8. i \in Nat /\ Len(part) = i /\ 0 \in 0 .. i /\ i \in 0 .. i
  BY <1>4, <1>7
<1>9. F[0] = << >>
  <2>1. h(0) = 0
    BY <1>1 DEF SmallerOf
  <2>2. SubSeq(rows, 1, 0) = << >>
    BY SubSeqEmpty
  <2> QED BY <1>8, <2>1, <2>2
<1>10. ASSUME NEW j \in 1 .. i PROVE F[j] = F[j - 1] \o part[j]
  <2>1. j \in 0 .. i /\ j \in 1 .. c /\ j - 1 \in 0 .. i
    BY <1>4, <1>2
  <2>2. PICK a \in Nat : a = (j - 1) * limit /\ j * limit = a + limit /\ a < n
    BY <1>2, <2>1
  <2>3. PICK b : b = h(j)
    OBVIOUS
  <2>4. b \in Nat /\ a <= b /\ b <= n
    BY <1>1, <2>2, <2>3 DEF SmallerOf
  <2>5. h(j - 1) = a
    BY <1>1, <2>2 DEF SmallerOf
  <2>6. part[j] = SubSeq(rows, a + 1, b)
    BY <1>3, <1>7, <2>1, <2>2, <2>3
  <2>7. SubSeq(rows, 1, a) \o SubSeq(rows, a + 1, b) = SubSeq(rows, 1, b)
    <3>1. 1 \in 1 .. Len(rows) + 1 /\ a \in 1 - 1 .. Len(rows) /\ b \in a .. Len(rows)
      BY <1>1, <2>2, <2>4 DEF n
    <3> QED BY <3>1, ConcatAdjacentSubSeq
  <2> HIDE DEF part, h
  <2> QED BY <2>1, <2>3, <2>5, <2>6, <2>7
<1>11. RowsOf(part) = F[i]
  <2>1. \A j \in 1 .. i : F[j] = F[j - 1] \o part[j]
    BY <1>10
  <2>2. PICK parts : parts = part
    OBVIOUS
  <2>3. PICK G : G = F
    OBVIOUS
  <2>4. Joins(G, parts, i)
    <3> HIDE DEF part, F
    <3> QED BY <1>8, <1>9, <2>1, <2>2, <2>3 DEF Joins
  <2>5. RowsOf(parts) = G[i]
    BY <2>4, RowsOfIs
  <2> QED BY <2>2, <2>3, <2>5
<1>12. F[i] = SubSeq(rows, 1, h(i))
  BY <1>8
<1> QED BY <1>5, <1>6, <1>11, <1>12 DEF bs, n

\* What has been delivered of rows sent in batches of limit, when good of them arrive.
Delivers(d, rows, limit, good) ==
  /\ IsPrefixOf(RowsOf(d.batches), rows)
  /\ d.error \/ RowsOf(d.batches) = rows
  /\ \A i \in DOMAIN d.batches : Len(d.batches[i]) \in 1 .. limit
  /\ good >= Len(rows) => RowsOf(d.batches) = rows /\ d.batches = Chunks(rows, limit)

LEMMA DeliveredFacts ==
  ASSUME NEW T, NEW rows \in Seq(T), NEW limit \in Nat \ {0}, NEW good \in Nat
  PROVE  Delivers(Delivered(Chunks(rows, limit), good), rows, limit, good)
<1> DEFINE n == Len(rows)
           c == Batches(n, limit)
           bs == Chunks(rows, limit)
           h(i) == SmallerOf(i * limit, n)
           complete == {i \in 0 .. Len(bs) : Len(RowsOf(SubSeq(bs, 1, i))) <= good}
           last == HighestOf(complete)
           d == Delivered(bs, good)
<1>1. n \in Nat
  BY LenProperties
<1>2. c \in Nat /\ n <= c * limit
  BY <1>1, BatchesFacts
<1>3. /\ bs \in Seq(Seq(T)) /\ Len(bs) = c
      /\ \A i \in 1 .. c : Len(bs[i]) \in 1 .. limit
  <2>1. InBatches(T, rows, limit)
    BY ChunksFacts
  <2> QED BY <2>1 DEF InBatches
<1>4. d.batches = SubSeq(bs, 1, last) /\ d.error = (last < Len(bs))
  BY DEF Delivered
<1> HIDE DEF d
<1>5. ASSUME NEW i \in 0 .. c
      PROVE  /\ i * limit \in Nat /\ h(i) \in 0 .. n
             /\ RowsOf(SubSeq(bs, 1, i)) = SubSeq(rows, 1, h(i))
             /\ RowsOf(SubSeq(bs, 1, i)) \in Seq(T)
             /\ Len(RowsOf(SubSeq(bs, 1, i))) = h(i)
  <2>1. /\ i * limit \in Nat /\ h(i) \in 0 .. n
        /\ RowsOf(SubSeq(bs, 1, i)) = SubSeq(rows, 1, h(i))
    BY ChunksRows
  <2>2. PICK b : b = h(i)
    OBVIOUS
  <2> HIDE DEF h
  <2>3. 1 \in Nat \ {0} /\ b \in Int /\ b <= Len(rows)
    BY <1>1, <2>1, <2>2
  <2>4. /\ SubSeq(rows, 1, b) \in Seq(T)
        /\ Len(SubSeq(rows, 1, b)) = IF 1 <= b THEN b - 1 + 1 ELSE 0
    BY <2>3, SubSeqFacts
  <2>5. Len(SubSeq(rows, 1, b)) = b
    BY <2>1, <2>2, <2>4
  <2> QED BY <2>1, <2>2, <2>4, <2>5
<1>6. h(c) = n
  BY <1>1, <1>2 DEF SmallerOf
<1> HIDE DEF bs, c, n, h
<1>7. 0 \in complete
  <2>1. 0 \in 0 .. c /\ h(0) = 0
    BY <1>1, <1>2 DEF SmallerOf, h
  <2>2. Len(RowsOf(SubSeq(bs, 1, 0))) <= good
    BY <1>5, <2>1
  <2> QED BY <1>3, <2>1, <2>2
<1>8. complete \subseteq 0 .. c
  BY <1>3
<1>9. last \in complete /\ \A i \in complete : i <= last
  <2> HIDE DEF complete
  <2> DEFINE above == {c - i : i \in complete}
  <2>1. above \subseteq Nat /\ above # {}
    BY <1>2, <1>7, <1>8
  <2>2. PICK m \in above : \A k \in above : m <= k
    <3> HIDE DEF above
    <3> QED BY <2>1, LeastNat
  <2>3. PICK i \in complete : m = c - i
    OBVIOUS
  <2>4. \A k \in complete : k <= i
    <3> SUFFICES ASSUME NEW k \in complete PROVE k <= i
      OBVIOUS
    <3>1. c - k \in above
      OBVIOUS
    <3>2. c - i <= c - k
      <4> HIDE DEF above
      <4> QED BY <2>2, <2>3, <3>1
    <3> QED BY <1>2, <1>8, <3>2
  <2>5. last \in complete /\ \A k \in complete : k <= last
    BY <2>4 DEF HighestOf
  <2> QED BY <1>2, <1>8, <2>5
<1> HIDE DEF last
<1>10. last \in 0 .. c
  BY <1>8, <1>9
<1>11. /\ RowsOf(d.batches) = SubSeq(rows, 1, h(last)) /\ h(last) \in 0 .. n
       /\ Len(RowsOf(d.batches)) = h(last)
  BY <1>4, <1>5, <1>10
<1>12. last = c => RowsOf(d.batches) = rows
  <2>1. SubSeq(rows, 1, n) = rows
    BY SubSeqFull DEF n
  <2> QED BY <1>6, <1>11, <2>1
<1>13. IsPrefixOf(RowsOf(d.batches), rows)
  BY <1>1, <1>11 DEF IsPrefixOf, n
<1>14. d.error \/ last = c
  <2> SUFFICES ASSUME last # c PROVE d.error
    OBVIOUS
  <2>1. last < Len(bs)
    BY <1>2, <1>3, <1>10
  <2> QED BY <1>4, <2>1, Zenon
<1>15. good >= n => last = c
  <2> SUFFICES ASSUME good >= n PROVE last = c
    OBVIOUS
  <2>1. c \in 0 .. c /\ h(c) <= good
    BY <1>1, <1>2, <1>6
  <2>2. c \in complete
    BY <1>3, <1>5, <2>1
  <2> HIDE DEF complete
  <2> QED BY <1>2, <1>9, <1>10, <2>2
<1>16. \A i \in DOMAIN d.batches : Len(d.batches[i]) \in 1 .. limit
  <2>1. 1 \in Nat \ {0} /\ last \in Int /\ last <= Len(bs)
    BY <1>2, <1>3, <1>10
  <2>2. /\ SubSeq(bs, 1, last) \in Seq(Seq(T))
        /\ Len(SubSeq(bs, 1, last)) = IF 1 <= last THEN last - 1 + 1 ELSE 0
        /\ \A i \in 1 .. Len(SubSeq(bs, 1, last)) : SubSeq(bs, 1, last)[i] = bs[1 + i - 1]
    BY <1>3, <2>1, SubSeqFacts
  <2>3. DOMAIN SubSeq(bs, 1, last) = 1 .. Len(SubSeq(bs, 1, last))
    <3> HIDE DEF complete
    <3> QED BY <2>2, LenProperties
  <2>4. Len(SubSeq(bs, 1, last)) = last
    BY <1>2, <1>10, <2>2
  <2> SUFFICES ASSUME NEW i \in 1 .. last PROVE Len(bs[i]) \in 1 .. limit
    <3>1. \A i \in 1 .. last : 1 + i - 1 = i
      BY <1>10
    <3> QED BY <1>4, <2>2, <2>3, <2>4, <3>1
  <2>5. i \in 1 .. c
    BY <1>2, <1>10
  <2> QED BY <1>3, <2>5
<1>17. last = c => d.batches = bs
  BY <1>3, <1>4, SubSeqFull
<1>18. Delivers(d, rows, limit, good)
  BY <1>12, <1>13, <1>14, <1>15, <1>16, <1>17 DEF Delivers, n, bs
<1> QED BY <1>18 DEF d, bs

-----------------------------------------------------------------------------
(* The readers of the four databases: the operators they have in common mean the same in
   each of them, and their keyset loops do the same. *)

LEMMA PGOperators ==
  /\ \A S : PG!Cardinality(S) = Cardinality(S)
  /\ \A S : PG!Sorted(S) = Sorted(S)
  /\ \A n, S : PG!First(n, S) = First(n, S)
  /\ \A S, m, n : PG!Numbered(S, m, n) = Numbered(S, m, n)
  /\ PG!NoKey = NoKey
  /\ \A a, b : PG!CompareKeys(a, b) = CompareKeys(a, b)
  /\ \A table, batch : PG!LastKey(table, batch) = LastKey(table, batch)
  /\ \A batches, good : PG!Delivered(batches, good) = Delivered(batches, good)
<1>1. \A S : PG!Cardinality(S) = Cardinality(S)
  BY DEF PG!Cardinality, Cardinality
<1>2. \A S : PG!Sorted(S) = Sorted(S)
  BY DEF PG!Sorted, Sorted, PG!Cardinality, Cardinality
<1>3. \A n, S : PG!First(n, S) = First(n, S)
  BY <1>1, <1>2 DEF PG!First, First
<1>4. \A S, m, n : PG!Numbered(S, m, n) = Numbered(S, m, n)
  BY <1>1 DEF PG!Numbered, Numbered
<1>5. PG!NoKey = NoKey
  BY DEF PG!NoKey, NoKey
<1>6. \A a, b : PG!CompareKeys(a, b) = CompareKeys(a, b)
  BY DEF PG!CompareKeys, CompareKeys, PG!Comparable, Comparable
<1>7. \A table, batch : PG!LastKey(table, batch) = LastKey(table, batch)
  BY DEF PG!LastKey, LastKey
<1>8. \A batches : PG!RowsOf(batches) = RowsOf(batches)
  BY DEF PG!RowsOf, RowsOf
<1>9. \A S : PG!HighestOf(S) = HighestOf(S)
  BY DEF PG!HighestOf, HighestOf
<1>10. \A batches, good : PG!Delivered(batches, good) = Delivered(batches, good)
  BY <1>8, <1>9 DEF PG!Delivered, Delivered
<1> QED BY <1>1, <1>2, <1>3, <1>4, <1>5, <1>6, <1>7, <1>10

LEMMA PGKeysetBatches ==
  ASSUME NEW table, NEW part, Readable(table, part.maxPK), NEW filtered \in BOOLEAN,
         NEW limit \in Nat \ {0}, part.minPK.val \in Int
  PROVE  PG!KeysetBatches(table, part, filtered, limit)
           = Chunks(Sorted(KeysAfter(table, filtered, part.minPK.val, part.maxPK)), limit)
<1>1. PG!KeysetBatches(table, part, filtered, limit)
        = KeysetSends(table, filtered, part.maxPK, limit, part.minPK.val)
  BY DEF PG!KeysetBatches, PG!BuildKeysetQuery, PG!First, PG!Sorted, PG!Cardinality,
         PG!NoKey, PG!KeysetDone, PG!CompareKeys, PG!Comparable, PG!LastKey,
         KeysetSends, KeysetRound, KeysAfter, First, Sorted, Cardinality,
         NoKey, CompareKeys, Comparable, LastKey
<1>2. PICK maxPK : maxPK = part.maxPK
  OBVIOUS
<1>3. PICK start : start = part.minPK.val
  OBVIOUS
<1>4. Readable(table, maxPK) /\ start \in Int
  BY <1>2, <1>3
<1>5. KeysetSends(table, filtered, maxPK, limit, start)
        = Chunks(Sorted(KeysAfter(table, filtered, start, maxPK)), limit)
  BY <1>4, KeysetLoop
<1> QED BY <1>1, <1>2, <1>3, <1>5

LEMMA MYOperators ==
  /\ \A S : MY!Cardinality(S) = Cardinality(S)
  /\ \A S : MY!Sorted(S) = Sorted(S)
  /\ \A n, S : MY!First(n, S) = First(n, S)
  /\ \A S, m, n : MY!Numbered(S, m, n) = Numbered(S, m, n)
  /\ MY!NoKey = NoKey
  /\ \A a, b : MY!CompareKeys(a, b) = CompareKeys(a, b)
  /\ \A table, batch : MY!LastKey(table, batch) = LastKey(table, batch)
  /\ \A batches, good : MY!Delivered(batches, good) = Delivered(batches, good)
<1>1. \A S : MY!Cardinality(S) = Cardinality(S)
  BY DEF MY!Cardinality, Cardinality
<1>2. \A S : MY!Sorted(S) = Sorted(S)
  BY DEF MY!Sorted, Sorted, MY!Cardinality, Cardinality
<1>3. \A n, S : MY!First(n, S) = First(n, S)
  BY <1>1, <1>2 DEF MY!First, First
<1>4. \A S, m, n : MY!Numbered(S, m, n) = Numbered(S, m, n)
  BY <1>1 DEF MY!Numbered, Numbered
<1>5. MY!NoKey = NoKey
  BY DEF MY!NoKey, NoKey
<1>6. \A a, b : MY!CompareKeys(a, b) = CompareKeys(a, b)
  BY DEF MY!CompareKeys, CompareKeys, MY!Comparable, Comparable
<1>7. \A table, batch : MY!LastKey(table, batch) = LastKey(table, batch)
  BY DEF MY!LastKey, LastKey
<1>8. \A batches : MY!RowsOf(batches) = RowsOf(batches)
  BY DEF MY!RowsOf, RowsOf
<1>9. \A S : MY!HighestOf(S) = HighestOf(S)
  BY DEF MY!HighestOf, HighestOf
<1>10. \A batches, good : MY!Delivered(batches, good) = Delivered(batches, good)
  BY <1>8, <1>9 DEF MY!Delivered, Delivered
<1> QED BY <1>1, <1>2, <1>3, <1>4, <1>5, <1>6, <1>7, <1>10

LEMMA MYKeysetBatches ==
  ASSUME NEW table, NEW part, Readable(table, part.maxPK), NEW filtered \in BOOLEAN,
         NEW limit \in Nat \ {0}, part.minPK.val \in Int
  PROVE  MY!KeysetBatches(table, part, filtered, limit)
           = Chunks(Sorted(KeysAfter(table, filtered, part.minPK.val, part.maxPK)), limit)
<1>1. MY!KeysetBatches(table, part, filtered, limit)
        = KeysetSends(table, filtered, part.maxPK, limit, part.minPK.val)
  BY DEF MY!KeysetBatches, MY!BuildKeysetQuery, MY!First, MY!Sorted, MY!Cardinality,
         MY!NoKey, MY!KeysetDone, MY!CompareKeys, MY!Comparable, MY!LastKey,
         KeysetSends, KeysetRound, KeysAfter, First, Sorted, Cardinality,
         NoKey, CompareKeys, Comparable, LastKey
<1>2. PICK maxPK : maxPK = part.maxPK
  OBVIOUS
<1>3. PICK start : start = part.minPK.val
  OBVIOUS
<1>4. Readable(table, maxPK) /\ start \in Int
  BY <1>2, <1>3
<1>5. KeysetSends(table, filtered, maxPK, limit, start)
        = Chunks(Sorted(KeysAfter(table, filtered, start, maxPK)), limit)
  BY <1>4, KeysetLoop
<1> QED BY <1>1, <1>2, <1>3, <1>5

LEMMA MSOperators ==
  /\ \A S : MS!Cardinality(S) = Cardinality(S)
  /\ \A S : MS!Sorted(S) = Sorted(S)
  /\ \A n, S : MS!First(n, S) = First(n, S)
  /\ \A S, m, n : MS!Numbered(S, m, n) = Numbered(S, m, n)
  /\ MS!NoKey = NoKey
  /\ \A a, b : MS!CompareKeys(a, b) = CompareKeys(a, b)
  /\ \A table, batch : MS!LastKey(table, batch) = LastKey(table, batch)
  /\ \A batches, good : MS!Delivered(batches, good) = Delivered(batches, good)
<1>1. \A S : MS!Cardinality(S) = Cardinality(S)
  BY DEF MS!Cardinality, Cardinality
<1>2. \A S : MS!Sorted(S) = Sorted(S)
  BY DEF MS!Sorted, Sorted, MS!Cardinality, Cardinality
<1>3. \A n, S : MS!First(n, S) = First(n, S)
  BY <1>1, <1>2 DEF MS!First, First
<1>4. \A S, m, n : MS!Numbered(S, m, n) = Numbered(S, m, n)
  BY <1>1 DEF MS!Numbered, Numbered
<1>5. MS!NoKey = NoKey
  BY DEF MS!NoKey, NoKey
<1>6. \A a, b : MS!CompareKeys(a, b) = CompareKeys(a, b)
  BY DEF MS!CompareKeys, CompareKeys, MS!Comparable, Comparable
<1>7. \A table, batch : MS!LastKey(table, batch) = LastKey(table, batch)
  BY DEF MS!LastKey, LastKey
<1>8. \A batches : MS!RowsOf(batches) = RowsOf(batches)
  BY DEF MS!RowsOf, RowsOf
<1>9. \A S : MS!HighestOf(S) = HighestOf(S)
  BY DEF MS!HighestOf, HighestOf
<1>10. \A batches, good : MS!Delivered(batches, good) = Delivered(batches, good)
  BY <1>8, <1>9 DEF MS!Delivered, Delivered
<1> QED BY <1>1, <1>2, <1>3, <1>4, <1>5, <1>6, <1>7, <1>10

LEMMA MSKeysetBatches ==
  ASSUME NEW table, NEW part, Readable(table, part.maxPK), NEW filtered \in BOOLEAN,
         NEW limit \in Nat \ {0}, part.minPK.val \in Int
  PROVE  MS!KeysetBatches(table, part, filtered, limit)
           = Chunks(Sorted(KeysAfter(table, filtered, part.minPK.val, part.maxPK)), limit)
<1>1. MS!KeysetBatches(table, part, filtered, limit)
        = KeysetSends(table, filtered, part.maxPK, limit, part.minPK.val)
  BY DEF MS!KeysetBatches, MS!BuildKeysetQuery, MS!First, MS!Sorted, MS!Cardinality,
         MS!NoKey, MS!KeysetDone, MS!CompareKeys, MS!Comparable, MS!LastKey,
         KeysetSends, KeysetRound, KeysAfter, First, Sorted, Cardinality,
         NoKey, CompareKeys, Comparable, LastKey
<1>2. PICK maxPK : maxPK = part.maxPK
  OBVIOUS
<1>3. PICK start : start = part.minPK.val
  OBVIOUS
<1>4. Readable(table, maxPK) /\ start \in Int
  BY <1>2, <1>3
<1>5. KeysetSends(table, filtered, maxPK, limit, start)
        = Chunks(Sorted(KeysAfter(table, filtered, start, maxPK)), limit)
  BY <1>4, KeysetLoop
<1> QED BY <1>1, <1>2, <1>3, <1>5

LEMMA ORAOperators ==
  /\ \A S : ORA!Cardinality(S) = Cardinality(S)
  /\ \A S : ORA!Sorted(S) = Sorted(S)
  /\ \A n, S : ORA!First(n, S) = First(n, S)
  /\ \A S, m, n : ORA!Numbered(S, m, n) = Numbered(S, m, n)
  /\ ORA!NoKey = NoKey
  /\ \A a, b : ORA!CompareKeys(a, b) = CompareKeys(a, b)
  /\ \A table, batch : ORA!LastKey(table, batch) = LastKey(table, batch)
  /\ \A batches, good : ORA!Delivered(batches, good) = Delivered(batches, good)
<1>1. \A S : ORA!Cardinality(S) = Cardinality(S)
  BY DEF ORA!Cardinality, Cardinality
<1>2. \A S : ORA!Sorted(S) = Sorted(S)
  BY DEF ORA!Sorted, Sorted, ORA!Cardinality, Cardinality
<1>3. \A n, S : ORA!First(n, S) = First(n, S)
  BY <1>1, <1>2 DEF ORA!First, First
<1>4. \A S, m, n : ORA!Numbered(S, m, n) = Numbered(S, m, n)
  BY <1>1 DEF ORA!Numbered, Numbered
<1>5. ORA!NoKey = NoKey
  BY DEF ORA!NoKey, NoKey
<1>6. \A a, b : ORA!CompareKeys(a, b) = CompareKeys(a, b)
  BY DEF ORA!CompareKeys, CompareKeys, ORA!Comparable, Comparable
<1>7. \A table, batch : ORA!LastKey(table, batch) = LastKey(table, batch)
  BY DEF ORA!LastKey, LastKey
<1>8. \A batches : ORA!RowsOf(batches) = RowsOf(batches)
  BY DEF ORA!RowsOf, RowsOf
<1>9. \A S : ORA!HighestOf(S) = HighestOf(S)
  BY DEF ORA!HighestOf, HighestOf
<1>10. \A batches, good : ORA!Delivered(batches, good) = Delivered(batches, good)
  BY <1>8, <1>9 DEF ORA!Delivered, Delivered
<1> QED BY <1>1, <1>2, <1>3, <1>4, <1>5, <1>6, <1>7, <1>10

LEMMA ORAKeysetBatches ==
  ASSUME NEW table, NEW part, Readable(table, part.maxPK), NEW filtered \in BOOLEAN,
         NEW limit \in Nat \ {0}, part.minPK.val \in Int
  PROVE  ORA!KeysetBatches(table, part, filtered, limit)
           = Chunks(Sorted(KeysAfter(table, filtered, part.minPK.val, part.maxPK)), limit)
<1>1. ORA!KeysetBatches(table, part, filtered, limit)
        = KeysetSends(table, filtered, part.maxPK, limit, part.minPK.val)
  BY DEF ORA!KeysetBatches, ORA!BuildKeysetQuery, ORA!First, ORA!Sorted, ORA!Cardinality,
         ORA!NoKey, ORA!KeysetDone, ORA!CompareKeys, ORA!Comparable, ORA!LastKey,
         KeysetSends, KeysetRound, KeysAfter, First, Sorted, Cardinality,
         NoKey, CompareKeys, Comparable, LastKey
<1>2. PICK maxPK : maxPK = part.maxPK
  OBVIOUS
<1>3. PICK start : start = part.minPK.val
  OBVIOUS
<1>4. Readable(table, maxPK) /\ start \in Int
  BY <1>2, <1>3
<1>5. KeysetSends(table, filtered, maxPK, limit, start)
        = Chunks(Sorted(KeysAfter(table, filtered, start, maxPK)), limit)
  BY <1>4, KeysetLoop
<1> QED BY <1>1, <1>2, <1>3, <1>5

-----------------------------------------------------------------------------
(* The inputs of the reads. *)

LEMMA ReadInputs ==
  ASSUME ReadsInit, input.of = "read"
  PROVE  /\ input.table.keys \in SUBSET Int /\ IsFiniteSet(input.table.keys)
         /\ input.table.changed \subseteq input.table.keys /\ input.table.kind = "int64"
         /\ input.part \in Parts /\ input.filtered \in BOOLEAN
         /\ input.limit \in Nat \ {0} /\ input.good \in Nat
         /\ input.part.startRow > 0 => input.part.startRow < input.part.endRow
<1>1. PICK keys \in SUBSET (1 .. MaxKey), changed \in SUBSET (1 .. MaxKey), part \in Parts,
           filtered \in BOOLEAN, limit \in 1 .. MaxLimit, good \in 0 .. MaxKey :
        /\ part.startRow > 0 => part.startRow < part.endRow
        /\ input = [of |-> "read", table |-> TableOf(keys, changed), part |-> part,
                    filtered |-> filtered, limit |-> limit, good |-> good]
  BY DEF ReadsInit
<1>2. /\ input.table = TableOf(keys, changed) /\ input.part = part /\ input.filtered = filtered
      /\ input.limit = limit /\ input.good = good
  BY <1>1
<1>3. MaxLimit \in Nat /\ MaxKey \in Nat
  BY InputsAssumption
<1>4. limit \in Nat \ {0} /\ good \in Nat
  BY <1>3
<1>5. keys \in SUBSET Int
  BY <1>3
<1>6. IsFiniteSet(keys)
  <2>1. IsFiniteSet(1 .. MaxKey)
    BY <1>3, FS_Interval
  <2> QED BY <2>1, FS_Subset
<1>7. /\ input.table.keys = keys /\ input.table.changed \subseteq keys
      /\ input.table.kind = "int64"
  BY <1>2 DEF TableOf
<1>8. input.part.startRow > 0 => input.part.startRow < input.part.endRow
  BY <1>1, <1>2
<1>9. filtered \in BOOLEAN /\ part \in Parts
  OBVIOUS
<1> QED BY <1>2, <1>4, <1>5, <1>6, <1>7, <1>8, <1>9

LEMMA PartFacts ==
  ASSUME NEW part \in Parts
  PROVE  /\ part.minPK # NoKey =>
              /\ part.minPK.val \in Int
              /\ \/ part.maxPK = NoKey
                 \/ part.maxPK # NoKey /\ part.maxPK.val \in Int /\ part.maxPK.kind = "int64"
         /\ part.startRow > 0 => part.minPK = NoKey
         /\ part.startRow \in Nat /\ part.endRow \in Nat
<1>0. MaxKey \in Nat
  BY InputsAssumption
<1>1. NoKey.kind = "nil" /\ \A k : Int64Key(k).kind = "int64" /\ Int64Key(k).val = k
  BY DEF NoKey, Int64Key
<1>2. CASE part \in [minPK : {Int64Key(k) : k \in 0 .. MaxKey},
                     maxPK : {NoKey} \cup {Int64Key(k) : k \in 1 .. MaxKey},
                     startRow : {0}, endRow : {0}]
  <2>1. PICK k \in 0 .. MaxKey : part.minPK = Int64Key(k)
    BY <1>2
  <2>2. part.maxPK = NoKey \/ \E m \in 1 .. MaxKey : part.maxPK = Int64Key(m)
    BY <1>2
  <2>3. part.startRow = 0 /\ part.endRow = 0
    BY <1>2
  <2>4. part.minPK.val \in Int
    BY <1>0, <1>1, <2>1
  <2>5. \/ part.maxPK = NoKey
        \/ part.maxPK # NoKey /\ part.maxPK.val \in Int /\ part.maxPK.kind = "int64"
    BY <1>0, <1>1, <2>2
  <2> QED BY <2>3, <2>4, <2>5
<1>3. CASE part \in [minPK : {NoKey}, maxPK : {NoKey}, startRow : 1 .. MaxKey - 1, endRow : 2 .. MaxKey]
  <2>1. part.minPK = NoKey /\ part.startRow \in 1 .. MaxKey - 1 /\ part.endRow \in 2 .. MaxKey
    BY <1>3
  <2> QED BY <1>0, <2>1
<1>4. CASE part \in [minPK : {NoKey}, maxPK : {NoKey}, startRow : {0}, endRow : {0}]
  <2>1. part.minPK = NoKey /\ part.startRow = 0 /\ part.endRow = 0
    BY <1>4
  <2> QED BY <2>1
<1> QED BY <1>2, <1>3, <1>4 DEF Parts

\* The four drivers read a keyset partition whose bound they can compare with the keys in
\* the same batches.
LEMMA KeysetReads ==
  ASSUME NEW table, NEW part, Readable(table, part.maxPK), NEW filtered \in BOOLEAN,
         NEW limit \in Nat \ {0}, NEW good \in Nat, part.minPK # NoKey, part.minPK.val \in Int,
         NEW rows, rows = Sorted(KeysAfter(table, filtered, part.minPK.val, part.maxPK)),
         NEW read, read = Delivered(Chunks(rows, limit), good)
  PROVE  /\ PG!ReadTable(table, part, filtered, limit, good) = read
         /\ MY!ReadTable(table, part, filtered, limit, good) = read
         /\ MS!ReadTable(table, part, filtered, limit, good) = read
         /\ ORA!ReadTable(table, part, filtered, limit, good) = read
<1>1. PG!ReadTable(table, part, filtered, limit, good) = read
  <2>1. PG!ReadTable(table, part, filtered, limit, good)
          = PG!Delivered(PG!KeysetBatches(table, part, filtered, limit), good)
    BY PGOperators, Zenon DEF PG!ReadTable
  <2>2. PG!KeysetBatches(table, part, filtered, limit) = Chunks(rows, limit)
    BY PGKeysetBatches
  <2> QED BY <2>1, <2>2, PGOperators
<1>2. MY!ReadTable(table, part, filtered, limit, good) = read
  <2>1. MY!ReadTable(table, part, filtered, limit, good)
          = MY!Delivered(MY!KeysetBatches(table, part, filtered, limit), good)
    BY MYOperators, Zenon DEF MY!ReadTable
  <2>2. MY!KeysetBatches(table, part, filtered, limit) = Chunks(rows, limit)
    BY MYKeysetBatches
  <2> QED BY <2>1, <2>2, MYOperators
<1>3. MS!ReadTable(table, part, filtered, limit, good) = read
  <2>1. MS!ReadTable(table, part, filtered, limit, good)
          = MS!Delivered(MS!KeysetBatches(table, part, filtered, limit), good)
    BY MSOperators, Zenon DEF MS!ReadTable
  <2>2. MS!KeysetBatches(table, part, filtered, limit) = Chunks(rows, limit)
    BY MSKeysetBatches
  <2> QED BY <2>1, <2>2, MSOperators
<1>4. ORA!ReadTable(table, part, filtered, limit, good) = read
  <2>1. ORA!ReadTable(table, part, filtered, limit, good)
          = ORA!Delivered(ORA!KeysetBatches(table, part, filtered, limit), good)
    BY ORAOperators, Zenon DEF ORA!ReadTable
  <2>2. ORA!KeysetBatches(table, part, filtered, limit) = Chunks(rows, limit)
    BY ORAKeysetBatches
  <2> QED BY <2>1, <2>2, ORAOperators
<1> QED BY <1>1, <1>2, <1>3, <1>4

\* The table as the Oracle driver delivers it.
LEMMA NumberTable ==
  ASSUME ReadsInit, input.of = "read",
         NEW table, table = [input.table EXCEPT !.kind = "Number"]
  PROVE  table.keys = input.table.keys /\ table.changed = input.table.changed
<1>1. PICK keys, changed : input.table = TableOf(keys, changed)
  BY DEF ReadsInit
<1> QED BY <1>1 DEF TableOf

LEMMA KeysetReadsStep == ReadsInit => KeysetReadsItsRange
<1> SUFFICES ASSUME ReadsInit, KeysetRead
             PROVE  KeysetReadsItsRange
  BY DEF KeysetReadsItsRange
<1> DEFINE part == input.part
           after == KeysAfter(input.table, input.filtered, part.minPK.val, part.maxPK)
           rows == Sorted(after)
           read == Delivered(Chunks(rows, input.limit), input.good)
           number == [input.table EXCEPT !.kind = "Number"]
<1>0. input.of = "read" /\ part.minPK # NoKey
  BY DEF KeysetRead
<1>1. /\ input.table.keys \in SUBSET Int /\ IsFiniteSet(input.table.keys)
      /\ input.table.changed \subseteq input.table.keys /\ input.table.kind = "int64"
      /\ part \in Parts /\ input.filtered \in BOOLEAN
      /\ input.limit \in Nat \ {0} /\ input.good \in Nat
  BY <1>0, ReadInputs
<1>2. /\ part.minPK.val \in Int
      /\ \/ part.maxPK = NoKey
         \/ part.maxPK # NoKey /\ part.maxPK.val \in Int /\ part.maxPK.kind = "int64"
  BY <1>0, <1>1, PartFacts
<1>3. Readable(input.table, part.maxPK)
  BY <1>1, <1>2 DEF Readable, Comparable
<1>4. after \in SUBSET Int /\ IsFiniteSet(after)
  BY <1>1, <1>2, <1>3, KeysAfterFacts
<1>5. rows \in Seq(after)
  <2> HIDE DEF after
  <2> QED BY <1>4, SortedFacts
<1>6. after = RangeOf(part)
  BY DEF Filtered, KeysAfter, RangeOf
<1>7. \A r : r = read => ReadsItsRange(r)
  <2>1. Delivers(read, rows, input.limit, input.good)
    <3> HIDE DEF rows, after
    <3> QED BY <1>1, <1>5, DeliveredFacts
  <2>2. Sorted(RangeOf(input.part)) = rows
    BY <1>6
  <2> HIDE DEF read, rows
  <2> QED BY <2>1, <2>2 DEF Delivers, ReadsItsRange
<1>8. \A r \in Reads : r = read
  <2>1. /\ PG!ReadTable(input.table, part, input.filtered, input.limit, input.good) = read
        /\ MY!ReadTable(input.table, part, input.filtered, input.limit, input.good) = read
        /\ MS!ReadTable(input.table, part, input.filtered, input.limit, input.good) = read
    BY <1>0, <1>1, <1>2, <1>3, KeysetReads
  <2> HIDE DEF read
  <2> QED BY <2>1 DEF Reads
<1>9. ASSUME part.maxPK = NoKey PROVE OracleRead = read
  <2>1. number.keys = input.table.keys /\ number.changed = input.table.changed
    BY <1>0, NumberTable
  <2>2. Readable(number, part.maxPK)
    <3> HIDE DEF number
    <3> QED BY <1>1, <1>9, <2>1 DEF Readable
  <2>3. after = KeysAfter(number, input.filtered, part.minPK.val, part.maxPK)
    <3> HIDE DEF number
    <3> QED BY <2>1 DEF KeysAfter
  <2>4. ORA!ReadTable(number, part, input.filtered, input.limit, input.good) = read
    <3> HIDE DEF number, after
    <3> QED BY <1>0, <1>1, <1>2, <2>2, <2>3, KeysetReads
  <2> HIDE DEF read
  <2> QED BY <2>4 DEF OracleRead
<1> HIDE DEF read
<1> QED BY <1>7, <1>8, <1>9 DEF KeysetReadsItsRange

\* With the drivers of PostgreSQL, MySQL and SQL Server, for all tables, limits and lost
\* connections, a keyset ReadTable sends the rows of its range in the order of the key, in
\* batches of 1 to limit rows, and all of them unless it ends with an error; with Oracle's
\* when it is given no maxPK.
THEOREM KeysetReadsTheRange == ReadsSpec => []KeysetReadsItsRange
<1>1. ReadsInit /\ [ReadsNext]_input => ReadsInit'
  BY DEF ReadsNext, ReadsInit
<1> QED BY <1>1, KeysetReadsStep, PTL DEF ReadsSpec

-----------------------------------------------------------------------------
(* The loop of readRowNumberPagination. *)

\* A round of the loop; next[r] is what the rounds after row r send.
RowNumberRound(S, endRow, limit, row, next) ==
  LET batch == Sorted(Numbered(S, row, row + (IF row + limit > endRow THEN endRow - row ELSE limit)))
  IN IF row >= endRow \/ batch = << >> THEN << >>
     ELSE << batch >> \o next[row + Len(batch)]

LEMMA ChunksOfNone ==
  ASSUME NEW limit \in Nat \ {0}
  PROVE  Chunks(<< >>, limit) = << >>
<1>1. << >> \in Seq(Int) /\ Len(<< >>) = 0
  OBVIOUS
<1>2. InBatches(Int, << >>, limit)
  BY <1>1, ChunksFacts
<1>3. Chunks(<< >>, limit) \in Seq(Seq(Int)) /\ Len(Chunks(<< >>, limit)) = Batches(0, limit)
  BY <1>1, <1>2 DEF InBatches
<1>4. Batches(0, limit) = 0
  BY BatchesFacts
<1> QED BY <1>3, <1>4, EmptySeq

\* The same for the rows from a row on: a batch, and those after it.
LEMMA RowNumberRoundDoes ==
  ASSUME NEW S \in SUBSET Int, IsFiniteSet(S), NEW endRow \in Nat, NEW limit \in Nat \ {0},
         NEW row \in 0 .. endRow, NEW next,
         \A r \in 0 .. endRow : row < r => next[r] = Chunks(Sorted(Numbered(S, r, endRow)), limit)
  PROVE  RowNumberRound(S, endRow, limit, row, next)
           = Chunks(Sorted(Numbered(S, row, endRow)), limit)
<1> DEFINE n == Cardinality(S)
           all == Sorted(S)
           e == SmallerOf(endRow, n)
           rows == SubSeq(all, row + 1, e)
           size == SmallerOf(limit, endRow - row)
           b == SmallerOf(row + size, n)
           batch == Sorted(Numbered(S, row, row + size))
<1>1. n \in Nat /\ all \in Seq(S) /\ Len(all) = n /\ row \in Nat
  BY RankFacts, SortedFacts
<1>2. \A r \in Nat : Sorted(Numbered(S, r, endRow)) = SubSeq(all, r + 1, e)
  BY SortedNumbered
<1>3. size \in Nat /\ row + size \in Nat /\ (row < endRow => size >= 1)
  BY <1>1 DEF SmallerOf
<1>4. batch = SubSeq(all, row + 1, b)
  <2> HIDE DEF size
  <2> QED BY <1>1, <1>3, SortedNumbered
<1>5. RowNumberRound(S, endRow, limit, row, next)
        = IF row >= endRow \/ batch = << >> THEN << >> ELSE << batch >> \o next[row + Len(batch)]
  <2>1. (IF row + limit > endRow THEN endRow - row ELSE limit) = size
    BY DEF SmallerOf
  <2> HIDE DEF size
  <2> QED BY <2>1, Zenon DEF RowNumberRound
<1>6. e \in Nat /\ e <= n /\ e <= endRow /\ e \in {endRow, n}
  BY <1>1, Smaller
<1>7. CASE row >= e
  <2>1. rows = << >>
    BY <1>1, <1>6, <1>7, SubSeqEmpty
  <2>2. Chunks(rows, limit) = << >>
    BY <2>1, ChunksOfNone
  <2>3. row >= endRow \/ batch = << >>
    <3>1. CASE row >= n
      <4>1. b \in Int /\ b < row + 1
        BY <1>1, <1>3, <3>1 DEF SmallerOf
      <4> HIDE DEF b, batch
      <4>2. SubSeq(all, row + 1, b) = << >>
        BY <1>1, <4>1, SubSeqEmpty
      <4> QED BY <1>4, <4>2
    <3>2. CASE row < n
      BY <1>1, <1>6, <1>7, <3>2
    <3> QED BY <1>1, <3>1, <3>2
  <2>4. RowNumberRound(S, endRow, limit, row, next) = << >>
    <3> HIDE DEF batch
    <3> QED BY <1>5, <2>3
  <2> QED BY <1>1, <1>2, <2>2, <2>4
<1>8. CASE row < e
  <2>1. row < endRow /\ row < n
    BY <1>1, <1>6, <1>8
  <2> DEFINE m == SmallerOf(limit, e - row)
  <2>2. m \in Nat /\ m >= 1 /\ m <= e - row /\ row + m \in Nat
    BY <1>1, <1>6, <1>8 DEF SmallerOf
  <2>3. b = row + m
    BY <1>1, <1>6, <1>8, <2>1 DEF SmallerOf
  <2> HIDE DEF e, b, batch, size, m, all, n
  <2>4. rows \in Seq(S) /\ Len(rows) = e - row /\ rows # << >>
    <3>1. row + 1 \in Nat \ {0} /\ e \in Int /\ e <= Len(all)
      BY <1>1, <1>6
    <3>2. rows \in Seq(S) /\ Len(rows) = IF row + 1 <= e THEN e - (row + 1) + 1 ELSE 0
      BY <1>1, <3>1, SubSeqFacts
    <3>3. Len(rows) = e - row
      BY <1>1, <1>6, <1>8, <3>2
    <3>4. Len(rows) # 0
      BY <1>1, <1>6, <1>8, <3>3
    <3> QED BY <3>2, <3>3, <3>4
  <2>5. \A j, k \in 1 .. e - row : SubSeq(rows, j, k) = SubSeq(all, row + j, row + k)
    <3> SUFFICES ASSUME NEW j \in 1 .. e - row, NEW k \in 1 .. e - row
                 PROVE  SubSeq(rows, j, k) = SubSeq(all, row + j, row + k)
      OBVIOUS
    <3>1. row + 1 \in 1 .. Len(all) /\ e \in 1 .. Len(all)
      BY <1>1, <1>6, <1>8
    <3>2. j \in 1 .. e - (row + 1) + 1 /\ k \in 1 .. e - (row + 1) + 1
      BY <1>1, <1>6
    <3>3. SubSeq(SubSeq(all, row + 1, e), j, k)
            = SubSeq(all, (row + 1) + j - 1, (row + 1) + k - 1)
      BY <1>1, <3>1, <3>2, SubSeqOfSubSeq
    <3>4. (row + 1) + j - 1 = row + j /\ (row + 1) + k - 1 = row + k
      BY <1>1, <1>6
    <3> QED BY <3>3, <3>4
  <2>6. /\ SubSeq(rows, 1, m) \in Seq(S)
        /\ Chunks(rows, limit)
             = << SubSeq(rows, 1, m) >> \o Chunks(SubSeq(rows, m + 1, Len(rows)), limit)
    <3>1. m = SmallerOf(limit, Len(rows))
      BY <2>4 DEF m
    <3> HIDE DEF rows
    <3> QED BY <2>4, <3>1, ChunksFirst
  <2>7. SubSeq(rows, 1, m) = batch
    <3>1. 1 \in 1 .. e - row /\ m \in 1 .. e - row
      BY <1>1, <1>6, <2>2
    <3> HIDE DEF rows
    <3> QED BY <1>4, <2>3, <2>5, <3>1
  <2>8. SubSeq(rows, m + 1, Len(rows)) = SubSeq(all, row + m + 1, e)
    <3>1. CASE m + 1 <= e - row
      <4>1. m + 1 \in 1 .. e - row /\ e - row \in 1 .. e - row /\ row + (e - row) = e
            /\ row + (m + 1) = row + m + 1
        BY <1>1, <1>6, <2>2, <3>1
      <4> HIDE DEF rows
      <4> QED BY <2>4, <2>5, <4>1
    <3>2. CASE ~(m + 1 <= e - row)
      <4>1. m + 1 \in Int /\ e - row \in Int /\ e - row < m + 1
            /\ row + m + 1 \in Int /\ e \in Int /\ e < row + m + 1
        BY <1>1, <1>6, <2>2, <3>2
      <4>2. SubSeq(rows, m + 1, e - row) = << >>
        <5> HIDE DEF rows
        <5> QED BY <4>1, SubSeqEmpty
      <4>3. SubSeq(all, row + m + 1, e) = << >>
        BY <4>1, SubSeqEmpty
      <4> HIDE DEF rows
      <4> QED BY <2>4, <4>2, <4>3
    <3> QED BY <3>1, <3>2
  <2>9. Len(batch) = m /\ batch # << >>
    <3>1. row + 1 \in Nat \ {0} /\ b \in Int /\ b <= Len(all)
      BY <1>1, <1>6, <2>2, <2>3
    <3>2. Len(SubSeq(all, row + 1, b)) = IF row + 1 <= b THEN b - (row + 1) + 1 ELSE 0
      BY <1>1, <3>1, SubSeqFacts
    <3>3. Len(batch) = m
      BY <1>1, <1>4, <2>2, <2>3, <3>2
    <3> QED BY <2>2, <3>3
  <2>10. next[row + m] = Chunks(SubSeq(all, row + m + 1, e), limit)
    <3>1. row + m \in 0 .. endRow /\ row < row + m
      BY <1>1, <1>6, <2>2
    <3>2. next[row + m] = Chunks(Sorted(Numbered(S, row + m, endRow)), limit)
      BY <3>1
    <3> QED BY <1>2, <2>2, <3>2
  <2>11. RowNumberRound(S, endRow, limit, row, next) = << batch >> \o next[row + m]
    BY <1>1, <1>5, <2>1, <2>9
  <2>12. Chunks(rows, limit) = << batch >> \o next[row + m]
    <3> HIDE DEF rows
    <3> QED BY <2>6, <2>7, <2>8, <2>10
  <2>13. Sorted(Numbered(S, row, endRow)) = rows
    BY <1>1, <1>2
  <2> HIDE DEF rows
  <2> QED BY <2>11, <2>12, <2>13
<1> QED BY <1>1, <1>6, <1>7, <1>8

\* The loop sends the rows of the partition, in order and in batches of limit.
RowNumberSends(S, endRow, limit, start) ==
  (CHOOSE g : g = [row \in 0 .. endRow |-> RowNumberRound(S, endRow, limit, row, g)])[start]

LEMMA RowNumberLoop ==
  ASSUME NEW S \in SUBSET Int, IsFiniteSet(S), NEW endRow \in Nat, NEW limit \in Nat \ {0},
         NEW start \in 0 .. endRow
  PROVE  RowNumberSends(S, endRow, limit, start)
           = Chunks(Sorted(Numbered(S, start, endRow)), limit)
<1>0. PICK from : from = CHOOSE g : g = [row \in 0 .. endRow |->
                                           RowNumberRound(S, endRow, limit, row, g)]
  OBVIOUS
<1> DEFINE D == 0 .. endRow
           sent(row) == Chunks(Sorted(Numbered(S, row, endRow)), limit)
           round(row, g) == RowNumberRound(S, endRow, limit, row, g)
           all == [row \in D |-> sent(row)]
<1>1. ASSUME NEW row \in D, NEW g, \A r \in D : row < r => g[r] = sent(r)
      PROVE  round(row, g) = sent(row)
  BY <1>1, RowNumberRoundDoes
<1>2. D \subseteq Nat
  OBVIOUS
<1> HIDE DEF D, round, sent
<1>3. all = [row \in D |-> round(row, all)]
  <2>1. ASSUME NEW row \in D PROVE round(row, all) = sent(row)
    <3>1. \A r \in D : all[r] = sent(r)
      OBVIOUS
    <3> HIDE DEF all
    <3> QED BY <1>1, <3>1
  <2> QED BY <2>1
<1>4. from = [row \in D |-> round(row, from)]
  <2> HIDE DEF all
  <2>1. from = CHOOSE g : g = [row \in D |-> round(row, g)]
    BY <1>0 DEF D, round
  <2> QED BY <1>3, <2>1
<1> DEFINE T == {endRow - row : row \in {r \in D : from[r] # sent(r)}}
<1>5. T = {}
  <2> SUFFICES ASSUME T # {} PROVE FALSE
    OBVIOUS
  <2>1. T \subseteq Nat
    BY DEF D
  <2>2. PICK m \in T : \A k \in T : m <= k
    <3> HIDE DEF T
    <3> QED BY <2>1, LeastNat
  <2>3. PICK row \in D : from[row] # sent(row) /\ m = endRow - row
    OBVIOUS
  <2>4. ASSUME NEW r \in D, row < r
        PROVE  from[r] = sent(r)
    <3>1. endRow - r < m
      BY <1>2, <2>3, <2>4
    <3>2. endRow - r \notin T
      <4> SUFFICES ASSUME endRow - r \in T PROVE FALSE
        OBVIOUS
      <4>1. m <= endRow - r
        <5> HIDE DEF T
        <5> QED BY <2>2
      <4> HIDE DEF T
      <4> QED BY <1>2, <2>3, <3>1, <4>1
    <3> QED BY <3>2
  <2>5. round(row, from) = sent(row)
    BY <1>1, <2>4
  <2>6. from[row] = round(row, from)
    BY <1>4
  <2> QED BY <2>3, <2>5, <2>6
<1>6. start \in D
  BY DEF D
<1>7. from[start] = sent(start)
  BY <1>5, <1>6
<1> QED BY <1>0, <1>7 DEF sent, RowNumberSends

LEMMA PGRowNumberBatches ==
  ASSUME NEW table, table.keys \in SUBSET Int, IsFiniteSet(table.keys), NEW part,
         part.startRow \in Nat, part.endRow \in Nat, part.startRow < part.endRow,
         NEW limit \in Nat \ {0}
  PROVE  PG!RowNumberBatches(table, part, limit)
           = Chunks(Sorted(Numbered(table.keys, part.startRow, part.endRow)), limit)
<1>1. PG!RowNumberBatches(table, part, limit)
        = IF part.startRow >= part.endRow THEN << >>
          ELSE RowNumberSends(table.keys, part.endRow, limit, part.startRow)
  BY DEF PG!RowNumberBatches, PG!BuildRowNumberQuery, PG!Sorted, PG!Numbered, PG!Cardinality,
         RowNumberSends, RowNumberRound, Sorted, Numbered, Cardinality
<1>2. PICK start : start = part.startRow
  OBVIOUS
<1>3. PICK endRow : endRow = part.endRow
  OBVIOUS
<1>4. start \in 0 .. endRow /\ endRow \in Nat /\ ~(start >= endRow)
  BY <1>2, <1>3
<1>5. RowNumberSends(table.keys, endRow, limit, start)
        = Chunks(Sorted(Numbered(table.keys, start, endRow)), limit)
  BY <1>4, RowNumberLoop
<1> QED BY <1>1, <1>2, <1>3, <1>4, <1>5

LEMMA MYRowNumberBatches ==
  ASSUME NEW table, table.keys \in SUBSET Int, IsFiniteSet(table.keys), NEW part,
         part.startRow \in Nat, part.endRow \in Nat, part.startRow < part.endRow,
         NEW limit \in Nat \ {0}
  PROVE  MY!RowNumberBatches(table, part, limit)
           = Chunks(Sorted(Numbered(table.keys, part.startRow, part.endRow)), limit)
<1>1. MY!RowNumberBatches(table, part, limit)
        = IF part.startRow >= part.endRow THEN << >>
          ELSE RowNumberSends(table.keys, part.endRow, limit, part.startRow)
  BY DEF MY!RowNumberBatches, MY!BuildRowNumberQuery, MY!Sorted, MY!Numbered, MY!Cardinality,
         RowNumberSends, RowNumberRound, Sorted, Numbered, Cardinality
<1>2. PICK start : start = part.startRow
  OBVIOUS
<1>3. PICK endRow : endRow = part.endRow
  OBVIOUS
<1>4. start \in 0 .. endRow /\ endRow \in Nat /\ ~(start >= endRow)
  BY <1>2, <1>3
<1>5. RowNumberSends(table.keys, endRow, limit, start)
        = Chunks(Sorted(Numbered(table.keys, start, endRow)), limit)
  BY <1>4, RowNumberLoop
<1> QED BY <1>1, <1>2, <1>3, <1>4, <1>5


LEMMA MSRowNumberBatches ==
  ASSUME NEW table, table.keys \in SUBSET Int, IsFiniteSet(table.keys), NEW part,
         part.startRow \in Nat, part.endRow \in Nat, part.startRow < part.endRow,
         NEW limit \in Nat \ {0}
  PROVE  MS!RowNumberBatches(table, part, limit)
           = Chunks(Sorted(Numbered(table.keys, part.startRow, part.endRow)), limit)
<1>1. MS!RowNumberBatches(table, part, limit)
        = IF part.startRow >= part.endRow THEN << >>
          ELSE RowNumberSends(table.keys, part.endRow, limit, part.startRow)
  BY DEF MS!RowNumberBatches, MS!BuildRowNumberQuery, MS!Sorted, MS!Numbered, MS!Cardinality,
         RowNumberSends, RowNumberRound, Sorted, Numbered, Cardinality
<1>2. PICK start : start = part.startRow
  OBVIOUS
<1>3. PICK endRow : endRow = part.endRow
  OBVIOUS
<1>4. start \in 0 .. endRow /\ endRow \in Nat /\ ~(start >= endRow)
  BY <1>2, <1>3
<1>5. RowNumberSends(table.keys, endRow, limit, start)
        = Chunks(Sorted(Numbered(table.keys, start, endRow)), limit)
  BY <1>4, RowNumberLoop
<1> QED BY <1>1, <1>2, <1>3, <1>4, <1>5

LEMMA RowNumberReads ==
  ASSUME NEW table, table.keys \in SUBSET Int, IsFiniteSet(table.keys), NEW part,
         part.startRow \in Nat, part.endRow \in Nat, part.startRow < part.endRow,
         part.startRow > 0, part.minPK = NoKey, NEW filtered,
         NEW limit \in Nat \ {0}, NEW good,
         NEW rows, rows = Sorted(Numbered(table.keys, part.startRow, part.endRow)),
         NEW read, read = Delivered(Chunks(rows, limit), good)
  PROVE  /\ PG!ReadTable(table, part, filtered, limit, good) = read
         /\ MY!ReadTable(table, part, filtered, limit, good) = read
         /\ MS!ReadTable(table, part, filtered, limit, good) = read
<1>1. PG!ReadTable(table, part, filtered, limit, good) = read
  <2>1. PG!ReadTable(table, part, filtered, limit, good)
          = PG!Delivered(PG!RowNumberBatches(table, part, limit), good)
    BY PGOperators, Zenon DEF PG!ReadTable
  <2>2. PG!RowNumberBatches(table, part, limit) = Chunks(rows, limit)
    BY PGRowNumberBatches
  <2> QED BY <2>1, <2>2, PGOperators
<1>2. MY!ReadTable(table, part, filtered, limit, good) = read
  <2>1. MY!ReadTable(table, part, filtered, limit, good)
          = MY!Delivered(MY!RowNumberBatches(table, part, limit), good)
    BY MYOperators, Zenon DEF MY!ReadTable
  <2>2. MY!RowNumberBatches(table, part, limit) = Chunks(rows, limit)
    BY MYRowNumberBatches
  <2> QED BY <2>1, <2>2, MYOperators
<1>3. MS!ReadTable(table, part, filtered, limit, good) = read
  <2>1. MS!ReadTable(table, part, filtered, limit, good)
          = MS!Delivered(MS!RowNumberBatches(table, part, limit), good)
    BY MSOperators, Zenon DEF MS!ReadTable
  <2>2. MS!RowNumberBatches(table, part, limit) = Chunks(rows, limit)
    BY MSRowNumberBatches
  <2> QED BY <2>1, <2>2, MSOperators
<1> QED BY <1>1, <1>2, <1>3

LEMMA RowNumberReadsStep == ReadsInit => RowNumberReadsItsRows
<1> SUFFICES ASSUME ReadsInit, input.of = "read", input.part.startRow > 0,
                    input.good = Cardinality(input.table.keys)
             PROVE  RowNumberReadsItsRows
  BY DEF RowNumberReadsItsRows
<1> DEFINE part == input.part
           keys == input.table.keys
           numbered == Numbered(keys, part.startRow, part.endRow)
           rows == Sorted(numbered)
           read == Delivered(Chunks(rows, input.limit), input.good)
<1>1. /\ keys \in SUBSET Int /\ IsFiniteSet(keys) /\ part \in Parts
      /\ input.limit \in Nat \ {0} /\ input.good \in Nat
      /\ part.startRow < part.endRow
  BY ReadInputs
<1>2. part.minPK = NoKey /\ part.startRow \in Nat /\ part.endRow \in Nat
  BY <1>1, PartFacts
<1>3. numbered \in SUBSET keys /\ IsFiniteSet(numbered)
  BY <1>1, <1>2, SortedNumbered
<1>4. rows \in Seq(numbered) /\ Len(rows) = Cardinality(numbered)
  <2>1. numbered \in SUBSET Int
    BY <1>1, <1>3
  <2> HIDE DEF numbered
  <2> QED BY <1>3, <2>1, SortedFacts
<1>5. Delivers(read, rows, input.limit, input.good)
  <2> HIDE DEF rows, numbered
  <2> QED BY <1>1, <1>4, DeliveredFacts
<1>6. input.good >= Len(rows)
  <2> HIDE DEF numbered, rows
  <2>1. Cardinality(numbered) <= Cardinality(keys)
    BY <1>1, <1>3, FS_Subset
  <2> QED BY <1>4, <2>1
<1>7. RowsOf(read.batches) = rows
  <2> HIDE DEF read, rows
  <2> QED BY <1>5, <1>6 DEF Delivers
<1>8. /\ PG!ReadTable(input.table, part, input.filtered, input.limit, input.good) = read
      /\ MY!ReadTable(input.table, part, input.filtered, input.limit, input.good) = read
      /\ MS!ReadTable(input.table, part, input.filtered, input.limit, input.good) = read
  BY <1>1, <1>2, RowNumberReads
<1> HIDE DEF read
<1> QED BY <1>7, <1>8 DEF RowNumberReadsItsRows

\* With every driver but Oracle's, for all tables and batch sizes, a ROW_NUMBER ReadTable
\* sends the rows that its partition numbers, each once and in order.
THEOREM RowNumberReadsTheRows == ReadsSpec => []RowNumberReadsItsRows
<1>1. ReadsInit /\ [ReadsNext]_input => ReadsInit'
  BY DEF ReadsNext, ReadsInit
<1> QED BY <1>1, RowNumberReadsStep, PTL DEF ReadsSpec

-----------------------------------------------------------------------------
(* The partitions of a table. *)

LEMMA Extremes ==
  ASSUME NEW S \in SUBSET Int, IsFiniteSet(S), S # {}
  PROVE  /\ LowestOf(S) \in S /\ \A k \in S : LowestOf(S) <= k
         /\ HighestOf(S) \in S /\ \A k \in S : k <= HighestOf(S)
<1> DEFINE n == Cardinality(S)
<1>1. n \in Nat /\ n # 0
  BY RankFacts, FS_EmptySet
<1> HIDE DEF n
<1>2. 1 \in 1 .. n /\ n \in 1 .. n
  BY <1>1
<1>3. PICK a \in S : Rank(S, a) = 1
  BY <1>2, RankOnto DEF n
<1>4. PICK b \in S : Rank(S, b) = n
  BY <1>2, RankOnto DEF n
<1>5. \A k \in S : k \in Int /\ Rank(S, k) \in 1 .. n
  BY RankFacts DEF n
<1>6. \A j, k \in S : j < k => Rank(S, j) < Rank(S, k)
  BY <1>5, RankFacts
<1>7. \A k \in S : a <= k /\ k <= b
  BY <1>1, <1>3, <1>4, <1>5, <1>6
<1>8. LowestOf(S) \in S /\ \A k \in S : LowestOf(S) <= k
  <2>1. \E x \in S : \A y \in S : x =< y
    BY <1>7
  <2> QED BY <2>1 DEF LowestOf
<1>9. HighestOf(S) \in S /\ \A k \in S : k <= HighestOf(S)
  <2>1. \E x \in S : \A y \in S : y <= x
    BY <1>7
  <2> QED BY <2>1 DEF HighestOf
<1> QED BY <1>8, <1>9

\* Cuts from 0 to B(c), none before the one before it: each number is between the two
\* cuts of exactly one piece.
LEMMA OnePiece ==
  ASSUME NEW c \in Nat, NEW B, \A i \in 0 .. c : B[i] \in Int, B[0] = 0,
         \A i, j \in 0 .. c : i <= j => B[i] <= B[j], NEW m \in 1 .. B[c]
  PROVE  Cardinality({i \in 1 .. c : B[i - 1] < m /\ m <= B[i]}) = 1
<1> DEFINE T == {i \in 0 .. c : m <= B[i]}
<1>1. c \in 0 .. c /\ 0 \in 0 .. c /\ m \in Int /\ 0 < m /\ m <= B[c]
  OBVIOUS
<1>2. T \subseteq Nat /\ T # {}
  BY <1>1
<1>3. PICK i \in T : \A k \in T : i <= k
  <2> HIDE DEF T
  <2> QED BY <1>2, LeastNat
<1>4. i \in 0 .. c /\ m <= B[i] /\ i # 0
  BY <1>1
<1>5. i \in 1 .. c /\ i - 1 \in 0 .. c
  BY <1>4
<1>6. B[i - 1] < m
  <2>1. i - 1 \notin T
    <3> SUFFICES ASSUME i - 1 \in T PROVE FALSE
      OBVIOUS
    <3>1. i <= i - 1
      <4> HIDE DEF T
      <4> QED BY <1>3
    <3> QED BY <1>5, <3>1
  <2>2. ~(m <= B[i - 1])
    BY <1>5, <2>1
  <2> HIDE DEF T
  <2> QED BY <1>1, <1>5, <2>2
<1> HIDE DEF T
<1>7. ASSUME NEW j \in 1 .. c, B[j - 1] < m, m <= B[j] PROVE j = i
  <2>1. j - 1 \in 0 .. c /\ j \in 0 .. c
    OBVIOUS
  <2>2. ~(i < j)
    <3> SUFFICES ASSUME i < j PROVE FALSE
      OBVIOUS
    <3>1. B[i] <= B[j - 1]
      BY <1>4, <2>1
    <3> QED BY <1>1, <1>4, <1>7, <2>1, <3>1
  <2>3. ~(j < i)
    <3> SUFFICES ASSUME j < i PROVE FALSE
      OBVIOUS
    <3>1. B[j] <= B[i - 1]
      BY <1>5, <2>1
    <3> QED BY <1>1, <1>5, <1>6, <1>7, <2>1, <3>1
  <2> QED BY <1>4, <2>2, <2>3
<1>8. {k \in 1 .. c : B[k - 1] < m /\ m <= B[k]} = {i}
  BY <1>4, <1>5, <1>6, <1>7
<1> QED BY <1>8, FS_Singleton

\* The tiles of NTILE: their number, and how many rows there are up to each of them.
TileCuts(rows, n, i) == i * (rows \div n) + SmallerOf(i, rows % n)
Tiles(rows, n) == IF rows < n THEN rows ELSE n

LEMMA QuotientFacts ==
  ASSUME NEW a \in Nat, NEW n \in Nat \ {0}
  PROVE  /\ a \div n \in Nat /\ a % n \in Nat /\ a % n < n /\ n * (a \div n) + (a % n) = a
         /\ a < n => a \div n = 0 /\ a % n = a
         /\ n <= a => 1 <= a \div n
<1>1. a = n * (a \div n) + (a % n) /\ a % n \in 0 .. n - 1 /\ a \div n \in Int
  OBVIOUS
<1>2. PICK q \in Int : q = a \div n
  BY <1>1
<1>3. PICK r \in Nat : r = a % n /\ r < n
  BY <1>1
<1>4. a = n * q + r
  BY <1>1, <1>2, <1>3
<1>5. q \in Nat
  <2> SUFFICES ASSUME q <= -1 PROVE FALSE
    OBVIOUS
  <2>1. n * q <= n * (-1)
    BY <1>2
  <2> QED BY <1>3, <1>4, <2>1
<1>6. a < n => q = 0
  <2> SUFFICES ASSUME a < n, q >= 1 PROVE FALSE
    BY <1>5
  <2>1. n * q >= n * 1
    BY <1>5
  <2> QED BY <1>3, <1>4, <2>1
<1>7. n <= a => 1 <= q
  <2> SUFFICES ASSUME n <= a, q = 0 PROVE FALSE
    BY <1>5
  <2> QED BY <1>3, <1>4
<1>8. a < n => r = a
  BY <1>4, <1>6
<1> QED BY <1>2, <1>3, <1>4, <1>5, <1>6, <1>7, <1>8

EvenCuts(rows, n) ==
  /\ \A i \in 0 .. n : TileCuts(rows, n, i) \in Nat
  /\ TileCuts(rows, n, 0) = 0
  /\ \A i \in 1 .. n : TileCuts(rows, n, i)
       = TileCuts(rows, n, i - 1) + (rows \div n + (IF i <= rows % n THEN 1 ELSE 0))
  /\ \A i, j \in 0 .. n : i <= j => TileCuts(rows, n, i) <= TileCuts(rows, n, j)
  /\ Tiles(rows, n) \in 0 .. n
  /\ TileCuts(rows, n, Tiles(rows, n)) = rows
  /\ \A i \in 1 .. Tiles(rows, n) : TileCuts(rows, n, i - 1) < TileCuts(rows, n, i)

LEMMA TileCutsFacts ==
  ASSUME NEW rows \in Nat, NEW n \in Nat \ {0}
  PROVE  EvenCuts(rows, n)
<1>1. PICK q \in Nat : q = rows \div n
  BY QuotientFacts
<1>2. PICK r \in Nat : r = rows % n
  BY QuotientFacts
<1>3. /\ r < n /\ n * q + r = rows /\ (rows < n => q = 0 /\ r = rows) /\ (n <= rows => 1 <= q)
  BY <1>1, <1>2, QuotientFacts
<1>4. \A i : TileCuts(rows, n, i) = i * q + SmallerOf(i, r)
  BY <1>1, <1>2 DEF TileCuts
<1>5. \A i \in Nat : i * q \in Nat /\ SmallerOf(i, r) \in Nat
  BY DEF SmallerOf
<1>6. \A i \in 0 .. n : TileCuts(rows, n, i) \in Nat
  BY <1>4, <1>5
<1>7. TileCuts(rows, n, 0) = 0
  BY <1>4 DEF SmallerOf
<1>8. \A i \in 1 .. n : TileCuts(rows, n, i)
         = TileCuts(rows, n, i - 1) + (rows \div n + (IF i <= rows % n THEN 1 ELSE 0))
  <2> SUFFICES ASSUME NEW i \in 1 .. n
               PROVE  i * q + SmallerOf(i, r)
                        = ((i - 1) * q + SmallerOf(i - 1, r)) + (q + (IF i <= r THEN 1 ELSE 0))
    BY <1>1, <1>2, <1>4
  <2>1. i * q = (i - 1) * q + q
    OBVIOUS
  <2>2. (i - 1) * q \in Nat
    BY <1>5
  <2>3. SmallerOf(i, r) = SmallerOf(i - 1, r) + (IF i <= r THEN 1 ELSE 0)
    BY DEF SmallerOf
  <2>4. SmallerOf(i - 1, r) \in Nat
    BY <1>5
  <2> QED BY <2>1, <2>2, <2>3, <2>4
<1>9. \A i, j \in 0 .. n : i <= j => TileCuts(rows, n, i) <= TileCuts(rows, n, j)
  <2> SUFFICES ASSUME NEW i \in 0 .. n, NEW j \in 0 .. n, i <= j
               PROVE  i * q + SmallerOf(i, r) <= j * q + SmallerOf(j, r)
    BY <1>4
  <2>1. i * q <= j * q
    BY TimesMonotone
  <2>2. SmallerOf(i, r) <= SmallerOf(j, r)
    BY DEF SmallerOf
  <2>3. i * q \in Nat /\ j * q \in Nat /\ SmallerOf(i, r) \in Nat /\ SmallerOf(j, r) \in Nat
    BY <1>5
  <2> QED BY <2>1, <2>2, <2>3
<1>10. Tiles(rows, n) \in 0 .. n
  BY DEF Tiles
<1>11. TileCuts(rows, n, Tiles(rows, n)) = rows
  <2>1. CASE rows < n
    <3>1. q = 0 /\ r = rows /\ Tiles(rows, n) = rows
      BY <1>3, <2>1 DEF Tiles
    <3>2. SmallerOf(rows, rows) = rows /\ rows * 0 = 0
      BY DEF SmallerOf
    <3> QED BY <1>4, <3>1, <3>2
  <2>2. CASE ~(rows < n)
    <3>1. Tiles(rows, n) = n /\ SmallerOf(n, r) = r
      BY <1>3, <2>2 DEF Tiles, SmallerOf
    <3> QED BY <1>3, <1>4, <3>1
  <2> QED BY <2>1, <2>2
<1>12. \A i \in 1 .. Tiles(rows, n) : TileCuts(rows, n, i - 1) < TileCuts(rows, n, i)
  <2> SUFFICES ASSUME NEW i \in 1 .. Tiles(rows, n)
               PROVE  TileCuts(rows, n, i - 1) < TileCuts(rows, n, i)
    OBVIOUS
  <2>1. i \in 1 .. n /\ i - 1 \in 0 .. n
    BY <1>10
  <2>2. 1 <= q + (IF i <= r THEN 1 ELSE 0)
    BY <1>3 DEF Tiles
  <2>3. TileCuts(rows, n, i - 1) \in Nat
    BY <1>6, <2>1
  <2>4. TileCuts(rows, n, i) = TileCuts(rows, n, i - 1) + (q + (IF i <= r THEN 1 ELSE 0))
    BY <1>1, <1>2, <1>8, <2>1
  <2> QED BY <2>2, <2>3, <2>4
<1> QED BY <1>6, <1>7, <1>8, <1>9, <1>10, <1>11, <1>12 DEF EvenCuts

\* NTILE numbers the tiles along these cuts: the only solution of its recursion.
LEMMA NtileIs ==
  ASSUME NEW S \in SUBSET Int, IsFiniteSet(S), NEW n \in Nat \ {0}
  PROVE  Ntile(S, n) = [i \in 1 .. Tiles(Cardinality(S), n) |->
                          Numbered(S, TileCuts(Cardinality(S), n, i - 1), TileCuts(Cardinality(S), n, i))]
<1>1. PICK rows \in Nat : rows = Cardinality(S)
  BY RankFacts
<1> DEFINE size(i) == rows \div n + (IF i <= rows % n THEN 1 ELSE 0)
           cut(i) == TileCuts(rows, n, i)
           eq(g) == [i \in 0 .. n |-> IF i = 0 THEN 0 ELSE g[i - 1] + size(i)]
           before == CHOOSE g : g = eq(g)
           all == [i \in 0 .. n |-> cut(i)]
<1>2. Ntile(S, n) = [i \in 1 .. Tiles(rows, n) |-> Numbered(S, before[i - 1], before[i])]
  BY <1>1 DEF Ntile, Tiles
<1>3. cut(0) = 0 /\ \A i \in 1 .. n : cut(i) = cut(i - 1) + size(i)
  BY TileCutsFacts DEF EvenCuts
<1>4. Tiles(rows, n) \in 0 .. n
  BY TileCutsFacts DEF EvenCuts
<1> HIDE DEF size, cut
<1>5. all = eq(all)
  <2>1. ASSUME NEW i \in 0 .. n PROVE cut(i) = IF i = 0 THEN 0 ELSE all[i - 1] + size(i)
    <3>1. CASE i = 0
      BY <1>3, <3>1
    <3>2. CASE i # 0
      <4>1. i \in 1 .. n /\ i - 1 \in 0 .. n
        BY <3>2
      <4> QED BY <1>3, <3>2, <4>1
    <3> QED BY <3>1, <3>2
  <2> QED BY <2>1
<1>6. before = eq(before)
  <2> HIDE DEF all, eq
  <2> QED BY <1>5
<1> HIDE DEF before
<1> DEFINE T == {i \in 0 .. n : before[i] # cut(i)}
<1>7. T = {}
  <2> SUFFICES ASSUME T # {} PROVE FALSE
    OBVIOUS
  <2>1. T \subseteq Nat
    OBVIOUS
  <2>2. PICK m \in T : \A k \in T : m <= k
    <3> HIDE DEF T
    <3> QED BY <2>1, LeastNat
  <2>3. m \in 0 .. n /\ before[m] # cut(m)
    OBVIOUS
  <2>4. before[m] = IF m = 0 THEN 0 ELSE before[m - 1] + size(m)
    BY <1>6, <2>3
  <2>5. m # 0
    BY <1>3, <2>3, <2>4
  <2>6. m \in 1 .. n /\ m - 1 \in 0 .. n
    BY <2>3, <2>5
  <2>7. m - 1 \notin T
    <3> SUFFICES ASSUME m - 1 \in T PROVE FALSE
      OBVIOUS
    <3>1. m <= m - 1
      <4> HIDE DEF T
      <4> QED BY <2>2
    <3> QED BY <2>6, <3>1
  <2>8. before[m - 1] = cut(m - 1)
    BY <2>6, <2>7
  <2> HIDE DEF T
  <2> QED BY <1>3, <2>3, <2>4, <2>5, <2>6, <2>8
<1>8. ASSUME NEW i \in 1 .. Tiles(rows, n)
      PROVE  Numbered(S, before[i - 1], before[i]) = Numbered(S, cut(i - 1), cut(i))
  <2>1. i \in 0 .. n /\ i - 1 \in 0 .. n
    BY <1>4
  <2>2. before[i] = cut(i) /\ before[i - 1] = cut(i - 1)
    BY <1>7, <2>1
  <2> QED BY <2>2
<1> HIDE DEF T
<1>9. [i \in 1 .. Tiles(rows, n) |-> Numbered(S, before[i - 1], before[i])]
        = [i \in 1 .. Tiles(rows, n) |-> Numbered(S, cut(i - 1), cut(i))]
  BY <1>8, Zenon
<1> QED BY <1>1, <1>2, <1>9 DEF cut

\* Each row of a table is in exactly one of the intervals that the tiles span.
TilePartitions(S, n) ==
  LET tiles == Ntile(S, n)
  IN [i \in DOMAIN tiles |->
        [minPK |-> LowestOf(tiles[i]), maxPK |-> HighestOf(tiles[i]),
         rowCount |-> Cardinality(tiles[i])]]

LEMMA TilesCover ==
  ASSUME NEW S \in SUBSET Int, IsFiniteSet(S), NEW n \in Nat \ {0}, NEW k \in S
  PROVE  Cardinality({i \in DOMAIN TilePartitions(S, n) :
                        TilePartitions(S, n)[i].minPK <= k /\ k <= TilePartitions(S, n)[i].maxPK}) = 1
<1>1. PICK rows \in Nat : rows = Cardinality(S)
  BY RankFacts
<1>2. PICK c : c = Tiles(rows, n)
  OBVIOUS
<1>3. PICK B : B = [i \in 0 .. n |-> TileCuts(rows, n, i)]
  OBVIOUS
<1>4. /\ \A i \in 0 .. n : B[i] \in Nat
      /\ B[0] = 0 /\ c \in 0 .. n /\ B[c] = rows
      /\ \A i, j \in 0 .. n : i <= j => B[i] <= B[j]
      /\ \A i \in 1 .. c : B[i - 1] < B[i]
  <2>1. EvenCuts(rows, n)
    BY TileCutsFacts
  <2>2. c \in 0 .. n
    BY <1>2, <2>1 DEF EvenCuts
  <2>3. 0 \in 0 .. n /\ \A i \in 1 .. c : i \in 0 .. n /\ i - 1 \in 0 .. n
    BY <2>2
  <2>4. \A i \in 0 .. n : B[i] = TileCuts(rows, n, i)
    BY <1>3
  <2>5. \A i \in 0 .. n : B[i] \in Nat
    BY <2>1, <2>4 DEF EvenCuts
  <2>6. B[0] = 0 /\ B[c] = rows
    BY <1>2, <2>1, <2>2, <2>3, <2>4 DEF EvenCuts
  <2>7. \A i, j \in 0 .. n : i <= j => B[i] <= B[j]
    BY <2>1, <2>4 DEF EvenCuts
  <2>8. \A i \in 1 .. c : B[i - 1] < B[i]
    BY <1>2, <2>1, <2>3, <2>4 DEF EvenCuts
  <2> QED BY <2>2, <2>5, <2>6, <2>7, <2>8
<1>5. Ntile(S, n) = [i \in 1 .. c |-> Numbered(S, B[i - 1], B[i])]
  <2>1. \A i \in 1 .. c : B[i] = TileCuts(rows, n, i) /\ B[i - 1] = TileCuts(rows, n, i - 1)
    <3>1. \A i \in 1 .. c : i \in 0 .. n /\ i - 1 \in 0 .. n
      BY <1>4
    <3> QED BY <1>3, <3>1
  <2>2. Ntile(S, n) = [i \in 1 .. c |->
                         Numbered(S, TileCuts(rows, n, i - 1), TileCuts(rows, n, i))]
    BY <1>1, <1>2, NtileIs
  <2>3. \A i \in 1 .. c : Numbered(S, TileCuts(rows, n, i - 1), TileCuts(rows, n, i))
                            = Numbered(S, B[i - 1], B[i])
    BY <2>1
  <2> QED BY <2>2, <2>3, Zenon
<1>6. /\ \A j \in S : Rank(S, j) \in 1 .. rows /\ j \in Int
      /\ \A i, j \in S : i <= j => Rank(S, i) <= Rank(S, j)
  <2>1. \A j \in S : j \in Int
    OBVIOUS
  <2> QED BY <1>1, <2>1, RankFacts
<1>7. DOMAIN TilePartitions(S, n) = 1 .. c
  BY <1>5 DEF TilePartitions
<1>8. ASSUME NEW i \in 1 .. c
      PROVE  TilePartitions(S, n)[i].minPK <= k /\ k <= TilePartitions(S, n)[i].maxPK
               <=> B[i - 1] < Rank(S, k) /\ Rank(S, k) <= B[i]
  <2> DEFINE tile == Numbered(S, B[i - 1], B[i])
             lo == LowestOf(tile)
             hi == HighestOf(tile)
  <2>1. i \in 0 .. n /\ i - 1 \in 0 .. n /\ c \in 0 .. n /\ i <= c
    BY <1>4
  <2>2. B[i - 1] \in Nat /\ B[i] \in Nat /\ B[i - 1] < B[i] /\ B[i] <= rows
    BY <1>4, <2>1
  <2>3. tile \in SUBSET S /\ IsFiniteSet(tile)
    BY <2>2, SortedNumbered
  <2>4. \A j \in S : j \in tile <=> B[i - 1] < Rank(S, j) /\ Rank(S, j) <= B[i]
    BY DEF Numbered, Rank
  <2>5. tile # {}
    <3>1. B[i] \in 1 .. Cardinality(S)
      BY <1>1, <2>2
    <3>2. PICK j \in S : Rank(S, j) = B[i]
      BY <3>1, RankOnto
    <3>3. j \in tile
      BY <2>2, <2>4, <3>2
    <3> QED BY <3>3
  <2>6. tile \in SUBSET Int
    BY <2>3
  <2> HIDE DEF tile
  <2>7. lo \in tile /\ hi \in tile /\ \A j \in tile : lo <= j /\ j <= hi
    BY <2>3, <2>5, <2>6, Extremes
  <2>8. TilePartitions(S, n)[i].minPK = lo /\ TilePartitions(S, n)[i].maxPK = hi
    BY <1>5 DEF TilePartitions, tile
  <2>9. lo \in S /\ hi \in S
    BY <2>3, <2>7
  <2> HIDE DEF lo, hi
  <2>10. lo <= k /\ k <= hi <=> k \in tile
    <3>1. k \in tile => lo <= k /\ k <= hi
      BY <2>7
    <3>2. lo <= k => Rank(S, lo) <= Rank(S, k)
      BY <1>6, <2>9
    <3>3. k <= hi => Rank(S, k) <= Rank(S, hi)
      BY <1>6, <2>9
    <3>4. B[i - 1] < Rank(S, lo) /\ Rank(S, hi) <= B[i]
      BY <2>4, <2>7, <2>9
    <3>5. Rank(S, lo) \in Nat /\ Rank(S, hi) \in Nat /\ Rank(S, k) \in Nat
      BY <1>6, <2>9
    <3> QED BY <2>2, <2>4, <3>1, <3>2, <3>3, <3>4, <3>5
  <2> QED BY <2>4, <2>8, <2>10
<1>9. {i \in DOMAIN TilePartitions(S, n) :
         TilePartitions(S, n)[i].minPK <= k /\ k <= TilePartitions(S, n)[i].maxPK}
        = {i \in 1 .. c : B[i - 1] < Rank(S, k) /\ Rank(S, k) <= B[i]}
  BY <1>7, <1>8
<1>10. Cardinality({i \in 1 .. c : B[i - 1] < Rank(S, k) /\ Rank(S, k) <= B[i]}) = 1
  <2>1. PICK m : m = Rank(S, k)
    OBVIOUS
  <2>2. c \in Nat /\ \A i \in 0 .. c : B[i] \in Int
    BY <1>4
  <2>3. \A i, j \in 0 .. c : i <= j => B[i] <= B[j]
    BY <1>4
  <2>4. m \in 1 .. B[c] /\ B[0] = 0
    BY <1>4, <1>6, <2>1
  <2>5. Cardinality({i \in 1 .. c : B[i - 1] < m /\ m <= B[i]}) = 1
    BY <2>2, <2>3, <2>4, OnePiece
  <2> QED BY <2>1, <2>5
<1> QED BY <1>9, <1>10

LEMMA PGPartitions ==
  ASSUME NEW table, NEW n
  PROVE  PG!GetPartitionBoundaries(table, n) = TilePartitions(table.keys, n)
<1>1. \A S : PG!Ntile(S, n) = Ntile(S, n)
  BY DEF PG!Ntile, Ntile, PG!Numbered, Numbered, PG!Cardinality, Cardinality
<1>2. \A S : PG!LowestOf(S) = LowestOf(S) /\ PG!HighestOf(S) = HighestOf(S)
  BY DEF PG!LowestOf, LowestOf, PG!HighestOf, HighestOf
<1> QED
  BY DEF PG!GetPartitionBoundaries, TilePartitions, PG!Ntile, Ntile, PG!Numbered, Numbered,
         PG!Cardinality, Cardinality, PG!LowestOf, LowestOf,
         PG!HighestOf, HighestOf

LEMMA MYPartitions ==
  ASSUME NEW table, NEW n
  PROVE  MY!GetPartitionBoundaries(table, n) = TilePartitions(table.keys, n)
<1>1. \A S : MY!Ntile(S, n) = Ntile(S, n)
  BY DEF MY!Ntile, Ntile, MY!Numbered, Numbered, MY!Cardinality, Cardinality
<1>2. \A S : MY!LowestOf(S) = LowestOf(S) /\ MY!HighestOf(S) = HighestOf(S)
  BY DEF MY!LowestOf, LowestOf, MY!HighestOf, HighestOf
<1> QED
  BY DEF MY!GetPartitionBoundaries, TilePartitions, MY!Ntile, Ntile, MY!Numbered, Numbered,
         MY!Cardinality, Cardinality, MY!LowestOf, LowestOf,
         MY!HighestOf, HighestOf

LEMMA ORAPartitions ==
  ASSUME NEW table, NEW n
  PROVE  ORA!GetPartitionBoundaries(table, n) = TilePartitions(table.keys, n)
<1>1. \A S : ORA!Ntile(S, n) = Ntile(S, n)
  BY DEF ORA!Ntile, Ntile, ORA!Numbered, Numbered, ORA!Cardinality, Cardinality
<1>2. \A S : ORA!LowestOf(S) = LowestOf(S) /\ ORA!HighestOf(S) = HighestOf(S)
  BY DEF ORA!LowestOf, LowestOf, ORA!HighestOf, HighestOf
<1> QED
  BY DEF ORA!GetPartitionBoundaries, TilePartitions, ORA!Ntile, Ntile, ORA!Numbered, Numbered,
         ORA!Cardinality, Cardinality, ORA!LowestOf, LowestOf,
         ORA!HighestOf, HighestOf

\* Each row of a table is in exactly one of the equal ranges of the SQL Server driver,
\* be they as narrow as the division of the keys allows, or empty.
LEMMA RangesCover ==
  ASSUME NEW table, table.keys \in SUBSET Int, IsFiniteSet(table.keys), NEW n \in Nat \ {0},
         NEW k \in table.keys, NEW ps, ps = MS!GetPartitionBoundaries(table, n, 0)
  PROVE  Cardinality({i \in DOMAIN ps : ps[i].minPK <= k /\ k <= ps[i].maxPK}) = 1
<1>1. PICK lo : lo = LowestOf(table.keys)
  OBVIOUS
<1>2. PICK hi : hi = HighestOf(table.keys)
  OBVIOUS
<1>3. lo \in Int /\ hi \in Int /\ k \in Int /\ lo <= k /\ k <= hi
  <2>1. table.keys # {} /\ \A j \in table.keys : j \in Int
    OBVIOUS
  <2> QED BY <1>1, <1>2, <2>1, Extremes
<1>4. PICK size \in Nat : size = (hi - lo + 1) \div n /\ n * size <= hi - lo + 1
  <2>1. PICK a \in Nat : a = hi - lo + 1
    BY <1>3
  <2>2. a \div n \in Nat /\ a % n \in Nat /\ n * (a \div n) + (a % n) = a
    BY QuotientFacts
  <2>3. PICK q \in Nat : q = a \div n
    BY <2>2
  <2>4. n * q <= a
    <3>1. n * q \in Nat
      OBVIOUS
    <3> QED BY <2>2, <2>3, <3>1
  <2> QED BY <2>1, <2>3, <2>4
<1>5. /\ DOMAIN ps = 1 .. n
      /\ \A i \in 1 .. n : /\ ps[i].minPK = lo + (i - 1) * size
                           /\ ps[i].maxPK = IF i = n THEN hi ELSE lo + i * size - 1
  <2>1. MS!LowestOf(table.keys) = lo /\ MS!HighestOf(table.keys) = hi
    BY <1>1, <1>2 DEF MS!LowestOf, LowestOf, MS!HighestOf, HighestOf
  <2>2. ps = [i \in 1 .. n |-> [minPK |-> lo + (i - 1) * size,
                                maxPK |-> IF i = n THEN hi ELSE lo + i * size - 1,
                                rowCount |-> (hi - lo + 1) \div n]]
    BY <1>4, <2>1 DEF MS!GetPartitionBoundaries
  <2> QED BY <2>2
<1> DEFINE B == [i \in 0 .. n |-> IF i = n THEN hi - lo + 1 ELSE i * size]
<1>6. \A i \in 0 .. n : i * size \in Nat /\ (i # n => i * size <= hi - lo + 1)
  <2> SUFFICES ASSUME NEW i \in 0 .. n
               PROVE  i * size \in Nat /\ (i # n => i * size <= hi - lo + 1)
    OBVIOUS
  <2>1. i * size \in Nat /\ i * size <= n * size
    BY TimesMonotone
  <2>2. n * size \in Nat
    OBVIOUS
  <2> QED BY <1>3, <1>4, <2>1, <2>2
<1>7. \A i \in 0 .. n : B[i] \in Int
  BY <1>3, <1>6
<1>8. B[0] = 0 /\ B[n] = hi - lo + 1
  BY <1>3
<1>9. \A i, j \in 0 .. n : i <= j => B[i] <= B[j]
  <2> SUFFICES ASSUME NEW i \in 0 .. n, NEW j \in 0 .. n, i <= j PROVE B[i] <= B[j]
    OBVIOUS
  <2>1. i * size <= j * size
    BY TimesMonotone
  <2>2. i # n => i * size <= hi - lo + 1
    BY <1>6
  <2>3. i = n => j = n
    OBVIOUS
  <2> QED BY <1>3, <1>6, <2>1, <2>2, <2>3
<1>10. ASSUME NEW i \in 1 .. n
       PROVE  ps[i].minPK <= k /\ k <= ps[i].maxPK <=> B[i - 1] < k - lo + 1 /\ k - lo + 1 <= B[i]
  <2>1. i - 1 \in 0 .. n /\ i - 1 # n /\ i \in 0 .. n
    OBVIOUS
  <2>2. B[i - 1] = (i - 1) * size /\ B[i] = IF i = n THEN hi - lo + 1 ELSE i * size
    BY <2>1
  <2>3. (i - 1) * size \in Nat /\ i * size \in Nat
    BY <1>6, <2>1
  <2>4. PICK a \in Nat : a = (i - 1) * size
    BY <2>3
  <2>5. PICK b \in Nat : b = i * size
    BY <2>3
  <2> HIDE DEF B
  <2>6. ps[i].minPK = lo + a /\ ps[i].maxPK = IF i = n THEN hi ELSE lo + b - 1
    BY <1>5, <2>4, <2>5
  <2> QED BY <1>3, <2>2, <2>4, <2>5, <2>6
<1>11. {i \in DOMAIN ps : ps[i].minPK <= k /\ k <= ps[i].maxPK}
         = {i \in 1 .. n : B[i - 1] < k - lo + 1 /\ k - lo + 1 <= B[i]}
  <2> HIDE DEF B
  <2> QED BY <1>5, <1>10
<1>12. Cardinality({i \in 1 .. n : B[i - 1] < k - lo + 1 /\ k - lo + 1 <= B[i]}) = 1
  <2>1. PICK m : m = k - lo + 1
    OBVIOUS
  <2>2. m \in 1 .. B[n]
    BY <1>3, <1>8, <2>1
  <2> HIDE DEF B
  <2>3. Cardinality({i \in 1 .. n : B[i - 1] < m /\ m <= B[i]}) = 1
    BY <1>7, <1>8, <1>9, <2>2, OnePiece
  <2> QED BY <2>1, <2>3
<1> QED BY <1>11, <1>12

LEMMA PartitionsStep == ReadsInit => PartitionsCoverTable
<1> SUFFICES ASSUME ReadsInit, input.of = "partition" PROVE PartitionsCoverTable
  BY DEF PartitionsCoverTable
<1>1. PICK keys \in SUBSET (1 .. 2 * MaxKey) \ {{}}, n \in 1 .. MaxReaders :
        input = [of |-> "partition", table |-> TableOf(keys, {}), n |-> n]
  BY DEF ReadsInit
<1>2. input.table.keys = keys /\ input.n = n
  BY <1>1 DEF TableOf
<1>3. keys \in SUBSET Int /\ IsFiniteSet(keys) /\ n \in Nat \ {0}
  <2>1. 2 * MaxKey \in Nat /\ MaxReaders \in Nat
    BY InputsAssumption
  <2>2. IsFiniteSet(1 .. 2 * MaxKey)
    BY <2>1, FS_Interval
  <2>3. keys \in SUBSET (1 .. 2 * MaxKey)
    OBVIOUS
  <2>4. IsFiniteSet(keys)
    BY <2>2, <2>3, FS_Subset
  <2> QED BY <2>1, <2>3, <2>4
<1> SUFFICES ASSUME NEW ps \in {PG!GetPartitionBoundaries(input.table, input.n),
                                MY!GetPartitionBoundaries(input.table, input.n),
                                MS!GetPartitionBoundaries(input.table, input.n, 0),
                                ORA!GetPartitionBoundaries(input.table, input.n)},
                    NEW k \in input.table.keys
             PROVE  Cardinality({i \in DOMAIN ps : ps[i].minPK <= k /\ k <= ps[i].maxPK}) = 1
  BY DEF PartitionsCoverTable
<1>4. CASE ps = MS!GetPartitionBoundaries(input.table, input.n, 0)
  <2>1. input.table.keys \in SUBSET Int /\ IsFiniteSet(input.table.keys) /\ input.n \in Nat \ {0}
    BY <1>2, <1>3
  <2> QED BY <1>4, <2>1, RangesCover
<1>5. CASE ps # MS!GetPartitionBoundaries(input.table, input.n, 0)
  <2>1. ps = TilePartitions(keys, n)
    BY <1>2, <1>5, PGPartitions, MYPartitions, ORAPartitions
  <2>2. Cardinality({i \in DOMAIN TilePartitions(keys, n) :
          TilePartitions(keys, n)[i].minPK <= k /\ k <= TilePartitions(keys, n)[i].maxPK}) = 1
    BY <1>2, <1>3, TilesCover
  <2> QED BY <2>1, <2>2
<1> QED BY <1>4, <1>5

\* For all tables, and be there more partitions than rows, the boundaries that each driver's
\* GetPartitionBoundaries returns put each row into exactly one partition.
THEOREM PartitionsCoverTheTable == ReadsSpec => []PartitionsCoverTable
<1>1. ReadsInit /\ [ReadsNext]_input => ReadsInit'
  BY DEF ReadsNext, ReadsInit
<1> QED BY <1>1, PartitionsStep, PTL DEF ReadsSpec

-----------------------------------------------------------------------------
(* The ranges of a split. *)

\* Wrapping gives an int64, and leaves an int64 alone.
LEMMA WrapInt64 ==
  ASSUME NEW x \in Int
  PROVE  /\ Wrap(x) \in Int64
         /\ x \in Int64 => Wrap(x) = x
<1> DEFINE W == 2 * HalfWidth
<1>1. W \in Nat \ {0} /\ x + HalfWidth \in Int
  BY HalfWidthAssumption
<1>2. (x + HalfWidth) % W \in 0 .. W - 1
  BY <1>1
<1>3. x + HalfWidth \in 0 .. W - 1 => (x + HalfWidth) % W = x + HalfWidth
  BY <1>1
<1> QED BY <1>1, <1>2, <1>3, HalfWidthAssumption DEF Wrap, Int64

\* The ranges of a split fit: their number times their size is at most the total.
LEMMA SplitFits ==
  ASSUME NEW total \in Nat \ {0}, NEW n \in Nat \ {0}
  PROVE  /\ RangeSize(total, n) \in Nat \ {0}
         /\ RangeCount(total, n) \in 1 .. n
         /\ RangeCount(total, n) * RangeSize(total, n) <= total
<1>1. /\ total \div n \in Nat
      /\ n * (total \div n) <= total /\ total < n * (total \div n) + n
  BY DivBounds
<1>2. CASE total \div n < 1
  <2>1. total < n
    BY <1>1, <1>2
  <2> QED BY <1>2, <2>1 DEF RangeSize, RangeCount
<1>3. CASE ~(total \div n < 1)
  BY <1>1, <1>3 DEF RangeSize, RangeCount
<1> QED BY <1>2, <1>3

(***************************************************************************)
(* A split of an integer range: consecutive ranges from the key before the *)
(* smallest one up to the largest one.  The exception is a range of one    *)
(* key with several readers, which starts at that key and so leaves it     *)
(* out.                                                                    *)
(***************************************************************************)
LEMMA SplitConsecutive ==
  ASSUME NEW minPK \in PKValue, NEW maxPK \in PKValue, NEW n \in Nat \ {0},
         minPK.isInt, maxPK.isInt, minPK.val - 1 \in Int64,
         minPK.val <= maxPK.val, maxPK.val - minPK.val < HalfWidth,
         n = 1 \/ minPK.val < maxPK.val
  PROVE  /\ SplitPKRange(minPK, maxPK, n) \in Seq(PKRangeRec)
         /\ Len(SplitPKRange(minPK, maxPK, n)) <= n
         /\ Consecutive(SplitPKRange(minPK, maxPK, n), minPK.val - 1, maxPK.val)
<1> DEFINE lo == minPK.val
           hi == maxPK.val
           total == hi - lo
           split == SplitPKRange(minPK, maxPK, n)
<1>1. lo \in Int64 /\ hi \in Int64 /\ lo \in Int /\ hi \in Int
  BY HalfWidthAssumption DEF PKValue, Int64
<1>2. total \in Int64 /\ total \in Nat /\ TotalRange(minPK, maxPK) = total
  BY <1>1, WrapInt64, HalfWidthAssumption DEF TotalRange, Int64
<1>3. Wrap(lo - 1) = lo - 1
  BY <1>1, WrapInt64
<1>4. CASE n = 1
  <2>1. split = << [minPK |-> lo - 1, maxPK |-> hi] >>
    BY <1>3, <1>4 DEF SplitPKRange, DecrementPK
  <2>2. [minPK |-> lo - 1, maxPK |-> hi] \in PKRangeRec
    BY <1>1 DEF PKRangeRec
  <2> HIDE DEF split
  <2>3. split \in Seq(PKRangeRec) /\ Len(split) = 1 /\ split[1] = [minPK |-> lo - 1, maxPK |-> hi]
    BY <2>1, <2>2
  <2> QED BY <1>1, <1>4, <2>3 DEF Consecutive, split
<1>5. CASE n > 1
  <2> DEFINE k == RangeCount(total, n)
             size == RangeSize(total, n)
             Nth(i) == NthRange(lo, hi, size, k, i)
  <2>1. total \in Nat \ {0}
    BY <1>1, <1>2, <1>5
  <2>2. k \in 1 .. n /\ size \in Nat \ {0} /\ k * size <= total
    BY <2>1, SplitFits
  <2>3. split = [i \in 1 .. k |-> Nth(i)]
    BY <1>2, <1>5, <2>1 DEF SplitPKRange
  <2> HIDE DEF split, k, size
  <2>4. \A i \in 0 .. k : /\ lo + i * size \in Int64 /\ Wrap(lo + i * size) = lo + i * size
                          /\ lo <= lo + i * size /\ lo + i * size <= hi
    <3> SUFFICES ASSUME NEW i \in 0 .. k
                 PROVE  /\ lo + i * size \in Int64 /\ Wrap(lo + i * size) = lo + i * size
                        /\ lo <= lo + i * size /\ lo + i * size <= hi
      OBVIOUS
    <3>1. i * size \in Nat /\ i * size <= k * size
      BY <2>2, TimesMonotone
    <3>2. lo <= lo + i * size /\ lo + i * size <= hi /\ lo + i * size \in Int
      BY <3>1, <2>2, <1>1
    <3>3. lo + i * size \in Int64
      BY <3>2, <1>1, HalfWidthAssumption DEF Int64
    <3> QED BY <3>2, <3>3, WrapInt64
  <2>5. \A i \in 1 .. k :
          /\ Nth(i).minPK = IF i = 1 THEN lo - 1 ELSE lo + (i - 1) * size
          /\ Nth(i).maxPK = IF i = k THEN hi ELSE lo + i * size
    <3> SUFFICES ASSUME NEW i \in 1 .. k
                 PROVE  /\ Nth(i).minPK = IF i = 1 THEN lo - 1 ELSE lo + (i - 1) * size
                        /\ Nth(i).maxPK = IF i = k THEN hi ELSE lo + i * size
      OBVIOUS
    <3>1. i \in 0 .. k /\ i - 1 \in 0 .. k
      BY <2>2
    <3>2. Wrap(lo + i * size) = lo + i * size /\ Wrap(lo + (i - 1) * size) = lo + (i - 1) * size
      BY <3>1, <2>4
    <3> QED BY <3>2, <1>3 DEF NthRange
  <2>6. \A i \in 1 .. k : Nth(i) \in PKRangeRec
    <3> SUFFICES ASSUME NEW i \in 1 .. k PROVE Nth(i) \in PKRangeRec
      OBVIOUS
    <3>1. i \in 0 .. k /\ i - 1 \in 0 .. k
      BY <2>2
    <3>2. lo + i * size \in Int64 /\ lo + (i - 1) * size \in Int64
      BY <3>1, <2>4
    <3>3. Nth(i).minPK \in Int64 /\ Nth(i).maxPK \in Int64
      BY <2>5, <3>2, <1>1
    <3> QED BY <3>3 DEF NthRange, PKRangeRec
  <2>7. split \in Seq(PKRangeRec) /\ Len(split) = k /\ \A i \in 1 .. k : split[i] = Nth(i)
    BY <2>2, <2>3, <2>6
  <2>8. \A i \in 1 .. k : Nth(i).minPK <= Nth(i).maxPK
    <3> SUFFICES ASSUME NEW i \in 1 .. k PROVE Nth(i).minPK <= Nth(i).maxPK
      OBVIOUS
    <3>1. i \in 0 .. k /\ i - 1 \in 0 .. k /\ i - 1 <= i
      BY <2>2
    <3>2. (i - 1) * size <= i * size /\ (i - 1) * size \in Int /\ i * size \in Int
      BY <3>1, <2>2, TimesMonotone
    <3>3. lo + (i - 1) * size <= hi /\ lo <= lo + i * size
      BY <3>1, <2>4
    <3> QED BY <2>5, <3>2, <3>3, <1>1
  <2>9. \A i \in 1 .. k - 1 : Nth(i + 1).minPK = Nth(i).maxPK
    <3> SUFFICES ASSUME NEW i \in 1 .. k - 1 PROVE Nth(i + 1).minPK = Nth(i).maxPK
      OBVIOUS
    <3>1. i \in 1 .. k /\ i + 1 \in 1 .. k /\ i # k /\ i + 1 # 1 /\ (i + 1) - 1 = i
      BY <2>2
    <3> QED BY <2>5, <3>1
  <2>10. Nth(1).minPK = lo - 1 /\ Nth(k).maxPK = hi
    BY <2>2, <2>5
  <2> HIDE DEF Nth
  <2>11. Consecutive(split, lo - 1, hi)
    BY <2>2, <2>7, <2>8, <2>9, <2>10 DEF Consecutive
  <2> QED BY <2>2, <2>7, <2>11 DEF split
<1> QED BY <1>4, <1>5

\* A key that is not an integer cannot be split, and is not decremented: one
\* reader starts after it.
LEMMA SplitOther ==
  ASSUME NEW minPK \in PKValue, NEW maxPK \in PKValue, NEW n \in Nat \ {0},
         ~minPK.isInt
  PROVE  SplitPKRange(minPK, maxPK, n) = << [minPK |-> minPK.val, maxPK |-> maxPK.val] >>
BY DEF SplitPKRange, DecrementPK

\* With several readers a single key is not split either, nor decremented.
LEMMA SplitSingle ==
  ASSUME NEW minPK \in PKValue, NEW maxPK \in PKValue, NEW n \in Nat \ {0}, n > 1,
         minPK.isInt, minPK.val = maxPK.val
  PROVE  SplitPKRange(minPK, maxPK, n) = << [minPK |-> minPK.val, maxPK |-> maxPK.val] >>
<1>1. minPK.val \in Int /\ maxPK.val \in Int /\ 0 \in Int64
  BY HalfWidthAssumption DEF PKValue, Int64
<1>2. TotalRange(minPK, maxPK) = 0
  BY <1>1, WrapInt64 DEF TotalRange
<1> QED BY <1>2 DEF SplitPKRange

\* What never decreases from one index to the next never decreases.
LEMMA StepwiseMonotone ==
  ASSUME NEW n \in Nat, NEW f, \A k \in 0 .. n : f[k] \in Int,
         \A k \in 1 .. n : f[k - 1] <= f[k]
  PROVE  \A i, j \in 0 .. n : i <= j => f[i] <= f[j]
<1> SUFFICES ASSUME NEW i \in 0 .. n
             PROVE  \A j \in i .. n : f[i] <= f[j]
  OBVIOUS
<1> DEFINE T == {j \in i .. n : ~(f[i] <= f[j])}
<1>1. CASE T = {}
  BY <1>1
<1>2. CASE T # {}
  <2>1. T \subseteq Nat
    OBVIOUS
  <2>2. PICK m \in T : \A k \in T : m <= k
    BY <1>2, <2>1, LeastNat
  <2>3. m # i /\ m \in i .. n
    BY <2>2
  <2>4. m - 1 \in i .. n /\ m - 1 \notin T /\ m \in 1 .. n
    BY <2>2, <2>3
  <2>5. f[i] <= f[m - 1] /\ f[m - 1] <= f[m]
    BY <2>4
  <2> QED BY <2>2, <2>4, <2>5
<1> QED BY <1>1, <1>2

\* Consecutive ranges lie between their bounds, each after those before it.
LEMMA ConsecutiveOrdered ==
  ASSUME NEW rs \in Seq(PKRangeRec), NEW lo, NEW hi, Consecutive(rs, lo, hi)
  PROVE  /\ \A r \in 1 .. Len(rs) : lo <= rs[r].minPK /\ rs[r].maxPK <= hi
         /\ \A i, j \in 1 .. Len(rs) : i < j =>
              rs[i].minPK <= rs[i].maxPK /\ rs[i].maxPK <= rs[j].minPK
<1> DEFINE n == Len(rs)
           f == [k \in 0 .. n |-> IF k = 0 THEN lo ELSE rs[k].maxPK]
<1>1. n \in Nat \ {0} /\ rs[1].minPK = lo /\ rs[n].maxPK = hi
  BY DEF Consecutive
<1>2. \A k \in 1 .. n : rs[k].minPK \in Int /\ rs[k].maxPK \in Int
  <2>1. \A k \in 1 .. n : rs[k] \in PKRangeRec
    OBVIOUS
  <2> QED BY <2>1, HalfWidthAssumption DEF PKRangeRec, Int64
<1>3. \A k \in 1 .. n : rs[k].minPK = f[k - 1] /\ rs[k].maxPK = f[k] /\ f[k - 1] <= f[k]
  <2> SUFFICES ASSUME NEW k \in 1 .. n
               PROVE  rs[k].minPK = f[k - 1] /\ rs[k].maxPK = f[k] /\ f[k - 1] <= f[k]
    OBVIOUS
  <2>1. rs[k].minPK <= rs[k].maxPK /\ rs[k].maxPK = f[k]
    BY <1>1 DEF Consecutive
  <2>2. CASE k = 1
    BY <1>1, <2>1, <2>2
  <2>3. CASE k # 1
    <3>1. k - 1 \in 1 .. n - 1 /\ k - 1 \in 0 .. n /\ k - 1 # 0 /\ (k - 1) + 1 = k
      BY <1>1, <2>3
    <3>2. rs[(k - 1) + 1].minPK = rs[k - 1].maxPK
      BY <3>1 DEF Consecutive
    <3>3. f[k - 1] = rs[k - 1].maxPK
      BY <3>1
    <3> QED BY <2>1, <3>1, <3>2, <3>3
  <2> QED BY <2>2, <2>3
<1>4. \A k \in 0 .. n : f[k] \in Int
  BY <1>1, <1>2
<1> HIDE DEF f
<1>5. \A i, j \in 0 .. n : i <= j => f[i] <= f[j]
  BY <1>1, <1>3, <1>4, StepwiseMonotone
<1>6. f[0] = lo /\ f[n] = hi
  BY <1>1, <1>3 DEF f
<1>7. ASSUME NEW r \in 1 .. n PROVE lo <= rs[r].minPK /\ rs[r].maxPK <= hi
  <2>1. f[0] <= f[r - 1] /\ f[r] <= f[n]
    BY <1>1, <1>5
  <2> QED BY <1>3, <1>6, <2>1
<1>8. ASSUME NEW i \in 1 .. n, NEW j \in 1 .. n, i < j
      PROVE  rs[i].minPK <= rs[i].maxPK /\ rs[i].maxPK <= rs[j].minPK
  <2>1. i \in 0 .. n /\ j - 1 \in 0 .. n /\ i <= j - 1
    BY <1>1, <1>8
  <2>2. f[i] <= f[j - 1]
    BY <1>5, <2>1
  <2> QED BY <1>3, <2>2
<1> QED BY <1>7, <1>8

\* Consecutive ranges are read by one reader each: a key between their bounds is in one of
\* them, and another key in none.
LEMMA ReadOnce ==
  ASSUME NEW rs \in Seq(PKRangeRec), NEW lo \in Int, NEW hi \in Int, Consecutive(rs, lo, hi),
         NEW p \in Int
  PROVE  Cardinality({i \in 1 .. Len(rs) : rs[i].minPK < p /\ p <= rs[i].maxPK})
           = IF lo < p /\ p <= hi THEN 1 ELSE 0
<1> DEFINE n == Len(rs)
           B == [k \in 0 .. n |-> IF k = 0 THEN 0 ELSE rs[k].maxPK - lo]
<1>1. n \in Nat \ {0} /\ rs[1].minPK = lo /\ rs[n].maxPK = hi
  BY DEF Consecutive
<1>2. \A k \in 1 .. n : rs[k].minPK \in Int /\ rs[k].maxPK \in Int
  <2>1. \A k \in 1 .. n : rs[k] \in PKRangeRec
    OBVIOUS
  <2> QED BY <2>1, HalfWidthAssumption DEF PKRangeRec, Int64
<1>3. /\ \A r \in 1 .. n : lo <= rs[r].minPK /\ rs[r].maxPK <= hi
      /\ \A i, j \in 1 .. n : i < j =>
           rs[i].minPK <= rs[i].maxPK /\ rs[i].maxPK <= rs[j].minPK
  BY ConsecutiveOrdered
<1>4. CASE ~(lo < p /\ p <= hi)
  <2>1. \A i \in 1 .. n : ~(rs[i].minPK < p /\ p <= rs[i].maxPK)
    BY <1>2, <1>3, <1>4
  <2>2. {i \in 1 .. n : rs[i].minPK < p /\ p <= rs[i].maxPK} = {}
    BY <2>1
  <2> QED BY <1>4, <2>2, FS_EmptySet
<1>5. CASE lo < p /\ p <= hi
  <2>1. \A k \in 1 .. n : rs[k].maxPK - lo = B[k] /\ rs[k].minPK - lo = B[k - 1] /\ B[k - 1] <= B[k]
    <3> SUFFICES ASSUME NEW k \in 1 .. n
                 PROVE  /\ rs[k].maxPK - lo = B[k] /\ rs[k].minPK - lo = B[k - 1]
                        /\ B[k - 1] <= B[k]
      OBVIOUS
    <3>1. rs[k].minPK <= rs[k].maxPK /\ rs[k].maxPK - lo = B[k]
      BY <1>1 DEF Consecutive
    <3>2. CASE k = 1
      BY <1>1, <1>2, <3>1, <3>2
    <3>3. CASE k # 1
      <4>1. k - 1 \in 1 .. n - 1 /\ k - 1 \in 0 .. n /\ k - 1 # 0 /\ (k - 1) + 1 = k
        BY <1>1, <3>3
      <4>2. rs[(k - 1) + 1].minPK = rs[k - 1].maxPK
        BY <4>1 DEF Consecutive
      <4>3. B[k - 1] = rs[k - 1].maxPK - lo
        BY <4>1
      <4>4. k - 1 \in 1 .. n
        BY <4>1
      <4> HIDE DEF B
      <4> QED BY <1>2, <3>1, <4>1, <4>2, <4>3, <4>4
    <3> QED BY <3>2, <3>3
  <2>2. \A k \in 0 .. n : B[k] \in Int
    BY <1>1, <1>2
  <2>3. B[0] = 0 /\ B[n] = hi - lo
    BY <1>1
  <2> HIDE DEF B
  <2>4. \A i, j \in 0 .. n : i <= j => B[i] <= B[j]
    <3>1. \A k \in 1 .. n : B[k - 1] <= B[k]
      BY <2>1
    <3> QED BY <1>1, <2>2, <3>1, StepwiseMonotone
  <2>5. PICK m : m = p - lo
    OBVIOUS
  <2>6. m \in 1 .. B[n]
    BY <1>5, <2>3, <2>5
  <2>7. Cardinality({i \in 1 .. n : B[i - 1] < m /\ m <= B[i]}) = 1
    BY <1>1, <2>2, <2>3, <2>4, <2>6, OnePiece
  <2>8. \A i \in 1 .. n : rs[i].minPK < p /\ p <= rs[i].maxPK <=> B[i - 1] < m /\ m <= B[i]
    <3> SUFFICES ASSUME NEW i \in 1 .. n
                 PROVE  rs[i].minPK < p /\ p <= rs[i].maxPK <=> B[i - 1] < m /\ m <= B[i]
      OBVIOUS
    <3>1. rs[i].maxPK - lo = B[i] /\ rs[i].minPK - lo = B[i - 1]
      BY <2>1
    <3> QED BY <1>2, <2>5, <3>1
  <2>9. {i \in 1 .. n : rs[i].minPK < p /\ p <= rs[i].maxPK}
          = {i \in 1 .. n : B[i - 1] < m /\ m <= B[i]}
    BY <2>8
  <2> QED BY <1>5, <2>7, <2>9
<1> QED BY <1>4, <1>5

LEMMA EachKeyStep == ReadsInit => EachKeyReadOnce
<1> SUFFICES ASSUME ReadsInit, input.of = "split", NoOverflow, input.maxPK.isInt,
                    input.n > 1 => input.minPK.val < input.maxPK.val,
                    NEW p \in Int64
             PROVE  Readings(p) = IF p \in ToRead THEN 1 ELSE 0
  BY DEF EachKeyReadOnce
<1>1. PICK minPK \in PKValue, maxPK \in PKValue, n \in 1 .. MaxReaders :
        minPK.val <= maxPK.val /\ input = [of |-> "split", minPK |-> minPK, maxPK |-> maxPK, n |-> n]
  BY DEF ReadsInit
<1>2. input.minPK = minPK /\ input.maxPK = maxPK /\ input.n = n
  BY <1>1
<1>3. /\ minPK.val \in Int /\ maxPK.val \in Int /\ p \in Int /\ n \in Nat \ {0}
      /\ minPK.val \in Int64 /\ maxPK.val \in Int64
  BY HalfWidthAssumption, InputsAssumption DEF PKValue, Int64
<1>4. /\ minPK.val > -HalfWidth /\ maxPK.val - minPK.val < HalfWidth /\ maxPK.isInt
      /\ n > 1 => minPK.val < maxPK.val
  BY <1>2 DEF NoOverflow
<1>5. PICK rs : rs = SplitPKRange(minPK, maxPK, n)
  OBVIOUS
<1>6. PICK lo \in Int : lo = IF minPK.isInt THEN minPK.val - 1 ELSE minPK.val
  BY <1>3
<1>7. rs \in Seq(PKRangeRec) /\ Consecutive(rs, lo, maxPK.val)
  <2>1. CASE minPK.isInt
    <3>1. minPK.val - 1 \in Int64
      BY <1>3, <1>4, HalfWidthAssumption DEF Int64
    <3>2. n = 1 \/ minPK.val < maxPK.val
      BY <1>3, <1>4
    <3> QED BY <1>1, <1>3, <1>4, <1>5, <1>6, <2>1, <3>1, <3>2, SplitConsecutive
  <2>2. CASE ~minPK.isInt
    <3>1. rs = << [minPK |-> minPK.val, maxPK |-> maxPK.val] >>
      BY <1>3, <1>5, <2>2, SplitOther
    <3>2. [minPK |-> minPK.val, maxPK |-> maxPK.val] \in PKRangeRec
      BY <1>3 DEF PKRangeRec
    <3>3. rs \in Seq(PKRangeRec) /\ Len(rs) = 1 /\ rs[1] = [minPK |-> minPK.val, maxPK |-> maxPK.val]
      BY <3>1, <3>2
    <3> QED BY <1>1, <1>3, <1>6, <2>2, <3>3 DEF Consecutive
  <2> QED BY <2>1, <2>2
<1>8. Ranges = rs
  BY <1>2, <1>5 DEF Ranges
<1>9. Readings(p) = Cardinality({i \in 1 .. Len(rs) : rs[i].minPK < p /\ p <= rs[i].maxPK})
  <2>1. DOMAIN rs = 1 .. Len(rs)
    BY <1>7
  <2>2. \A i : p \in Scanned(rs[i], {p}) <=> rs[i].minPK < p /\ p <= rs[i].maxPK
    BY DEF Scanned
  <2> QED BY <1>8, <2>1, <2>2, Zenon DEF Readings
<1>10. p \in ToRead <=> lo < p /\ p <= maxPK.val
  BY <1>2, <1>3, <1>6 DEF ToRead
<1>11. Cardinality({i \in 1 .. Len(rs) : rs[i].minPK < p /\ p <= rs[i].maxPK})
         = IF lo < p /\ p <= maxPK.val THEN 1 ELSE 0
  BY <1>3, <1>7, ReadOnce
<1> QED BY <1>9, <1>10, <1>11

\* For all 64-bit keys and any number of readers, each key of a job lies in the range of
\* exactly one of the readers that splitPKRange makes, and no other key lies in any, if the
\* keys' difference does not overflow and a job of one key has one reader.
THEOREM EachKeyIsReadOnce == ReadsSpec => []EachKeyReadOnce
<1>1. ReadsInit /\ [ReadsNext]_input => ReadsInit'
  BY DEF ReadsNext, ReadsInit
<1> QED BY <1>1, EachKeyStep, PTL DEF ReadsSpec

-----------------------------------------------------------------------------
(* The chunks of a job of the pipeline, whose reader is that of PostgreSQL. *)

LEMMA ROperators ==
  /\ \A S : R!Cardinality(S) = Cardinality(S)
  /\ \A S : R!Sorted(S) = Sorted(S)
  /\ \A n, S : R!First(n, S) = First(n, S)
  /\ \A S, m, n : R!Numbered(S, m, n) = Numbered(S, m, n)
  /\ R!NoKey = NoKey
  /\ \A a, b : R!CompareKeys(a, b) = CompareKeys(a, b)
  /\ \A table, batch : R!LastKey(table, batch) = LastKey(table, batch)
  /\ \A batches, good : R!Delivered(batches, good) = Delivered(batches, good)
<1>1. \A S : R!Cardinality(S) = Cardinality(S)
  BY DEF R!Cardinality, Cardinality
<1>2. \A S : R!Sorted(S) = Sorted(S)
  BY DEF R!Sorted, Sorted, R!Cardinality, Cardinality
<1>3. \A n, S : R!First(n, S) = First(n, S)
  BY <1>1, <1>2 DEF R!First, First
<1>4. \A S, m, n : R!Numbered(S, m, n) = Numbered(S, m, n)
  BY <1>1 DEF R!Numbered, Numbered
<1>5. R!NoKey = NoKey
  BY DEF R!NoKey, NoKey
<1>6. \A a, b : R!CompareKeys(a, b) = CompareKeys(a, b)
  BY DEF R!CompareKeys, CompareKeys, R!Comparable, Comparable
<1>7. \A table, batch : R!LastKey(table, batch) = LastKey(table, batch)
  BY DEF R!LastKey, LastKey
<1>8. \A batches : R!RowsOf(batches) = RowsOf(batches)
  BY DEF R!RowsOf, RowsOf
<1>9. \A S : R!HighestOf(S) = HighestOf(S)
  BY DEF R!HighestOf, HighestOf
<1>10. \A batches, good : R!Delivered(batches, good) = Delivered(batches, good)
  BY <1>8, <1>9 DEF R!Delivered, Delivered
<1> QED BY <1>1, <1>2, <1>3, <1>4, <1>5, <1>6, <1>7, <1>10

LEMMA RKeysetBatches ==
  ASSUME NEW table, NEW part, Readable(table, part.maxPK), NEW filtered \in BOOLEAN,
         NEW limit \in Nat \ {0}, part.minPK.val \in Int
  PROVE  R!KeysetBatches(table, part, filtered, limit)
           = Chunks(Sorted(KeysAfter(table, filtered, part.minPK.val, part.maxPK)), limit)
<1>1. R!KeysetBatches(table, part, filtered, limit)
        = KeysetSends(table, filtered, part.maxPK, limit, part.minPK.val)
  BY DEF R!KeysetBatches, R!BuildKeysetQuery, R!First, R!Sorted, R!Cardinality,
         R!NoKey, R!KeysetDone, R!CompareKeys, R!Comparable, R!LastKey,
         KeysetSends, KeysetRound, KeysAfter, First, Sorted, Cardinality,
         NoKey, CompareKeys, Comparable, LastKey
<1>2. PICK maxPK : maxPK = part.maxPK
  OBVIOUS
<1>3. PICK start : start = part.minPK.val
  OBVIOUS
<1>4. Readable(table, maxPK) /\ start \in Int
  BY <1>2, <1>3
<1>5. KeysetSends(table, filtered, maxPK, limit, start)
        = Chunks(Sorted(KeysAfter(table, filtered, start, maxPK)), limit)
  BY <1>4, KeysetLoop
<1> QED BY <1>1, <1>2, <1>3, <1>5

RowsBetween(lo, hi) == {k \in SourcePKs : lo < k /\ k <= hi}

LEMMA SourceFacts ==
  /\ SourcePKs \in SUBSET Int /\ IsFiniteSet(SourcePKs)
  /\ \A lo, hi \in Int : /\ RowsBetween(lo, hi) \in SUBSET SourcePKs
                          /\ RowsBetween(lo, hi) \in SUBSET Int
                          /\ IsFiniteSet(RowsBetween(lo, hi))
                          /\ Cardinality(RowsBetween(lo, hi)) <= Cardinality(SourcePKs)
<1>1. Int64 \subseteq Int
  BY HalfWidthAssumption DEF Int64
<1>2. SourcePKs \in SUBSET Int /\ IsFiniteSet(SourcePKs)
  BY <1>1, JobAssumption
<1>3. ASSUME NEW lo \in Int, NEW hi \in Int
      PROVE  /\ RowsBetween(lo, hi) \in SUBSET SourcePKs
             /\ RowsBetween(lo, hi) \in SUBSET Int
             /\ IsFiniteSet(RowsBetween(lo, hi))
             /\ Cardinality(RowsBetween(lo, hi)) <= Cardinality(SourcePKs)
  <2>1. RowsBetween(lo, hi) \in SUBSET SourcePKs
    BY DEF RowsBetween
  <2>2. IsFiniteSet(RowsBetween(lo, hi)) /\ Cardinality(RowsBetween(lo, hi)) <= Cardinality(SourcePKs)
    BY <1>2, <2>1, FS_Subset
  <2> QED BY <1>2, <2>1, <2>2
<1> QED BY <1>2, <1>3

\* A reader's batches are the rows of its range, in order.
LEMMA ReaderBatches ==
  ASSUME NEW lo \in Int, NEW hi \in Int, NEW part,
         part = [minPK |-> Key(lo), maxPK |-> Key(hi), startRow |-> 0, endRow |-> 0]
  PROVE  R!ReadTable(Table, part, FALSE, ChunkSize, Cardinality(SourcePKs)).batches
           = Chunks(Sorted(RowsBetween(lo, hi)), ChunkSize)
<1>1. PICK n \in Nat : n = Cardinality(SourcePKs)
  BY SourceFacts, FS_CardinalityType
<1>2. PICK rows : rows = Sorted(RowsBetween(lo, hi))
  OBVIOUS
<1>3. ChunkSize \in Nat \ {0}
  BY JobAssumption
<1>4. /\ part.minPK = Key(lo) /\ part.maxPK = Key(hi) /\ Key(lo) # NoKey /\ Key(hi) # NoKey
      /\ Key(lo).val = lo /\ Key(hi).val = hi /\ Key(hi).kind = "int64"
  BY DEF Key, NoKey
<1>5. Readable(Table, part.maxPK)
  <2>1. Table.keys = SourcePKs /\ Table.changed = SourcePKs /\ Table.kind = "int64"
    BY DEF Table
  <2> QED BY <1>4, <2>1, SourceFacts DEF Readable, Comparable
<1>6. KeysAfter(Table, FALSE, part.minPK.val, part.maxPK) = RowsBetween(lo, hi)
  BY <1>4 DEF KeysAfter, RowsBetween, Table
<1>7. R!KeysetBatches(Table, part, FALSE, ChunkSize) = Chunks(rows, ChunkSize)
  <2>1. part.minPK.val \in Int /\ FALSE \in BOOLEAN
    BY <1>4
  <2>2. R!KeysetBatches(Table, part, FALSE, ChunkSize)
          = Chunks(Sorted(KeysAfter(Table, FALSE, part.minPK.val, part.maxPK)), ChunkSize)
    BY <1>3, <1>5, <2>1, RKeysetBatches
  <2> QED BY <1>2, <1>6, <2>2
<1>8. R!ReadTable(Table, part, FALSE, ChunkSize, n) = Delivered(Chunks(rows, ChunkSize), n)
  <2>1. R!ReadTable(Table, part, FALSE, ChunkSize, n)
          = R!Delivered(R!KeysetBatches(Table, part, FALSE, ChunkSize), n)
    BY <1>4, ROperators, Zenon DEF R!ReadTable
  <2> QED BY <1>7, <2>1, ROperators
<1>9. rows \in Seq(RowsBetween(lo, hi)) /\ Len(rows) = Cardinality(RowsBetween(lo, hi))
  BY <1>2, SourceFacts, SortedFacts
<1>10. Delivers(Delivered(Chunks(rows, ChunkSize), n), rows, ChunkSize, n)
  BY <1>1, <1>3, <1>9, DeliveredFacts
<1>11. n >= Len(rows)
  <2>1. Cardinality(RowsBetween(lo, hi)) <= n
    BY <1>1, SourceFacts
  <2>2. Len(rows) \in Nat
    BY <1>9, LenProperties
  <2> QED BY <1>9, <2>1, <2>2
<1> QED BY <1>1, <1>2, <1>8, <1>10, <1>11 DEF Delivers

\* The batches of a set of rows: those up to the last row of a batch are in that batch or
\* in those before it, and each is in one.
BatchesHold(S, bs) ==
  \E c \in Nat :
    /\ DOMAIN bs = 1 .. c
    /\ \A i \in 1 .. c : /\ DOMAIN bs[i] = 1 .. Len(bs[i]) /\ Len(bs[i]) \in DOMAIN bs[i]
                         /\ \A j \in DOMAIN bs[i] : bs[i][j] \in S
    /\ \A i \in 1 .. c : \A k \in S : k <= bs[i][Len(bs[i])] =>
         \E j \in 1 .. i : \E q \in DOMAIN bs[j] : bs[j][q] = k
    /\ \A k \in S : \E j \in 1 .. c : \E q \in DOMAIN bs[j] : bs[j][q] = k

LEMMA SortedBatches ==
  ASSUME NEW S \in SUBSET Int, IsFiniteSet(S), NEW limit \in Nat \ {0}
  PROVE  BatchesHold(S, Chunks(Sorted(S), limit))
<1> DEFINE n == Cardinality(S)
           c == Batches(n, limit)
           rows == Sorted(S)
           bs == Chunks(rows, limit)
<1>1. /\ n \in Nat /\ rows \in Seq(S) /\ Len(rows) = n
      /\ \A i \in 1 .. n : rows[i] \in S
      /\ \A k \in S : Rank(S, k) \in 1 .. n /\ rows[Rank(S, k)] = k
      /\ \A i, j \in 1 .. n : i < j => rows[i] < rows[j]
  BY RankFacts, SortedFacts
<1>2. /\ c \in Nat /\ n <= c * limit /\ (c = 0 <=> n = 0)
      /\ \A i \in 1 .. c : /\ (i - 1) * limit \in Nat /\ i * limit = (i - 1) * limit + limit
                           /\ (i - 1) * limit < n
  BY <1>1, BatchesFacts
<1>3. /\ bs \in Seq(Seq(S)) /\ Len(bs) = c
      /\ \A i \in 1 .. c : /\ Len(bs[i]) = SmallerOf(limit, n - (i - 1) * limit)
                           /\ Len(bs[i]) \in 1 .. limit
                           /\ \A j \in 1 .. Len(bs[i]) : bs[i][j] = rows[(i - 1) * limit + j]
  <2>1. InBatches(S, rows, limit)
    BY <1>1, ChunksFacts
  <2> QED BY <1>1, <2>1 DEF InBatches
<1> HIDE DEF bs, c, rows, n
<1>4. DOMAIN bs = 1 .. c
  BY <1>3, LenProperties
<1>5. ASSUME NEW i \in 1 .. c
      PROVE  /\ DOMAIN bs[i] = 1 .. Len(bs[i]) /\ Len(bs[i]) \in DOMAIN bs[i]
             /\ \A j \in DOMAIN bs[i] : bs[i][j] \in S
  <2>1. bs[i] \in Seq(S)
    BY <1>3, ElementOfSeq
  <2>2. DOMAIN bs[i] = 1 .. Len(bs[i]) /\ Len(bs[i]) \in Nat \ {0}
    BY <1>3, <2>1, LenProperties
  <2>3. \A j \in 1 .. Len(bs[i]) : bs[i][j] \in S
    BY <2>1, ElementOfSeq
  <2> QED BY <2>2, <2>3
<1>6. ASSUME NEW p \in 1 .. n, NEW i \in 1 .. c, p <= i * limit
      PROVE  \E j \in 1 .. i : \E q \in DOMAIN bs[j] : bs[j][q] = rows[p]
  <2> DEFINE T == {j \in 1 .. i : p <= j * limit}
  <2>1. T \subseteq Nat /\ T # {}
    BY <1>6
  <2>2. PICK j \in T : \A k \in T : j <= k
    <3> HIDE DEF T
    <3> QED BY <2>1, LeastNat
  <2>3. j \in 1 .. i /\ p <= j * limit /\ j \in 1 .. c
    BY <1>2
  <2>4. PICK a \in Nat : a = (j - 1) * limit /\ j * limit = a + limit /\ a < n
    BY <1>2, <2>3
  <2>5. a < p
    <3>1. CASE j = 1
      BY <2>4, <3>1
    <3>2. CASE j # 1
      <4>1. j - 1 \in 1 .. i /\ j - 1 \notin T
        <5>1. ~(j <= j - 1)
          BY <2>3
        <5> HIDE DEF T
        <5> QED BY <2>2, <2>3, <3>2, <5>1
      <4>2. ~(p <= (j - 1) * limit)
        BY <4>1
      <4> QED BY <2>4, <4>2
    <3> QED BY <3>1, <3>2
  <2> HIDE DEF T
  <2>6. PICK q : q = p - a
    OBVIOUS
  <2>7. q \in 1 .. Len(bs[j])
    <3>1. Len(bs[j]) = SmallerOf(limit, n - a)
      BY <1>3, <2>3, <2>4
    <3>2. SmallerOf(limit, n - a) \in {limit, n - a}
      BY <1>1, <2>4 DEF SmallerOf
    <3>3. p \in Nat /\ p <= a + limit /\ p <= n
      BY <1>1, <2>3, <2>4
    <3> QED BY <1>1, <2>4, <2>5, <2>6, <3>1, <3>2, <3>3
  <2>8. bs[j][q] = rows[(j - 1) * limit + q]
    BY <1>3, <2>3, <2>7
  <2>9. (j - 1) * limit + q = p
    BY <2>4, <2>6
  <2>10. q \in DOMAIN bs[j]
    BY <1>5, <2>3, <2>7
  <2> QED BY <2>3, <2>8, <2>9, <2>10
<1>7. ASSUME NEW i \in 1 .. c, NEW k \in S, k <= bs[i][Len(bs[i])]
      PROVE  \E j \in 1 .. i : \E q \in DOMAIN bs[j] : bs[j][q] = k
  <2>1. PICK a \in Nat : a = (i - 1) * limit /\ i * limit = a + limit /\ a < n
    BY <1>2
  <2>2. PICK len : len = Len(bs[i])
    OBVIOUS
  <2>3. len \in 1 .. limit /\ len = SmallerOf(limit, n - a)
    BY <1>3, <2>1, <2>2
  <2>4. len <= n - a
    BY <1>1, <2>1, <2>3 DEF SmallerOf
  <2>5. bs[i][len] = rows[a + len] /\ a + len \in 1 .. n
    <3>1. len \in 1 .. Len(bs[i])
      BY <2>2, <2>3
    <3>2. bs[i][len] = rows[(i - 1) * limit + len]
      BY <1>3, <3>1
    <3> QED BY <1>1, <2>1, <2>3, <2>4, <3>2
  <2>6. PICK p \in 1 .. n : rows[p] = k
    BY <1>1
  <2>7. p <= a + len
    <3>1. ~(a + len < p)
      <4> SUFFICES ASSUME a + len < p PROVE FALSE
        OBVIOUS
      <4>1. rows[a + len] < rows[p]
        BY <1>1, <2>5
      <4>2. rows[a + len] \in Int /\ k \in Int
        BY <1>1, <2>5
      <4> QED BY <1>7, <2>2, <2>5, <2>6, <4>1, <4>2
    <3> QED BY <1>1, <2>5, <3>1
  <2>8. p <= i * limit
    BY <1>1, <2>1, <2>3, <2>7
  <2> QED BY <1>6, <2>6, <2>8
<1>8. ASSUME NEW k \in S
      PROVE  \E j \in 1 .. c : \E q \in DOMAIN bs[j] : bs[j][q] = k
  <2>1. PICK p \in 1 .. n : rows[p] = k
    BY <1>1
  <2>2. c \in 1 .. c /\ p <= c * limit
    BY <1>1, <1>2
  <2> QED BY <1>6, <2>1, <2>2
<1>9. BatchesHold(S, bs)
  BY <1>2, <1>4, <1>5, <1>7, <1>8 DEF BatchesHold
<1> QED BY <1>9 DEF bs, rows

\* The chunks of reader r: their places, their rows and their last keys.
ReaderChunks(rs, r) ==
  LET cs == ChunksOf(rs, r)
      lo == rs[r].minPK
      hi == rs[r].maxPK
  IN /\ \E n \in Nat : DOMAIN cs = 1 .. n
     /\ \A i \in DOMAIN cs : /\ cs[i].reader = r /\ cs[i].seq = i - 1
                             /\ cs[i].rows \subseteq RowsBetween(lo, hi)
                             /\ cs[i].lastPK \in RowsBetween(lo, hi)
                             /\ \A k \in RowsBetween(lo, hi) :
                                  k <= cs[i].lastPK => \E j \in 1 .. i : k \in cs[j].rows
     /\ \A k \in RowsBetween(lo, hi) : \E j \in DOMAIN cs : k \in cs[j].rows

ChunksFrom(bs, r) ==
  [i \in DOMAIN bs |-> [rows |-> {bs[i][j] : j \in DOMAIN bs[i]},
                        lastPK |-> bs[i][Len(bs[i])], reader |-> r, seq |-> i - 1]]

LEMMA ReaderChunksFacts ==
  ASSUME NEW rs, NEW r, rs[r].minPK \in Int, rs[r].maxPK \in Int
  PROVE  ReaderChunks(rs, r)
<1> DEFINE lo == rs[r].minPK
           hi == rs[r].maxPK
           S == RowsBetween(lo, hi)
           bs == Chunks(Sorted(S), ChunkSize)
           cs == ChunksOf(rs, r)
<1>1. cs = [i \in DOMAIN bs |-> [rows |-> {bs[i][j] : j \in DOMAIN bs[i]},
                                 lastPK |-> bs[i][Len(bs[i])], reader |-> r, seq |-> i - 1]]
  <2>1. PICK part : part = [minPK |-> Key(rs[r].minPK), maxPK |-> Key(rs[r].maxPK),
                            startRow |-> 0, endRow |-> 0]
    OBVIOUS
  <2>2. PICK a \in Int : a = lo
    OBVIOUS
  <2>3. PICK b \in Int : b = hi
    OBVIOUS
  <2>4. part = [minPK |-> Key(a), maxPK |-> Key(b), startRow |-> 0, endRow |-> 0]
    BY <2>1, <2>2, <2>3
  <2>5. R!ReadTable(Table, part, FALSE, ChunkSize, Cardinality(SourcePKs)).batches = bs
    <3>1. R!ReadTable(Table, part, FALSE, ChunkSize, Cardinality(SourcePKs)).batches
            = Chunks(Sorted(RowsBetween(a, b)), ChunkSize)
      BY <2>4, ReaderBatches
    <3> QED BY <2>2, <2>3, <3>1
  <2>6. ChunksOf(rs, r)
          = ChunksFrom(R!ReadTable(Table, [minPK |-> Key(rs[r].minPK), maxPK |-> Key(rs[r].maxPK),
                                           startRow |-> 0, endRow |-> 0],
                                   FALSE, ChunkSize, Cardinality(SourcePKs)).batches, r)
    BY DEF ChunksOf, ChunksFrom
  <2>7. ChunksOf(rs, r) = ChunksFrom(bs, r)
    <3> HIDE DEF bs
    <3> QED BY <2>1, <2>5, <2>6
  <2> HIDE DEF bs
  <2> QED BY <2>7 DEF ChunksFrom
<1>2. BatchesHold(S, bs)
  <2>1. S \in SUBSET Int /\ IsFiniteSet(S) /\ ChunkSize \in Nat \ {0}
    BY SourceFacts, JobAssumption
  <2> HIDE DEF S
  <2> QED BY <2>1, SortedBatches
<1> HIDE DEF cs, bs, S
<1>3. PICK c \in Nat :
    /\ DOMAIN bs = 1 .. c
    /\ \A i \in 1 .. c : /\ DOMAIN bs[i] = 1 .. Len(bs[i]) /\ Len(bs[i]) \in DOMAIN bs[i]
                         /\ \A j \in DOMAIN bs[i] : bs[i][j] \in S
    /\ \A i \in 1 .. c : \A k \in S : k <= bs[i][Len(bs[i])] =>
         \E j \in 1 .. i : \E q \in DOMAIN bs[j] : bs[j][q] = k
    /\ \A k \in S : \E j \in 1 .. c : \E q \in DOMAIN bs[j] : bs[j][q] = k
  BY <1>2 DEF BatchesHold
<1>4. DOMAIN cs = 1 .. c
  BY <1>1, <1>3
<1>5. \A i \in 1 .. c : /\ cs[i].rows = {bs[i][j] : j \in DOMAIN bs[i]}
                        /\ cs[i].lastPK = bs[i][Len(bs[i])] /\ cs[i].reader = r /\ cs[i].seq = i - 1
  BY <1>1, <1>3
<1>6. ASSUME NEW i \in 1 .. c
      PROVE  /\ cs[i].reader = r /\ cs[i].seq = i - 1
             /\ cs[i].rows \subseteq S /\ cs[i].lastPK \in S
             /\ \A k \in S : k <= cs[i].lastPK => \E j \in 1 .. i : k \in cs[j].rows
  <2>1. cs[i].rows \subseteq S /\ cs[i].lastPK \in S
    BY <1>3, <1>5
  <2>2. ASSUME NEW k \in S, k <= cs[i].lastPK PROVE \E j \in 1 .. i : k \in cs[j].rows
    <3>1. PICK j \in 1 .. i : \E q \in DOMAIN bs[j] : bs[j][q] = k
      BY <1>3, <1>5, <2>2
    <3>2. j \in 1 .. c
      OBVIOUS
    <3> QED BY <1>5, <3>1, <3>2
  <2> QED BY <1>5, <2>1, <2>2
<1>7. ASSUME NEW k \in S PROVE \E j \in 1 .. c : k \in cs[j].rows
  <2>1. PICK j \in 1 .. c : \E q \in DOMAIN bs[j] : bs[j][q] = k
    BY <1>3
  <2> QED BY <1>5, <2>1
<1> QED BY <1>4, <1>6, <1>7 DEF ReaderChunks, cs, S

AllChunks(rs) ==
  UNION {{ChunksOf(rs, r)[i] : i \in DOMAIN ChunksOf(rs, r)} : r \in DOMAIN rs}

LEMMA RangesTyped ==
  ASSUME NEW rs \in Seq(PKRangeRec)
  PROVE  /\ DOMAIN rs = 1 .. Len(rs) /\ Len(rs) \in Nat
         /\ \A r \in DOMAIN rs : rs[r].minPK \in Int /\ rs[r].maxPK \in Int
<1>1. DOMAIN rs = 1 .. Len(rs) /\ Len(rs) \in Nat
  BY LenProperties
<1>2. \A r \in DOMAIN rs : rs[r] \in PKRangeRec
  BY <1>1, ElementOfSeq
<1> QED BY <1>1, <1>2, HalfWidthAssumption DEF PKRangeRec, Int64

LEMMA ChunkFacts ==
  ASSUME NEW rs \in Seq(PKRangeRec)
  PROVE  /\ \A r \in DOMAIN rs : ReaderChunks(rs, r) /\ ChunksOf(rs, r) \in Seq(AllChunks(rs))
         /\ \A c \in AllChunks(rs) :
              /\ c.reader \in DOMAIN rs /\ c.seq \in Nat
              /\ c.seq + 1 \in DOMAIN ChunksOf(rs, c.reader)
              /\ c = ChunksOf(rs, c.reader)[c.seq + 1]
              /\ c.lastPK \in RowsBetween(rs[c.reader].minPK, rs[c.reader].maxPK)
              /\ c # ReadError
<1>1. DOMAIN rs = 1 .. Len(rs) /\ Len(rs) \in Nat
      /\ \A r \in DOMAIN rs : rs[r].minPK \in Int /\ rs[r].maxPK \in Int
  BY RangesTyped
<1>2. \A r \in DOMAIN rs : ReaderChunks(rs, r)
  BY <1>1, ReaderChunksFacts
<1>3. ASSUME NEW r \in DOMAIN rs PROVE ChunksOf(rs, r) \in Seq(AllChunks(rs))
  <2>1. PICK n \in Nat : DOMAIN ChunksOf(rs, r) = 1 .. n
    BY <1>2 DEF ReaderChunks
  <2>2. \A i \in 1 .. n : ChunksOf(rs, r)[i] \in AllChunks(rs)
    BY <2>1 DEF AllChunks
  <2>3. ChunksOf(rs, r) = [i \in DOMAIN ChunksOf(rs, r) |-> ChunksOf(rs, r)[i]]
    BY DEF ChunksOf
  <2>4. ChunksOf(rs, r) \in [1 .. n -> AllChunks(rs)]
    BY <2>1, <2>2, <2>3
  <2> QED BY <2>4
<1>4. ASSUME NEW c \in AllChunks(rs)
      PROVE  /\ c.reader \in DOMAIN rs /\ c.seq \in Nat
             /\ c.seq + 1 \in DOMAIN ChunksOf(rs, c.reader)
             /\ c = ChunksOf(rs, c.reader)[c.seq + 1]
             /\ c.lastPK \in RowsBetween(rs[c.reader].minPK, rs[c.reader].maxPK)
             /\ c # ReadError
  <2>1. PICK r \in DOMAIN rs : \E i \in DOMAIN ChunksOf(rs, r) : c = ChunksOf(rs, r)[i]
    BY DEF AllChunks
  <2>2. PICK i \in DOMAIN ChunksOf(rs, r) : c = ChunksOf(rs, r)[i]
    BY <2>1
  <2>3. /\ \E n \in Nat : DOMAIN ChunksOf(rs, r) = 1 .. n
        /\ c.reader = r /\ c.seq = i - 1
        /\ c.lastPK \in RowsBetween(rs[r].minPK, rs[r].maxPK)
    BY <1>2, <2>2 DEF ReaderChunks
  <2>4. i \in Nat \ {0} /\ c.seq \in Nat /\ c.seq + 1 = i
    BY <2>3
  <2>5. c.reader # 0
    BY <1>1, <2>3
  <2>6. c # ReadError
    BY <2>5 DEF ReadError, NoChunk
  <2> QED BY <2>2, <2>3, <2>4, <2>6
<1> QED BY <1>2, <1>3, <1>4

SomeRange(rs) == \E r \in DOMAIN rs : rs[r].minPK < rs[r].maxPK
RowsUpTo(p) == {k \in JobRows : k <= p}

\* The ranges of a job: they follow each other up to its largest key.  A first attempt
\* begins before its smallest key, unless it is a single key and the readers are several:
\* then there is nothing to read.
LEMMA JobRangesFacts ==
  ASSUME NEW loaded, loaded = NoCheckpoint \/ (loaded \in Int64 /\ loaded <= MaxPK)
  PROVE  /\ JobRanges(loaded) \in Seq(PKRangeRec) /\ JobRanges(loaded) # << >>
         /\ Consecutive(JobRanges(loaded), JobRanges(loaded)[1].minPK, MaxPK)
         /\ loaded # NoCheckpoint => JobRanges(loaded)[1].minPK = loaded
         /\ loaded = NoCheckpoint /\ (SomeRange(JobRanges(loaded)) \/ (ParallelReaders > 1 => MinPK < MaxPK))
              => RowsUpTo(JobRanges(loaded)[1].minPK) = {}
<1>1. /\ MinPK \in Int64 /\ MaxPK \in Int64 /\ MinPK \in Int /\ MaxPK \in Int /\ MinPK <= MaxPK
      /\ MinPK - 1 \in Int64 /\ MaxPK - MinPK < HalfWidth /\ ParallelReaders \in Nat \ {0}
      /\ Int64 \subseteq Int /\ \A k \in SourcePKs : k \in Int
  BY JobAssumption, HalfWidthAssumption DEF Int64
<1> DEFINE minPK == [isInt |-> loaded = NoCheckpoint,
                     val |-> IF loaded = NoCheckpoint THEN MinPK ELSE loaded]
           maxPK == [isInt |-> TRUE, val |-> MaxPK]
<1>2. minPK \in PKValue /\ maxPK \in PKValue
  BY <1>1 DEF PKValue
<1>3. PICK rs : rs = JobRanges(loaded)
  OBVIOUS
<1>4. rs = SplitPKRange(minPK, maxPK, ParallelReaders)
  BY <1>3 DEF JobRanges
<1>5. ASSUME NEW lo \in Int64, lo <= MaxPK, rs = << [minPK |-> lo, maxPK |-> MaxPK] >>
      PROVE  /\ rs \in Seq(PKRangeRec) /\ rs # << >> /\ rs[1].minPK = lo
             /\ Consecutive(rs, rs[1].minPK, MaxPK)
             /\ SomeRange(rs) => lo < MaxPK
  <2>1. [minPK |-> lo, maxPK |-> MaxPK] \in PKRangeRec
    BY <1>1 DEF PKRangeRec
  <2>2. /\ rs \in Seq(PKRangeRec) /\ Len(rs) = 1 /\ rs[1] = [minPK |-> lo, maxPK |-> MaxPK]
        /\ DOMAIN rs = 1 .. 1
    BY <1>5, <2>1
  <2> QED BY <1>5, <2>2 DEF Consecutive, SomeRange
<1>6. CASE loaded # NoCheckpoint
  <2>1. loaded \in Int64 /\ loaded <= MaxPK
    BY <1>6
  <2>2. minPK.val = loaded /\ maxPK.val = MaxPK /\ ~minPK.isInt
    BY <1>6
  <2>3. rs = << [minPK |-> loaded, maxPK |-> MaxPK] >>
    <3> HIDE DEF minPK, maxPK
    <3> QED BY <1>1, <1>2, <1>4, <2>2, SplitOther
  <2> QED BY <1>3, <1>5, <1>6, <2>1, <2>3
<1>7. CASE loaded = NoCheckpoint
  <2>1. minPK.val = MinPK /\ maxPK.val = MaxPK /\ minPK.isInt /\ maxPK.isInt
    BY <1>7
  <2> HIDE DEF minPK, maxPK
  <2>2. CASE ParallelReaders = 1 \/ MinPK < MaxPK
    <3>1. rs \in Seq(PKRangeRec) /\ Consecutive(rs, MinPK - 1, MaxPK)
      BY <1>1, <1>2, <1>4, <2>1, <2>2, SplitConsecutive
    <3>2. rs[1].minPK = MinPK - 1 /\ rs # << >>
      BY <3>1 DEF Consecutive
    <3>3. RowsUpTo(MinPK - 1) = {}
      BY <1>1 DEF RowsUpTo, JobRows
    <3> QED BY <1>3, <1>7, <3>1, <3>2, <3>3
  <2>3. CASE ~(ParallelReaders = 1 \/ MinPK < MaxPK)
    <3>1. ParallelReaders > 1 /\ MinPK = MaxPK
      BY <1>1, <2>3
    <3>2. rs = << [minPK |-> MinPK, maxPK |-> MaxPK] >>
      BY <1>1, <1>2, <1>4, <2>1, <3>1, SplitSingle
    <3>3. /\ rs \in Seq(PKRangeRec) /\ rs # << >> /\ Consecutive(rs, rs[1].minPK, MaxPK)
          /\ ~SomeRange(rs)
      BY <1>1, <1>5, <3>1, <3>2
    <3> QED BY <1>3, <1>7, <2>3, <3>1, <3>3
  <2> QED BY <2>2, <2>3
<1> QED BY <1>6, <1>7

-----------------------------------------------------------------------------
(* Channels and workers. *)

InChan(chan) == {chan[i] : i \in 1 .. Len(chan)}

LEMMA TailChan ==
  ASSUME NEW S, NEW q \in Seq(S), q # <<>>
  PROVE  /\ Tail(q) \in Seq(S) /\ Head(q) \in S /\ Len(q) \in Nat \ {0} /\ Len(Tail(q)) = Len(q) - 1
         /\ Head(q) = q[1] /\ \A i \in 1 .. Len(Tail(q)) : Tail(q)[i] = q[i + 1]
         /\ InChan(q) = {Head(q)} \cup InChan(Tail(q))
<1>1. /\ Tail(q) \in Seq(S) /\ Len(q) \in Nat \ {0} /\ Len(Tail(q)) = Len(q) - 1 /\ Head(q) = q[1]
      /\ \A i \in 1 .. Len(Tail(q)) : Tail(q)[i] = q[i + 1]
  BY HeadTailProperties, EmptySeq, LenProperties
<1>2. q[1] \in S
  BY <1>1, ElementOfSeq
<1>3. ASSUME NEW i \in 1 .. Len(q) PROVE q[i] \in {q[1]} \cup InChan(Tail(q))
  <2>1. CASE i = 1
    BY <2>1
  <2>2. CASE i # 1
    <3>1. i - 1 \in 1 .. Len(Tail(q)) /\ (i - 1) + 1 = i
      BY <1>1, <2>2
    <3> QED BY <1>1, <3>1 DEF InChan
  <2> QED BY <2>1, <2>2
<1>4. ASSUME NEW i \in 1 .. Len(Tail(q)) PROVE Tail(q)[i] \in InChan(q)
  <2>1. i + 1 \in 1 .. Len(q)
    BY <1>1
  <2> QED BY <1>1, <2>1 DEF InChan
<1>5. 1 \in 1 .. Len(q)
  BY <1>1
<1>6. q[1] \in InChan(q)
  BY <1>5 DEF InChan
<1>7. InChan(q) = {q[1]} \cup InChan(Tail(q))
  BY <1>3, <1>4, <1>6 DEF InChan
<1> QED BY <1>1, <1>2, <1>7

LEMMA AppendChan ==
  ASSUME NEW S, NEW q \in Seq(S), NEW x \in S
  PROVE  /\ Append(q, x) \in Seq(S) /\ Len(Append(q, x)) = Len(q) + 1 /\ Len(q) \in Nat
         /\ \A i \in 1 .. Len(q) : Append(q, x)[i] = q[i]
         /\ Append(q, x)[Len(q) + 1] = x
         /\ InChan(Append(q, x)) = InChan(q) \cup {x}
<1>1. /\ Append(q, x) \in Seq(S) /\ Len(Append(q, x)) = Len(q) + 1 /\ Len(q) \in Nat
      /\ \A i \in 1 .. Len(q) : Append(q, x)[i] = q[i]
      /\ Append(q, x)[Len(q) + 1] = x
  BY AppendProperties, LenProperties
<1>2. \A i \in 1 .. Len(q) : i \in 1 .. Len(Append(q, x))
  BY <1>1
<1>3. Len(q) + 1 \in 1 .. Len(Append(q, x))
  BY <1>1
<1>4. \A i \in 1 .. Len(Append(q, x)) : i \in 1 .. Len(q) \/ i = Len(q) + 1
  BY <1>1
<1>5. InChan(Append(q, x)) = InChan(q) \cup {x}
  BY <1>1, <1>2, <1>3, <1>4 DEF InChan
<1> QED BY <1>1, <1>5

LEMMA EmptyChan ==
  ASSUME NEW S
  PROVE  <<>> \in Seq(S) /\ Len(<<>>) = 0 /\ InChan(<<>>) = {}
<1>1. <<>> \in Seq(S) /\ Len(<<>>) = 0
  BY EmptySeq
<1>2. 1 .. 0 = {}
  OBVIOUS
<1> QED BY <1>1, <1>2 DEF InChan

LEMMA InChanTyped ==
  ASSUME NEW S, NEW q \in Seq(S)
  PROVE  InChan(q) \subseteq S
BY ElementOfSeq DEF InChan

\* The states of the workers, whose jobs are chunks of the set A.
Worker(A) ==
  [st : {"idle", "write", "ack", "gone"}, job : A \cup {NoJob}, cancelled : BOOLEAN]

\* Goroutine g has moved on, and the others have not.
LEMMA WorkerMoves ==
  ASSUME NEW A, worker \in Seq(Worker(A)), NEW g \in Goroutines,
         NEW st \in {"idle", "write", "ack", "gone"}, NEW m \in A \cup {NoJob}, SetWorker(g, st, m)
  PROVE  /\ worker' \in Seq(Worker(A)) /\ Goroutines' = Goroutines
         /\ worker' # << >>
         /\ worker'[g].st = st /\ worker'[g].job = m /\ worker'[g].cancelled = worker[g].cancelled
         /\ \A h \in Goroutines : h # g => worker'[h] = worker[h]
<1>1. PICK r : r = [worker[g] EXCEPT !.st = st, !.job = m]
  OBVIOUS
<1>2. worker[g] \in Worker(A)
  BY ElementOfSeq, LenProperties DEF Goroutines
<1>3. r \in Worker(A) /\ r.st = st /\ r.job = m /\ r.cancelled = worker[g].cancelled
  BY <1>1, <1>2 DEF Worker
<1>4. worker' = [worker EXCEPT ![g] = r]
  BY <1>1 DEF SetWorker
<1>5. /\ Goroutines' = Goroutines
      /\ worker'[g] = r /\ \A h \in Goroutines : h # g => worker'[h] = worker[h]
  BY <1>4 DEF Goroutines
<1>6. worker' \in Seq(Worker(A)) /\ worker' # << >>
  <2>1. worker \in [1 .. Len(worker) -> Worker(A)] /\ Len(worker) \in Nat /\ g \in 1 .. Len(worker)
    BY LenProperties DEF Goroutines
  <2>2. worker' \in [1 .. Len(worker) -> Worker(A)]
    BY <1>3, <1>4, <2>1
  <2>3. worker' \in Seq(Worker(A))
    BY <2>1, <2>2
  <2>4. DOMAIN worker' # {}
    BY <2>1, <2>2
  <2> QED BY <2>3, <2>4
<1> QED BY <1>3, <1>5, <1>6

\* ScaleWorkers adds idle workers, or cancels some; the others stay what they are.
LEMMA WorkersScale ==
  ASSUME NEW A, worker \in Seq(Worker(A)), workers \in Seq(Nat), NEW n \in Nat, ScaleWorkers(n)
  PROVE  /\ worker' \in Seq(Worker(A)) /\ workers' \in Seq(Nat) /\ Goroutines \subseteq Goroutines'
         /\ worker # << >> => worker' # << >>
         /\ \A g \in Goroutines : /\ worker'[g].st = worker[g].st /\ worker'[g].job = worker[g].job
                                  /\ worker[g].cancelled => worker'[g].cancelled
         /\ \A g \in Goroutines' : g \notin Goroutines => worker'[g].st = "idle"
         /\ UNCHANGED <<jobChan, jobsClosed, ackChan, poolDone, writeErr, totalWritten>>
<1> DEFINE count == Len(workers)
           added == [i \in 1 .. n - count |-> Len(worker) + i]
           idle == [i \in 1 .. n - count |-> Idle]
           len == Len(worker)
<1>1. count \in Nat /\ len \in Nat /\ DOMAIN worker = 1 .. len
  BY LenProperties
<1>2. UNCHANGED <<jobChan, jobsClosed, ackChan, poolDone, writeErr, totalWritten>>
  BY DEF ScaleWorkers
<1>3. \A g \in 1 .. len : worker[g] \in Worker(A)
  BY ElementOfSeq
<1>4. CASE n > count
  <2>1. n - count \in Nat
    BY <1>1, <1>4
  <2>2. worker' = worker \o idle /\ workers' = workers \o added
    BY <1>4 DEF ScaleWorkers
  <2>3. Idle \in Worker(A) /\ Idle.st = "idle"
    BY DEF Idle, Worker
  <2> HIDE DEF count, len
  <2>4. idle \in Seq(Worker(A)) /\ Len(idle) = n - count /\ \A i \in 1 .. n - count : idle[i] = Idle
    <3>1. idle \in [1 .. n - count -> Worker(A)]
      BY <2>3
    <3> QED BY <2>1, <3>1
  <2>5. added \in Seq(Nat)
    <3>1. added \in [1 .. n - count -> Nat]
      BY <1>1, <2>1 DEF len
    <3> QED BY <2>1, <3>1
  <2> HIDE DEF idle, added
  <2>6. worker' \in Seq(Worker(A)) /\ workers' \in Seq(Nat)
    BY <2>2, <2>4, <2>5, ConcatProperties
  <2>7. /\ Len(worker') = len + (n - count)
        /\ \A i \in 1 .. len + (n - count) :
             worker'[i] = IF i <= len THEN worker[i] ELSE idle[i - len]
    BY <2>2, <2>4, ConcatProperties DEF len
  <2>8. DOMAIN worker' = 1 .. len + (n - count)
    BY <2>6, <2>7, LenProperties
  <2>9. \A g \in 1 .. len : g \in 1 .. len + (n - count) /\ worker'[g] = worker[g]
    BY <1>1, <2>1, <2>7
  <2>10. \A g \in 1 .. len + (n - count) : g \notin 1 .. len => worker'[g] = Idle
    <3> SUFFICES ASSUME NEW g \in 1 .. len + (n - count), g \notin 1 .. len PROVE worker'[g] = Idle
      OBVIOUS
    <3>1. ~(g <= len) /\ g - len \in 1 .. n - count
      BY <1>1, <2>1
    <3> QED BY <2>4, <2>7, <3>1
  <2>11. worker # << >> => worker' # << >>
    <3>1. worker # << >> => len # 0
      BY EmptySeq DEF len
    <3>2. len # 0 => len + (n - count) # 0
      BY <1>1, <2>1
    <3> QED BY <2>7, <3>1, <3>2
  <2> QED BY <1>1, <1>2, <2>3, <2>6, <2>8, <2>9, <2>10, <2>11 DEF Goroutines
<1>5. CASE ~(n > count)
  <2>1. /\ worker' = [g \in Goroutines |->
               [worker[g] EXCEPT !.cancelled = @ \/ \E i \in n + 1 .. count : workers[i] = g]]
        /\ workers' = SubSeq(workers, 1, n)
    BY <1>5 DEF ScaleWorkers
  <2>2. workers' \in Seq(Nat)
    <3>1. 1 \in Nat \ {0} /\ n \in Int /\ n <= Len(workers)
      BY <1>1, <1>5
    <3> QED BY <2>1, <3>1, SubSeqFacts
  <2>3. \A g \in 1 .. len : \E c \in BOOLEAN : /\ worker[g].cancelled => c
                                             /\ worker'[g] = [worker[g] EXCEPT !.cancelled = c]
    <3> SUFFICES ASSUME NEW g \in 1 .. len
                 PROVE  \E c \in BOOLEAN : /\ worker[g].cancelled => c
                                          /\ worker'[g] = [worker[g] EXCEPT !.cancelled = c]
      OBVIOUS
    <3>1. PICK e \in BOOLEAN : e = \E i \in n + 1 .. count : workers[i] = g
      OBVIOUS
    <3>2. worker[g].cancelled \in BOOLEAN
      BY <1>3 DEF Worker
    <3>3. worker'[g] = [worker[g] EXCEPT !.cancelled = worker[g].cancelled \/ e]
      BY <1>1, <2>1, <3>1 DEF Goroutines
    <3> QED BY <3>2, <3>3
  <2>4. DOMAIN worker' = 1 .. len
    BY <1>1, <2>1 DEF Goroutines
  <2>5. ASSUME NEW g \in 1 .. len
        PROVE  /\ worker'[g] \in Worker(A)
               /\ worker'[g].st = worker[g].st /\ worker'[g].job = worker[g].job
               /\ worker[g].cancelled => worker'[g].cancelled
    <3>1. PICK c \in BOOLEAN : /\ worker[g].cancelled => c
                              /\ worker'[g] = [worker[g] EXCEPT !.cancelled = c]
      BY <2>3
    <3>2. worker[g] \in Worker(A)
      BY <1>3
    <3> QED BY <3>1, <3>2 DEF Worker
  <2> HIDE DEF len
  <2>6. worker' \in Seq(Worker(A))
    <3>1. worker' \in [1 .. len -> Worker(A)]
      <4>1. worker' = [g \in 1 .. len |-> worker'[g]]
        BY <1>1, <2>1, <2>4 DEF Goroutines
      <4> QED BY <2>5, <4>1
    <3> QED BY <1>1, <3>1
  <2>7. worker # << >> => worker' # << >>
    <3>1. worker # << >> => len # 0
      BY EmptySeq DEF len
    <3>2. len # 0 => 1 \in 1 .. len
      BY <1>1 DEF len
    <3>3. worker' = << >> => 1 \notin DOMAIN worker'
      OBVIOUS
    <3> QED BY <2>4, <3>1, <3>2, <3>3
  <2> QED BY <1>1, <1>2, <2>2, <2>4, <2>5, <2>6, <2>7 DEF Goroutines
<1> QED BY <1>4, <1>5

-----------------------------------------------------------------------------
(* The inductive invariant of the checkpoint. *)

Sendable(A) == A \cup {ReadError}
ReaderState(A) == [lastPK : Int, complete : BOOLEAN, nextSeq : Nat, pending : SUBSET A]

\* Where the chunks of the job may be.
JobType ==
  /\ ranges \in Seq(PKRangeRec)
  /\ ranges # << >> => Consecutive(ranges, ranges[1].minPK, MaxPK)
  /\ left \in [Readers -> Seq(Sendable(AllChunks(ranges)))]
  /\ chunkChan \in Seq(Sendable(AllChunks(ranges)))
  /\ pc = "submit" => inHand \in AllChunks(ranges)
  /\ states \in [Readers -> ReaderState(AllChunks(ranges))] /\ draining \in Readers \cup {0}
  /\ configUpdates \in Seq(Nat)

PoolType ==
  /\ jobChan \in Seq(AllChunks(ranges))
  /\ ackChan \in Seq(AllChunks(ranges))
  /\ worker \in Seq(Worker(AllChunks(ranges))) /\ workers \in Seq(Nat)
  /\ \A g \in Goroutines : worker[g].st \in {"write", "ack"} => worker[g].job \in AllChunks(ranges)

\* What is or was acknowledged has been written.
Acknowledged ==
  /\ \A g \in Goroutines : worker[g].st = "ack" => worker[g].job.rows \subseteq target
  /\ \A c \in InChan(ackChan) : c.rows \subseteq target
  /\ \A r \in Readers : \A c \in states[r].pending : c.reader = r /\ c.rows \subseteq target
  /\ \A r \in Readers : \A i \in 1 .. states[r].nextSeq : ChunksOf(ranges, r)[i].rows \subseteq target

\* The state c of reader r of the ranges rs claims no row that is not among the rows ks.
ClaimsWritten(rs, r, c, ks) ==
  /\ c.lastPK \in Int /\ rs[r].minPK <= c.lastPK /\ c.lastPK <= rs[r].maxPK
  /\ RowsBetween(rs[r].minPK, c.lastPK) \subseteq ks
  /\ c.complete => RowsBetween(rs[r].minPK, rs[r].maxPK) \subseteq ks

Claims ==
  /\ \A r \in Readers : ClaimsWritten(ranges, r, states[r], target)
  /\ SomeRange(ranges) => RowsUpTo(ranges[1].minPK) \subseteq target
  /\ gotChunk => SomeRange(ranges)
  /\ saved # NoCheckpoint => saved \in Int64 /\ saved <= MaxPK

CheckpointInv == JobType /\ PoolType /\ Acknowledged /\ Claims /\ CheckpointSafe

\* The key that is saved: of the first reader that is not complete, or of the last one.
\* The rows up to it are those of the readers before it, which have theirs written, those
\* it has written, and those of earlier attempts.
LEMMA SaveSafe ==
  ASSUME NEW rs, rs = ranges, rs \in Seq(PKRangeRec), rs # << >>,
         Consecutive(rs, rs[1].minPK, MaxPK),
         NEW c, NEW ks, \A r \in DOMAIN rs : ClaimsWritten(rs, r, c[r], ks),
         RowsUpTo(rs[1].minPK) \subseteq ks
  PROVE  /\ SafeReader(c) \in DOMAIN rs
         /\ c[SafeReader(c)].lastPK \in Int64 /\ c[SafeReader(c)].lastPK <= MaxPK
         /\ RowsUpTo(c[SafeReader(c)].lastPK) \subseteq ks
<1> DEFINE n == Len(rs)
           s == SafeReader(c)
           T == {i \in 1 .. n : i = n \/ ~c[i].complete}
<1>1. /\ DOMAIN rs = 1 .. n /\ n \in Nat \ {0} /\ rs[n].maxPK = MaxPK
      /\ \A r \in 1 .. n : rs[r].minPK \in Int /\ rs[r].maxPK \in Int /\ rs[r] \in PKRangeRec
  <2>1. Len(rs) > 0 /\ rs[n].maxPK = MaxPK
    BY DEF Consecutive
  <2>2. \A r \in 1 .. n : rs[r] \in PKRangeRec
    BY ElementOfSeq
  <2> QED BY <2>1, <2>2, RangesTyped
<1>2. \A i, j \in 1 .. n : i < j => rs[i].minPK <= rs[i].maxPK /\ rs[i].maxPK <= rs[j].minPK
  BY <1>1, ConsecutiveOrdered
<1>3. \A i \in 1 .. n : rs[i].maxPK <= MaxPK
  BY <1>1, ConsecutiveOrdered
<1>4. \A i \in 1 .. n - 1 : rs[i + 1].minPK = rs[i].maxPK
  BY DEF Consecutive
<1>5. s \in 1 .. n /\ \A j \in 1 .. s - 1 : c[j].complete
  <2>1. T \subseteq Nat /\ T # {}
    BY <1>1
  <2>2. PICK m \in T : \A k \in T : m <= k
    <3> HIDE DEF T
    <3> QED BY <2>1, LeastNat
  <2>3. m \in 1 .. n /\ (m = n \/ ~c[m].complete)
    OBVIOUS
  <2>4. \A j \in 1 .. m - 1 : c[j].complete
    <3> SUFFICES ASSUME NEW j \in 1 .. m - 1, ~c[j].complete PROVE FALSE
      OBVIOUS
    <3>1. j \in T
      <4>1. j \in 1 .. n
        <5> HIDE DEF T, n
        <5> QED BY <1>1, <2>3
      <4> QED BY <4>1
    <3>2. m <= j
      <4> HIDE DEF T
      <4> QED BY <2>2, <3>1
    <3> QED BY <2>3, <3>2
  <2>5. \E i \in Readers : (i = Len(ranges) \/ ~c[i].complete) /\ \A j \in 1 .. i - 1 : c[j].complete
    BY <1>1, <2>3, <2>4 DEF Readers
  <2>6. s \in Readers /\ \A j \in 1 .. s - 1 : c[j].complete
    BY <2>5 DEF SafeReader
  <2> QED BY <1>1, <2>6 DEF Readers
<1> HIDE DEF s, T, n
<1>6. PICK p : p = c[s].lastPK
  OBVIOUS
<1>7. p \in Int /\ rs[s].minPK <= p /\ p <= rs[s].maxPK /\ RowsBetween(rs[s].minPK, p) \subseteq ks
  BY <1>1, <1>5, <1>6 DEF ClaimsWritten
<1>8. p \in Int64 /\ p <= MaxPK
  <2>1. rs[s].minPK \in Int64 /\ rs[s].maxPK \in Int64
    BY <1>1, <1>5 DEF PKRangeRec
  <2>2. MaxPK \in Int
    BY JobAssumption, SourceFacts
  <2> QED BY <1>3, <1>5, <1>7, <2>1, <2>2, HalfWidthAssumption DEF Int64
<1>9. ASSUME NEW k \in RowsUpTo(p) PROVE k \in ks
  <2>1. k \in SourcePKs /\ k \in Int /\ k <= p
    BY <1>9, SourceFacts DEF RowsUpTo, JobRows
  <2>2. CASE k <= rs[1].minPK
    BY <1>9, <2>2 DEF RowsUpTo
  <2>3. CASE ~(k <= rs[1].minPK)
    <3> DEFINE U == {i \in 1 .. n : k <= rs[i].maxPK}
    <3>1. U \subseteq Nat /\ U # {}
      <4>1. s \in U
        BY <1>1, <1>5, <1>7, <2>1
      <4> QED BY <4>1
    <3>2. PICK m \in U : \A i \in U : m <= i
      <4> HIDE DEF U
      <4> QED BY <3>1, LeastNat
    <3>3. m \in 1 .. n /\ k <= rs[m].maxPK
      OBVIOUS
    <3>4. rs[m].minPK < k
      <4>1. CASE m = 1
        BY <1>1, <2>1, <2>3, <3>3, <4>1
      <4>2. CASE m # 1
        <5>1. m - 1 \in 1 .. n /\ m - 1 \in 1 .. n - 1 /\ (m - 1) + 1 = m
          BY <1>1, <3>3, <4>2
        <5>2. m - 1 \notin U
          <6>1. ~(m <= m - 1)
            BY <3>3
          <6> HIDE DEF U
          <6> QED BY <3>2, <6>1
        <5>3. ~(k <= rs[m - 1].maxPK)
          BY <5>1, <5>2
        <5>4. rs[m].minPK = rs[m - 1].maxPK
          BY <1>4, <5>1
        <5> QED BY <1>1, <2>1, <3>3, <5>1, <5>3, <5>4
      <4> QED BY <4>1, <4>2
    <3>5. m <= s
      <4>1. s \in U
        BY <1>1, <1>5, <1>7, <2>1
      <4> HIDE DEF U
      <4> QED BY <3>2, <4>1
    <3> HIDE DEF U
    <3>6. CASE m = s
      <4>1. k \in RowsBetween(rs[s].minPK, p)
        BY <2>1, <3>4, <3>6 DEF RowsBetween
      <4> QED BY <1>7, <4>1
    <3>7. CASE m # s
      <4>1. m \in 1 .. s - 1 /\ m \in DOMAIN rs
        BY <1>1, <1>5, <3>3, <3>5, <3>7
      <4>2. c[m].complete
        BY <1>5, <4>1
      <4>3. RowsBetween(rs[m].minPK, rs[m].maxPK) \subseteq ks
        BY <4>1, <4>2 DEF ClaimsWritten
      <4>4. k \in RowsBetween(rs[m].minPK, rs[m].maxPK)
        BY <2>1, <3>3, <3>4 DEF RowsBetween
      <4> QED BY <4>3, <4>4
    <3> QED BY <3>6, <3>7
  <2> QED BY <2>2, <2>3
<1> QED BY <1>1, <1>5, <1>6, <1>8, <1>9 DEF s

\* A reader's state and what is due next: the acknowledgement of a written chunk after
\* those of written chunks claims written rows.
LEMMA AppliedClaims ==
  ASSUME NEW rs \in Seq(PKRangeRec), NEW a \in AllChunks(rs), NEW ks, a.rows \subseteq ks,
         NEW s, ClaimsWritten(rs, a.reader, s, ks), s.complete \in BOOLEAN,
         \A i \in 1 .. a.seq : ChunksOf(rs, a.reader)[i].rows \subseteq ks,
         NEW t, t.lastPK = a.lastPK, t.complete = (s.complete \/ a.lastPK >= rs[a.reader].maxPK)
  PROVE  ClaimsWritten(rs, a.reader, t, ks)
<1> DEFINE r == a.reader
           cs == ChunksOf(rs, r)
           lo == rs[r].minPK
           hi == rs[r].maxPK
<1>1. /\ r \in DOMAIN rs /\ a.seq \in Nat /\ a.seq + 1 \in DOMAIN cs /\ a = cs[a.seq + 1]
      /\ a.lastPK \in RowsBetween(lo, hi) /\ ReaderChunks(rs, r)
  BY ChunkFacts
<1>2. lo \in Int /\ hi \in Int
  BY <1>1, RangesTyped
<1>3. a.lastPK \in Int /\ lo < a.lastPK /\ a.lastPK <= hi
  <2>1. RowsBetween(lo, hi) \in SUBSET Int
    BY <1>2, SourceFacts
  <2> QED BY <1>1, <2>1 DEF RowsBetween
<1>4. ASSUME NEW k \in RowsBetween(lo, a.lastPK) PROVE k \in ks
  <2>1. k \in SourcePKs /\ k \in Int /\ lo < k /\ k <= a.lastPK
    BY SourceFacts DEF RowsBetween
  <2>2. k \in RowsBetween(lo, hi)
    BY <1>2, <1>3, <2>1 DEF RowsBetween
  <2>3. PICK j \in 1 .. a.seq + 1 : k \in cs[j].rows
    <3> HIDE DEF cs, r, lo, hi
    <3>1. \A i \in DOMAIN cs : \A m \in RowsBetween(lo, hi) :
            m <= cs[i].lastPK => \E j \in 1 .. i : m \in cs[j].rows
      BY <1>1 DEF ReaderChunks, cs, r, lo, hi
    <3> QED BY <1>1, <2>1, <2>2, <3>1
  <2>4. CASE j = a.seq + 1
    BY <1>1, <2>3, <2>4
  <2>5. CASE j # a.seq + 1
    <3>1. j \in 1 .. a.seq
      BY <1>1, <2>5
    <3> QED BY <2>3, <3>1
  <2> QED BY <2>4, <2>5
<1>5. t.complete => RowsBetween(lo, hi) \subseteq ks
  <2>1. CASE s.complete
    BY <2>1 DEF ClaimsWritten
  <2>2. CASE a.lastPK >= hi
    <3>1. a.lastPK = hi
      BY <1>2, <1>3, <2>2
    <3> QED BY <1>4, <3>1
  <2> QED BY <2>1, <2>2
<1> QED BY <1>2, <1>3, <1>4, <1>5 DEF ClaimsWritten

\* The steps that acknowledge nothing: the states of the readers, the acknowledgements and
\* the saved key stay, and rows are only added.
LEMMA NothingClaimed ==
  ASSUME CheckpointInv, UNCHANGED <<ranges, states, saved, ackChan, worker>>, target \subseteq target',
         gotChunk' => gotChunk \/ SomeRange(ranges), JobType', PoolType'
  PROVE  CheckpointInv'
<1>1. Readers' = Readers /\ Goroutines' = Goroutines
  BY DEF Readers, Goroutines
<1>2. Acknowledged'
  <2>1. Acknowledged
    BY DEF CheckpointInv
  <2> QED BY <1>1, <2>1 DEF Acknowledged
<1>3. Claims'
  <2>1. Claims
    BY DEF CheckpointInv
  <2>2. \A r \in Readers : ClaimsWritten(ranges, r, states[r], target)'
    <3> SUFFICES ASSUME NEW r \in Readers PROVE ClaimsWritten(ranges, r, states[r], target)'
      OBVIOUS
    <3>1. ClaimsWritten(ranges, r, states[r], target)
      BY <2>1 DEF Claims
    <3>2. ClaimsWritten(ranges, r, states[r], target')
      BY <3>1 DEF ClaimsWritten
    <3> QED BY <3>2
  <2> QED BY <1>1, <2>1, <2>2 DEF Claims
<1>4. CheckpointSafe'
  BY DEF CheckpointInv, CheckpointSafe
<1> QED BY <1>2, <1>3, <1>4 DEF CheckpointInv

LEMMA CheckpointInit == Init => CheckpointInv
<1> SUFFICES ASSUME Init PROVE CheckpointInv
  OBVIOUS
<1>1. /\ saved = NoCheckpoint /\ pc = "idle" /\ ranges = <<>> /\ left = <<>> /\ chunkChan = <<>>
      /\ gotChunk = FALSE /\ states = <<>> /\ draining = 0 /\ configUpdates = <<>>
      /\ jobChan = <<>> /\ ackChan = <<>> /\ worker = <<>> /\ workers = <<>>
  BY DEF Init, PoolInit
<1>2. /\ Readers = {} /\ Goroutines = {} /\ InChan(ackChan) = {}
      /\ \A S : <<>> \in Seq(S) /\ <<>> \in [{} -> S]
  BY <1>1, EmptyChan DEF Readers, Goroutines
<1>3. ~SomeRange(ranges)
  BY <1>1, <1>2 DEF SomeRange, Readers
<1>4. JobType /\ PoolType
  BY <1>1, <1>2 DEF JobType, PoolType
<1>5. Acknowledged /\ Claims
  BY <1>1, <1>2, <1>3 DEF Acknowledged, Claims
<1> QED BY <1>1, <1>4, <1>5 DEF CheckpointInv, CheckpointSafe

LEMMA ReadersStep ==
  ASSUME CheckpointInv, NEW r \in Readers, ReaderStep(r)
  PROVE  CheckpointInv'
<1> DEFINE S == Sendable(AllChunks(ranges))
<1>1. /\ JobType /\ PoolType /\ Readers' = Readers /\ AllChunks(ranges)' = AllChunks(ranges)
      /\ left \in [Readers -> Seq(S)] /\ chunkChan \in Seq(S)
      /\ UNCHANGED <<ranges, states, draining, saved, ackChan, worker, target, gotChunk, pc, inHand,
                     configUpdates, jobChan, workers>>
  BY DEF CheckpointInv, JobType, ReaderStep, ReadFails, Send, durable, ackVars, queueVars, consVars,
         poolVars, Readers
<1>2. left' \in [Readers -> Seq(S)] /\ chunkChan' \in Seq(S)
  <2>1. CASE ReadFails(r)
    <3>1. <<ReadError>> \in Seq(S)
      BY DEF Sendable
    <3> HIDE DEF S
    <3> QED BY <1>1, <2>1, <3>1 DEF ReadFails
  <2>2. CASE Send(r)
    <3> HIDE DEF S
    <3>1. left[r] \in Seq(S) /\ left[r] # <<>>
      BY <1>1, <2>2 DEF Send
    <3>2. Tail(left[r]) \in Seq(S) /\ Head(left[r]) \in S
      BY <3>1, TailChan
    <3>3. Append(chunkChan, Head(left[r])) \in Seq(S)
      BY <1>1, <3>2, AppendChan
    <3> QED BY <1>1, <2>2, <3>2, <3>3 DEF Send
  <2> QED BY <2>1, <2>2 DEF ReaderStep
<1>3. JobType'
  BY <1>1, <1>2 DEF JobType
<1>4. PoolType'
  BY <1>1 DEF PoolType, Goroutines
<1> QED BY <1>1, <1>3, <1>4, NothingClaimed

\* The environment, and the consumer's steps that neither receive, submit, scale nor return.
LEMMA QuietSteps ==
  ASSUME CheckpointInv, ChunksEnd \/ Wait \/ UpdateConfig \/ Cancel \/ Terminated \/ UNCHANGED vars
  PROVE  CheckpointInv'
<1>1. /\ JobType /\ PoolType /\ Readers' = Readers /\ Goroutines' = Goroutines
      /\ AllChunks(ranges)' = AllChunks(ranges)
      /\ UNCHANGED <<ranges, left, chunkChan, states, draining, saved, ackChan, worker, target, gotChunk,
                     inHand, jobChan, workers>>
  BY DEF CheckpointInv, ChunksEnd, Wait, CloseJobs, UpdateConfig, Cancel, CancelPool, Terminated,
         vars, jobVars, durable, readVars, ackVars, queueVars, consVars, poolVars, Readers, Goroutines
<1>2. pc' = "submit" => pc = "submit"
  BY DEF ChunksEnd, Wait, UpdateConfig, Cancel, Terminated, vars, jobVars, consVars
<1>3. configUpdates' \in Seq(Nat)
  <2>1. configUpdates \in Seq(Nat)
    BY <1>1 DEF JobType
  <2>2. CASE UpdateConfig
    <3>1. PICK n \in Updates : configUpdates' = Append(configUpdates, n)
      BY <2>2 DEF UpdateConfig
    <3>2. n \in Nat
      BY JobAssumption
    <3> QED BY <2>1, <3>1, <3>2, AppendChan
  <2>3. CASE ChunksEnd \/ Wait \/ Cancel \/ Terminated \/ UNCHANGED vars
    <3>1. configUpdates' = configUpdates
      BY <2>3 DEF ChunksEnd, Wait, Cancel, Terminated, vars, jobVars, queueVars
    <3> QED BY <2>1, <3>1
  <2> QED BY <2>2, <2>3
<1>4. JobType'
  BY <1>1, <1>2, <1>3 DEF JobType
<1>5. PoolType'
  BY <1>1 DEF PoolType
<1> QED BY <1>1, <1>4, <1>5, NothingClaimed

\* A chunk that is received makes its reader's range one that is not empty.
LEMMA SomeChunk ==
  ASSUME NEW rs \in Seq(PKRangeRec), AllChunks(rs) # {}
  PROVE  SomeRange(rs)
<1>1. PICK c \in AllChunks(rs) : TRUE
  OBVIOUS
<1>2. c.reader \in DOMAIN rs /\ c.lastPK \in RowsBetween(rs[c.reader].minPK, rs[c.reader].maxPK)
  BY <1>1, ChunkFacts
<1>3. rs[c.reader].minPK \in Int /\ rs[c.reader].maxPK \in Int
  BY <1>2, RangesTyped
<1>4. PICK k \in Int : rs[c.reader].minPK < k /\ k <= rs[c.reader].maxPK
  BY <1>2, SourceFacts DEF RowsBetween
<1>5. rs[c.reader].minPK < rs[c.reader].maxPK
  BY <1>3, <1>4
<1> QED BY <1>2, <1>5 DEF SomeRange

LEMMA ReceiveStep ==
  ASSUME CheckpointInv, Receive
  PROVE  CheckpointInv'
<1> DEFINE A == AllChunks(ranges)
<1>1. /\ JobType /\ PoolType /\ Readers' = Readers /\ Goroutines' = Goroutines
      /\ AllChunks(ranges)' = AllChunks(ranges)
      /\ UNCHANGED <<ranges, left, states, draining, saved, ackChan, worker, target, configUpdates, jobChan, workers>>
  BY DEF CheckpointInv, Receive, durable, ackVars, queueVars, CancelPool, poolVars, Readers, Goroutines
<1>2. chunkChan \in Seq(Sendable(A)) /\ ranges \in Seq(PKRangeRec)
  BY <1>1 DEF JobType
<1>3. Tail(chunkChan) \in Seq(Sendable(A)) /\ Head(chunkChan) \in Sendable(A)
  <2>1. chunkChan # <<>>
    BY DEF Receive
  <2> QED BY <1>2, <2>1, TailChan
<1>4. chunkChan' = Tail(chunkChan)
  BY DEF Receive
<1>5. CASE Head(chunkChan) = ReadError
  <2>1. pc' = "wait" /\ gotChunk' = gotChunk
    BY <1>5 DEF Receive
  <2>2. JobType'
    BY <1>1, <1>3, <1>4, <2>1 DEF JobType
  <2>3. PoolType'
    BY <1>1 DEF PoolType
  <2> QED BY <1>1, <2>1, <2>2, <2>3, NothingClaimed
<1>6. CASE Head(chunkChan) # ReadError
  <2>1. inHand' = Head(chunkChan) /\ inHand' \in A
    BY <1>3, <1>6 DEF Receive, Sendable
  <2>2. SomeRange(ranges)
    BY <1>2, <2>1, SomeChunk
  <2>3. JobType'
    BY <1>1, <1>3, <1>4, <2>1 DEF JobType
  <2>4. PoolType'
    BY <1>1 DEF PoolType
  <2> QED BY <1>1, <2>2, <2>3, <2>4, NothingClaimed
<1> QED BY <1>5, <1>6

LEMMA SubmitStep ==
  ASSUME CheckpointInv, Submit
  PROVE  CheckpointInv'
<1>1. /\ JobType /\ PoolType /\ Readers' = Readers /\ Goroutines' = Goroutines
      /\ AllChunks(ranges)' = AllChunks(ranges) /\ pc = "submit" /\ pc' # "submit"
      /\ UNCHANGED <<ranges, left, chunkChan, states, draining, saved, ackChan, worker, target, gotChunk,
                     configUpdates, workers>>
  BY DEF CheckpointInv, Submit, SubmitTaken, SubmitRefused, durable, readVars, ackVars, queueVars,
         poolVars, Readers, Goroutines
<1>2. inHand \in AllChunks(ranges)
  BY <1>1 DEF JobType
<1>3. jobChan' \in Seq(AllChunks(ranges))
  <2>1. jobChan \in Seq(AllChunks(ranges))
    BY <1>1 DEF PoolType
  <2>2. Append(jobChan, inHand) \in Seq(AllChunks(ranges))
    BY <1>2, <2>1, AppendChan
  <2>3. jobChan' = jobChan \/ jobChan' = Append(jobChan, inHand)
    BY DEF Submit, SubmitTaken, SubmitRefused, poolVars
  <2> QED BY <2>1, <2>2, <2>3
<1>4. JobType'
  BY <1>1 DEF JobType
<1>5. PoolType'
  BY <1>1, <1>3 DEF PoolType
<1> QED BY <1>1, <1>4, <1>5, NothingClaimed

LEMMA TakeUpdateStep ==
  ASSUME CheckpointInv, TakeUpdate
  PROVE  CheckpointInv'
<1> DEFINE A == AllChunks(ranges)
<1>1. /\ JobType /\ PoolType /\ Acknowledged /\ Claims /\ CheckpointSafe /\ Readers' = Readers
      /\ AllChunks(ranges)' = AllChunks(ranges) /\ pc' # "submit"
      /\ UNCHANGED <<ranges, left, chunkChan, states, draining, saved, target, gotChunk>>
  BY DEF CheckpointInv, TakeUpdate, durable, readVars, ackVars, Readers
<1>2. CASE UNCHANGED poolVars
  <2>1. UNCHANGED <<jobChan, ackChan, worker, workers>> /\ Goroutines' = Goroutines
    BY <1>2 DEF poolVars, Goroutines
  <2>2. configUpdates' \in Seq(Nat)
    <3>1. configUpdates \in Seq(Nat)
      BY <1>1 DEF JobType
    <3>2. configUpdates # <<>> => Tail(configUpdates) \in Seq(Nat)
      BY <3>1, TailChan
    <3> QED BY <3>1, <3>2 DEF TakeUpdate
  <2>3. JobType'
    BY <1>1, <2>2 DEF JobType
  <2>4. PoolType'
    BY <1>1, <2>1 DEF PoolType
  <2> QED BY <1>1, <2>1, <2>3, <2>4, NothingClaimed
<1>3. CASE configUpdates # <<>> /\ ScaleWorkers(Head(configUpdates))
  <2>1. configUpdates' = Tail(configUpdates) /\ configUpdates \in Seq(Nat)
    BY <1>1, <1>3 DEF TakeUpdate, JobType
  <2>2. configUpdates' \in Seq(Nat)
    BY <1>3, <2>1, TailChan
  <2>3. PICK n \in Nat : n = Head(configUpdates)
    BY <1>3, <2>1, TailChan
  <2>4. worker \in Seq(Worker(A)) /\ workers \in Seq(Nat) /\ ScaleWorkers(n)
    BY <1>1, <1>3, <2>3 DEF PoolType
  <2>5. /\ worker' \in Seq(Worker(A)) /\ workers' \in Seq(Nat) /\ Goroutines \subseteq Goroutines'
        /\ \A g \in Goroutines : worker'[g].st = worker[g].st /\ worker'[g].job = worker[g].job
        /\ \A g \in Goroutines' : g \notin Goroutines => worker'[g].st = "idle"
        /\ UNCHANGED <<jobChan, ackChan>>
    <3> HIDE DEF A
    <3> QED BY <2>4, WorkersScale
  <2>6. JobType'
    BY <1>1, <2>2 DEF JobType
  <2>7. PoolType'
    BY <1>1, <2>5 DEF PoolType
  <2>8. Acknowledged'
    BY <1>1, <2>5 DEF Acknowledged
  <2>9. Claims'
    BY <1>1 DEF Claims
  <2> QED BY <1>1, <2>6, <2>7, <2>8, <2>9 DEF CheckpointInv, CheckpointSafe
<1> QED BY <1>2, <1>3 DEF TakeUpdate

LEMMA ReturnStep ==
  ASSUME CheckpointInv, Return
  PROVE  CheckpointInv'
<1>1. /\ JobType /\ PoolType /\ Acknowledged /\ Claims /\ CheckpointSafe
      /\ Readers' = Readers /\ Goroutines' = Goroutines
      /\ AllChunks(ranges)' = AllChunks(ranges) /\ pc' # "submit"
      /\ UNCHANGED <<ranges, left, chunkChan, states, draining, configUpdates, target, gotChunk, jobChan, ackChan,
                     worker, workers>>
  BY DEF CheckpointInv, Return, readVars, ackVars, queueVars, poolVars, Readers, Goroutines
<1>2. JobType'
  BY <1>1 DEF JobType
<1>3. PoolType'
  BY <1>1 DEF PoolType
<1>4. CASE saved' = saved
  BY <1>1, <1>2, <1>3, <1>4, NothingClaimed
<1>5. CASE saved' # saved
  <2>1. gotChunk /\ saved' = states[SafeReader(states)].lastPK
    BY <1>5 DEF Return, SaveProgress
  <2>2. SomeRange(ranges) /\ RowsUpTo(ranges[1].minPK) \subseteq target
    BY <1>1, <2>1 DEF Claims
  <2>3. ranges \in Seq(PKRangeRec) /\ ranges # << >>
    BY <1>1, <2>2, EmptySeq DEF JobType, SomeRange
  <2>4. /\ Consecutive(ranges, ranges[1].minPK, MaxPK)
        /\ \A r \in DOMAIN ranges : ClaimsWritten(ranges, r, states[r], target)
    BY <1>1, <2>3 DEF JobType, Claims, Readers
  <2>5. /\ states[SafeReader(states)].lastPK \in Int64 /\ states[SafeReader(states)].lastPK <= MaxPK
        /\ RowsUpTo(states[SafeReader(states)].lastPK) \subseteq target
    BY <2>2, <2>3, <2>4, SaveSafe
  <2>6. Claims'
    BY <1>1, <2>1, <2>5 DEF Claims
  <2>7. CheckpointSafe'
    BY <1>1, <2>1, <2>5 DEF CheckpointSafe, RowsUpTo
  <2>8. Acknowledged'
    BY <1>1 DEF Acknowledged
  <2> QED BY <1>2, <1>3, <2>6, <2>7, <2>8 DEF CheckpointInv
<1> QED BY <1>4, <1>5

\* What a step of a worker does: it moves on with a job or with none, takes a job from the
\* channel or acknowledges the one it has written, and adds rows.
LEMMA WorkerDoes ==
  ASSUME CheckpointInv, NEW g \in Goroutines, WorkerStep(g)
  PROVE  /\ UNCHANGED <<ranges, left, chunkChan, inHand, pc, states, draining, configUpdates, saved, gotChunk, workers>>
         /\ target \subseteq target'
         /\ jobChan' \in Seq(AllChunks(ranges))
         /\ \/ ackChan' = ackChan
            \/ worker[g].st = "ack" /\ ackChan' = Append(ackChan, worker[g].job)
         /\ \E st \in {"idle", "write", "ack", "gone"} : \E m \in AllChunks(ranges) \cup {NoJob} :
              /\ SetWorker(g, st, m)
              /\ st \in {"write", "ack"} => m \in AllChunks(ranges)
              /\ st = "ack" => m.rows \subseteq target'
<1> DEFINE A == AllChunks(ranges)
           Moves(st, m) == /\ SetWorker(g, st, m)
                           /\ st \in {"write", "ack"} => m \in A
                           /\ st = "ack" => m.rows \subseteq target'
<1>1. PoolType
  BY DEF CheckpointInv
<1>2. jobChan \in Seq(A) /\ (worker[g].st \in {"write", "ack"} => worker[g].job \in A)
  BY <1>1 DEF PoolType
<1>3. NoJob \in A \cup {NoJob} /\ A \subseteq A \cup {NoJob}
  OBVIOUS
<1> HIDE DEF A
<1>4. CASE Write(g)
  <2>1. UNCHANGED <<ranges, left, chunkChan, inHand, pc, states, draining, configUpdates, saved, gotChunk, workers, jobChan, ackChan>>
    BY <1>4 DEF Write, WriteReturns, readVars, ackVars, queueVars, consVars
  <2>2. worker[g].st = "write" /\ target' = target \cup worker[g].job.rows /\ worker[g].job \in A
    BY <1>2, <1>4 DEF Write
  <2>3. Moves("ack", worker[g].job) \/ Moves("idle", NoJob)
    BY <1>4, <2>2 DEF Write, WriteReturns
  <2> QED BY <1>2, <1>3, <2>1, <2>2, <2>3 DEF A
<1>5. CASE WriteFails(g)
  <2>1. UNCHANGED <<ranges, left, chunkChan, inHand, pc, states, draining, configUpdates, saved, gotChunk, workers, jobChan, ackChan>>
    BY <1>5 DEF WriteFails, WriteReturnsError, readVars, ackVars, queueVars, consVars
  <2>2. target \subseteq target'
    BY <1>5 DEF WriteFails
  <2>3. Moves("gone", NoJob)
    BY <1>5 DEF WriteFails, WriteReturnsError
  <2> QED BY <1>2, <1>3, <2>1, <2>2, <2>3 DEF A
<1>6. CASE TakeJob(g) /\ UNCHANGED jobVars
  <2>1. UNCHANGED <<ranges, left, chunkChan, inHand, pc, states, draining, configUpdates, saved, gotChunk, workers, ackChan, target>>
    BY <1>6 DEF TakeJob, jobVars, durable, readVars, ackVars, queueVars, consVars
  <2>2. jobChan' \in Seq(A) /\ Head(jobChan) \in A
    <3>1. jobChan # <<>> /\ jobChan' = Tail(jobChan)
      BY <1>6 DEF TakeJob
    <3> QED BY <1>2, <3>1, TailChan
  <2>3. Moves("gone", NoJob) \/ Moves("write", Head(jobChan))
    BY <1>6, <2>2 DEF TakeJob
  <2> QED BY <1>2, <1>3, <2>1, <2>2, <2>3 DEF A
<1>7. CASE JobsEnd(g) /\ UNCHANGED jobVars
  <2>1. UNCHANGED <<ranges, left, chunkChan, inHand, pc, states, draining, configUpdates, saved, gotChunk, workers, ackChan, jobChan, target>>
    BY <1>7 DEF JobsEnd, jobVars, durable, readVars, ackVars, queueVars, consVars
  <2>2. Moves("gone", NoJob)
    BY <1>7 DEF JobsEnd
  <2> QED BY <1>2, <1>3, <2>1, <2>2 DEF A
<1>8. CASE SendAck(g) /\ UNCHANGED jobVars
  <2>1. UNCHANGED <<ranges, left, chunkChan, inHand, pc, states, draining, configUpdates, saved, gotChunk, workers, jobChan, target>>
    BY <1>8 DEF SendAck, jobVars, durable, readVars, ackVars, queueVars, consVars
  <2>2. worker[g].st = "ack" /\ (ackChan' = ackChan \/ ackChan' = Append(ackChan, worker[g].job))
    BY <1>8 DEF SendAck
  <2>3. Moves("gone", NoJob) \/ Moves("idle", NoJob)
    BY <1>8 DEF SendAck
  <2> QED BY <1>2, <1>3, <2>1, <2>2, <2>3 DEF A
<1> QED BY <1>4, <1>5, <1>6, <1>7, <1>8 DEF WorkerStep

LEMMA WorkersStep ==
  ASSUME CheckpointInv, NEW g \in Goroutines, WorkerStep(g)
  PROVE  CheckpointInv'
<1> DEFINE A == AllChunks(ranges)
<1>1. /\ JobType /\ PoolType /\ Acknowledged /\ Claims /\ CheckpointSafe
  BY DEF CheckpointInv
<1>2. /\ UNCHANGED <<ranges, left, chunkChan, inHand, pc, states, draining, configUpdates, saved, gotChunk, workers>>
      /\ target \subseteq target' /\ jobChan' \in Seq(A)
      /\ ackChan' = ackChan \/ (worker[g].st = "ack" /\ ackChan' = Append(ackChan, worker[g].job))
      /\ \E st \in {"idle", "write", "ack", "gone"} : \E m \in A \cup {NoJob} :
           /\ SetWorker(g, st, m)
           /\ st \in {"write", "ack"} => m \in A
           /\ st = "ack" => m.rows \subseteq target'
  BY WorkerDoes
<1>3. Readers' = Readers /\ AllChunks(ranges)' = AllChunks(ranges)
  BY <1>2 DEF Readers
<1>4. worker \in Seq(Worker(A)) /\ ackChan \in Seq(A) /\ (worker[g].st = "ack" => worker[g].job \in A)
  BY <1>1 DEF PoolType
<1> HIDE DEF A
<1>5. PICK st \in {"idle", "write", "ack", "gone"} : \E m \in A \cup {NoJob} :
           /\ SetWorker(g, st, m)
           /\ st \in {"write", "ack"} => m \in A
           /\ st = "ack" => m.rows \subseteq target'
  BY <1>2
<1>6. PICK m \in A \cup {NoJob} : /\ SetWorker(g, st, m)
                                  /\ st \in {"write", "ack"} => m \in A
                                  /\ st = "ack" => m.rows \subseteq target'
  BY <1>5
<1>7. /\ worker' \in Seq(Worker(A)) /\ Goroutines' = Goroutines
      /\ worker'[g].st = st /\ worker'[g].job = m
      /\ \A h \in Goroutines : h # g => worker'[h] = worker[h]
  BY <1>4, <1>6, WorkerMoves
<1>8. ackChan' \in Seq(A) /\ \A c \in InChan(ackChan)' : c.rows \subseteq target'
  <2>1. \A c \in InChan(ackChan) : c.rows \subseteq target
    BY <1>1 DEF Acknowledged
  <2>2. CASE ackChan' = ackChan
    BY <1>2, <1>4, <2>1, <2>2
  <2>3. CASE worker[g].st = "ack" /\ ackChan' = Append(ackChan, worker[g].job)
    <3>1. worker[g].job \in A /\ worker[g].job.rows \subseteq target
      BY <1>1, <1>4, <2>3 DEF Acknowledged
    <3>2. Append(ackChan, worker[g].job) \in Seq(A)
          /\ InChan(Append(ackChan, worker[g].job)) = InChan(ackChan) \cup {worker[g].job}
      BY <1>4, <3>1, AppendChan
    <3> QED BY <1>2, <2>1, <2>3, <3>1, <3>2
  <2> QED BY <1>2, <2>2, <2>3
<1>9. JobType'
  BY <1>1, <1>2, <1>3 DEF JobType
<1>10. PoolType'
  <2>1. \A h \in Goroutines : worker'[h].st \in {"write", "ack"} => worker'[h].job \in A
    BY <1>1, <1>6, <1>7 DEF PoolType, A
  <2>2. workers' \in Seq(Nat)
    BY <1>1, <1>2 DEF PoolType
  <2> QED BY <1>2, <1>3, <1>7, <1>8, <2>1, <2>2 DEF PoolType, A
<1>11. Acknowledged'
  <2>1. \A h \in Goroutines : worker'[h].st = "ack" => worker'[h].job.rows \subseteq target'
    BY <1>1, <1>2, <1>6, <1>7 DEF Acknowledged
  <2> QED BY <1>1, <1>2, <1>3, <1>7, <1>8, <2>1 DEF Acknowledged
<1>12. Claims'
  <2>1. \A r \in Readers : ClaimsWritten(ranges, r, states[r], target)'
    <3> SUFFICES ASSUME NEW r \in Readers PROVE ClaimsWritten(ranges, r, states[r], target)'
      OBVIOUS
    <3>1. ClaimsWritten(ranges, r, states[r], target)
      BY <1>1 DEF Claims
    <3>2. ClaimsWritten(ranges, r, states[r], target')
      BY <1>2, <3>1 DEF ClaimsWritten
    <3> QED BY <1>2, <3>2
  <2> QED BY <1>1, <1>2, <1>3, <2>1 DEF Claims
<1>13. CheckpointSafe'
  BY <1>1, <1>2 DEF CheckpointSafe
<1> QED BY <1>9, <1>10, <1>11, <1>12, <1>13 DEF CheckpointInv

\* The state of a reader after its acknowledgement a.
LEMMA AppliedIs ==
  ASSUME JobType, NEW a \in AllChunks(ranges)
  PROVE  /\ a.reader \in Readers /\ DOMAIN Applied(a) = Readers
         /\ Applied(a)[a.reader].lastPK = a.lastPK
         /\ Applied(a)[a.reader].complete
              = (states[a.reader].complete \/ a.lastPK >= ranges[a.reader].maxPK)
         /\ Applied(a)[a.reader] \in ReaderState(AllChunks(ranges))
         /\ Applied(a)[a.reader].pending = states[a.reader].pending
         /\ \A r \in Readers : r # a.reader => Applied(a)[r] = states[r]
<1> DEFINE A == AllChunks(ranges)
<1>1. ranges \in Seq(PKRangeRec) /\ states \in [Readers -> ReaderState(A)]
  BY DEF JobType
<1>2. a.reader \in Readers /\ a.lastPK \in Int
  <2>1. a.reader \in DOMAIN ranges /\ a.lastPK \in RowsBetween(ranges[a.reader].minPK, ranges[a.reader].maxPK)
    BY <1>1, ChunkFacts
  <2>2. ranges[a.reader].minPK \in Int /\ ranges[a.reader].maxPK \in Int
    BY <1>1, <2>1, RangesTyped
  <2> QED BY <2>1, <2>2, SourceFacts DEF Readers
<1> HIDE DEF A
<1>3. PICK r \in Readers : r = a.reader
  BY <1>2
<1>4. PICK e \in BOOLEAN : e = (states[r].complete \/ a.lastPK >= ranges[r].maxPK)
  OBVIOUS
<1>5. states[r] \in ReaderState(A)
  BY <1>1
<1>6. PICK t : t = [states[r] EXCEPT !.lastPK = a.lastPK, !.complete = e]
  OBVIOUS
<1>7. t \in ReaderState(A) /\ t.lastPK = a.lastPK /\ t.complete = e /\ t.pending = states[r].pending
  BY <1>2, <1>5, <1>6 DEF ReaderState
<1>8. Applied(a) = [states EXCEPT ![r] = t]
  <2>1. Applied(a) = [states EXCEPT ![r].lastPK = a.lastPK,
                                    ![r].complete = @ \/ a.lastPK >= ranges[r].maxPK]
    BY <1>3 DEF Applied
  <2> QED BY <1>1, <1>4, <1>5, <1>6, <2>1
<1>9. /\ DOMAIN Applied(a) = Readers /\ Applied(a)[r] = t
      /\ \A h \in Readers : h # r => Applied(a)[h] = states[h]
  BY <1>1, <1>8
<1> QED BY <1>3, <1>4, <1>7, <1>9 DEF A

\* A round of onAck, for an acknowledgement that its reader is due.
LEMMA AckRoundClaims ==
  ASSUME CheckpointInv, NEW a \in AllChunks(ranges), a.rows \subseteq target,
         a.seq = states[a.reader].nextSeq, AckRound(a), UNCHANGED <<ranges, target, gotChunk>>
  PROVE  /\ states' \in [Readers -> ReaderState(AllChunks(ranges))]
         /\ \A r \in Readers : \A c \in states'[r].pending : c.reader = r /\ c.rows \subseteq target
         /\ \A r \in Readers : \A i \in 1 .. states'[r].nextSeq : ChunksOf(ranges, r)[i].rows \subseteq target
         /\ draining' \in Readers \cup {0} /\ Claims' /\ CheckpointSafe'
<1> DEFINE A == AllChunks(ranges)
           ap == Applied(a)
           r == a.reader
<1>1. /\ JobType /\ Acknowledged /\ Claims /\ CheckpointSafe /\ Readers' = Readers
      /\ ranges \in Seq(PKRangeRec) /\ states \in [Readers -> ReaderState(A)]
  BY DEF CheckpointInv, JobType, Readers
<1>2. /\ r \in Readers /\ DOMAIN ap = Readers
      /\ ap[r].lastPK = a.lastPK /\ ap[r].complete = (states[r].complete \/ a.lastPK >= ranges[r].maxPK)
      /\ ap[r] \in ReaderState(A) /\ ap[r].pending = states[r].pending
      /\ \A h \in Readers : h # r => ap[h] = states[h]
  BY <1>1, AppliedIs
<1>3. /\ a.seq \in Nat /\ a = ChunksOf(ranges, r)[a.seq + 1]
  BY <1>1, ChunkFacts
<1>4. ap \in [Readers -> ReaderState(A)]
  <2>1. \A h \in Readers : ap[h] \in ReaderState(A)
    BY <1>1, <1>2
  <2>2. ap = [h \in Readers |-> ap[h]]
    BY <1>2 DEF ap, Applied
  <2> HIDE DEF ap, A
  <2> QED BY <2>1, <2>2
<1>5. \A h \in Readers : ClaimsWritten(ranges, h, ap[h], target)
  <2> SUFFICES ASSUME NEW h \in Readers PROVE ClaimsWritten(ranges, h, ap[h], target)
    OBVIOUS
  <2>1. ClaimsWritten(ranges, h, states[h], target)
    BY <1>1 DEF Claims
  <2>2. CASE h # r
    BY <1>2, <2>1, <2>2
  <2>3. CASE h = r
    <3> HIDE DEF ap
    <3>1. states[r].complete \in BOOLEAN
      BY <1>1, <1>2 DEF ReaderState
    <3>2. \A i \in 1 .. a.seq : ChunksOf(ranges, a.reader)[i].rows \subseteq target
      BY <1>1, <1>2 DEF Acknowledged
    <3>3. ClaimsWritten(ranges, a.reader, states[r], target)
      BY <2>1, <2>3
    <3>4. ap[r].lastPK = a.lastPK
          /\ ap[r].complete = (states[r].complete \/ a.lastPK >= ranges[a.reader].maxPK)
      BY <1>2
    <3>5. ClaimsWritten(ranges, a.reader, ap[r], target)
      <4> HIDE DEF r
      <4> QED BY <1>1, <3>1, <3>2, <3>3, <3>4, AppliedClaims
    <3> QED BY <2>3, <3>5
  <2> QED BY <2>2, <2>3
<1>6. states' = [ap EXCEPT ![r].nextSeq = a.seq + 1, ![r].pending = @ \ {a}]
  BY DEF AckRound
<1> HIDE DEF ap, A
<1>7. PICK t : t = [ap[r] EXCEPT !.nextSeq = a.seq + 1, !.pending = ap[r].pending \ {a}]
  OBVIOUS
<1>8. /\ t \in ReaderState(A) /\ t.nextSeq = a.seq + 1 /\ t.pending = ap[r].pending \ {a}
      /\ t.lastPK = ap[r].lastPK /\ t.complete = ap[r].complete
  <2>1. a.seq + 1 \in Nat
    BY <1>3
  <2> QED BY <1>2, <1>7, <2>1 DEF ReaderState
<1>9. states' = [ap EXCEPT ![r] = t]
  BY <1>2, <1>4, <1>6, <1>7
<1>10. /\ states' \in [Readers -> ReaderState(A)] /\ states'[r] = t
       /\ \A h \in Readers : h # r => states'[h] = states[h]
  BY <1>2, <1>4, <1>8, <1>9
<1>11. ASSUME NEW h \in Readers, NEW c \in states'[h].pending
       PROVE  c.reader = h /\ c.rows \subseteq target
  <2>1. c \in states[h].pending
    BY <1>2, <1>8, <1>10, <1>11
  <2> QED BY <1>1, <2>1 DEF Acknowledged
<1>12. ASSUME NEW h \in Readers, NEW i \in 1 .. states'[h].nextSeq
       PROVE  ChunksOf(ranges, h)[i].rows \subseteq target
  <2>1. CASE h # r
    BY <1>1, <1>10, <1>12, <2>1 DEF Acknowledged
  <2>2. CASE h = r /\ i = a.seq + 1
    BY <1>3, <2>2
  <2>3. CASE h = r /\ i # a.seq + 1
    <3>1. i \in 1 .. a.seq
      BY <1>3, <1>8, <1>10, <2>3
    <3>2. i \in 1 .. states[r].nextSeq
      BY <3>1
    <3> QED BY <1>1, <1>2, <2>3, <3>2 DEF Acknowledged
  <2> QED BY <2>1, <2>2, <2>3
<1>13. SomeRange(ranges) /\ RowsUpTo(ranges[1].minPK) \subseteq target
  <2>1. SomeRange(ranges)
    BY <1>1, SomeChunk
  <2> QED BY <1>1, <2>1 DEF Claims
<1>14. \A h \in Readers : ClaimsWritten(ranges, h, states'[h], target)
  <2> SUFFICES ASSUME NEW h \in Readers PROVE ClaimsWritten(ranges, h, states'[h], target)
    OBVIOUS
  <2>1. ClaimsWritten(ranges, h, ap[h], target)
    BY <1>5
  <2>2. states'[h].lastPK = ap[h].lastPK /\ states'[h].complete = ap[h].complete
    BY <1>2, <1>8, <1>10
  <2> QED BY <2>1, <2>2 DEF ClaimsWritten
<1>15. saved' = saved \/ (/\ saved' \in Int64 /\ saved' <= MaxPK /\ RowsUpTo(saved') \subseteq target)
  <2>1. CASE saved' = saved
    BY <2>1
  <2>2. CASE saved' # saved
    <3>1. saved' = ap[SafeReader(ap)].lastPK
      BY <2>2 DEF AckRound, SaveProgress, ap
    <3>2. ranges # << >>
      BY <1>2, EmptySeq DEF Readers
    <3>3. Consecutive(ranges, ranges[1].minPK, MaxPK)
      BY <1>1, <3>2 DEF JobType
    <3>4. \A h \in DOMAIN ranges : ClaimsWritten(ranges, h, ap[h], target)
      BY <1>5 DEF Readers
    <3>5. /\ ap[SafeReader(ap)].lastPK \in Int64 /\ ap[SafeReader(ap)].lastPK <= MaxPK
          /\ RowsUpTo(ap[SafeReader(ap)].lastPK) \subseteq target
      BY <1>1, <1>13, <3>2, <3>3, <3>4, SaveSafe
    <3> QED BY <3>1, <3>5
  <2> QED BY <2>1, <2>2
<1>16. Claims'
  BY <1>1, <1>13, <1>14, <1>15 DEF Claims
<1>17. CheckpointSafe'
  BY <1>1, <1>15 DEF CheckpointSafe, RowsUpTo
<1>18. draining' \in Readers \cup {0}
  BY <1>2 DEF AckRound, r
<1> QED BY <1>10, <1>11, <1>12, <1>16, <1>17, <1>18 DEF A

LEMMA AcksStep ==
  ASSUME CheckpointInv, AckStep
  PROVE  CheckpointInv'
<1> DEFINE A == AllChunks(ranges)
           Applies(st) == /\ st \in [Readers -> ReaderState(A)]
                          /\ \A r \in Readers : \A c \in st[r].pending : c.reader = r /\ c.rows \subseteq target
                          /\ \A r \in Readers : \A i \in 1 .. st[r].nextSeq :
                               ChunksOf(ranges, r)[i].rows \subseteq target
<1>1. /\ JobType /\ PoolType /\ Acknowledged /\ Claims /\ CheckpointSafe
      /\ Readers' = Readers /\ Goroutines' = Goroutines /\ AllChunks(ranges)' = A
      /\ UNCHANGED <<ranges, left, chunkChan, pc, inHand, configUpdates, target, gotChunk, jobChan,
                     worker, workers>>
  BY DEF CheckpointInv, AckStep, ReceiveAck, DrainPending, TakeAck, readVars, queueVars, consVars,
         poolVars, Readers, Goroutines
<1>2. ackChan \in Seq(A) /\ states \in [Readers -> ReaderState(A)] /\ ranges \in Seq(PKRangeRec)
  BY <1>1 DEF PoolType, JobType
<1>3. /\ ackChan' \in Seq(A) /\ \A c \in InChan(ackChan)' : c.rows \subseteq target
      /\ Applies(states') /\ draining' \in Readers \cup {0} /\ Claims' /\ CheckpointSafe'
  <2>1. CASE ReceiveAck
    <3>1. ackChan # <<>> /\ ackChan' = Tail(ackChan)
      BY <2>1 DEF ReceiveAck, TakeAck
    <3>2. PICK a : a = Head(ackChan)
      OBVIOUS
    <3>3. a \in A /\ ackChan' \in Seq(A) /\ InChan(ackChan) = {a} \cup InChan(Tail(ackChan))
      <4> HIDE DEF A
      <4> QED BY <1>2, <3>1, <3>2, TailChan
    <3>4. \A c \in InChan(ackChan) : c.rows \subseteq target
      BY <1>1 DEF Acknowledged
    <3>5. a.rows \subseteq target /\ \A c \in InChan(ackChan)' : c.rows \subseteq target
      BY <3>1, <3>3, <3>4
    <3>6. CASE a.seq = states[a.reader].nextSeq
      <4>1. AckRound(a)
        BY <2>1, <3>2, <3>6 DEF ReceiveAck
      <4> QED BY <1>1, <3>3, <3>5, <3>6, <4>1, AckRoundClaims
    <3>7. CASE a.seq # states[a.reader].nextSeq
      <4>1. /\ states' = [states EXCEPT ![a.reader].pending = @ \cup {a}]
            /\ saved' = saved /\ draining' = draining
        BY <2>1, <3>2, <3>7 DEF ReceiveAck
      <4>2. a.reader \in Readers
        BY <1>2, <3>3, ChunkFacts DEF Readers
      <4> HIDE DEF A
      <4>3. PICK t : t = [states[a.reader] EXCEPT !.pending = states[a.reader].pending \cup {a}]
        OBVIOUS
      <4>4. states[a.reader] \in ReaderState(A)
        BY <1>2, <4>2
      <4>5. /\ t \in ReaderState(A) /\ t.pending = states[a.reader].pending \cup {a}
            /\ t.lastPK = states[a.reader].lastPK /\ t.complete = states[a.reader].complete
            /\ t.nextSeq = states[a.reader].nextSeq
        BY <3>3, <4>3, <4>4 DEF ReaderState
      <4>6. states' = [states EXCEPT ![a.reader] = t]
        BY <1>2, <4>1, <4>2, <4>3
      <4>7. /\ states' \in [Readers -> ReaderState(A)] /\ states'[a.reader] = t
            /\ \A h \in Readers : h # a.reader => states'[h] = states[h]
        BY <1>2, <4>2, <4>5, <4>6
      <4>8. \A r \in Readers : \A c \in states'[r].pending : c.reader = r /\ c.rows \subseteq target
        BY <1>1, <3>5, <4>2, <4>5, <4>7 DEF Acknowledged
      <4>9. \A r \in Readers : \A i \in 1 .. states'[r].nextSeq : ChunksOf(ranges, r)[i].rows \subseteq target
        BY <1>1, <4>2, <4>5, <4>7 DEF Acknowledged
      <4>10. \A r \in Readers : ClaimsWritten(ranges, r, states'[r], target)
        <5> SUFFICES ASSUME NEW h \in Readers PROVE ClaimsWritten(ranges, h, states'[h], target)
          OBVIOUS
        <5>1. ClaimsWritten(ranges, h, states[h], target)
          BY <1>1 DEF Claims
        <5>2. states'[h].lastPK = states[h].lastPK /\ states'[h].complete = states[h].complete
          BY <4>2, <4>5, <4>7
        <5> QED BY <5>1, <5>2 DEF ClaimsWritten
      <4>11. Claims' /\ CheckpointSafe'
        BY <1>1, <4>1, <4>10 DEF Claims, CheckpointSafe
      <4>12. draining' \in Readers \cup {0}
        BY <1>1, <4>1 DEF JobType
      <4> QED BY <3>3, <3>5, <4>7, <4>8, <4>9, <4>11, <4>12
    <3> QED BY <3>6, <3>7
  <2>2. CASE DrainPending
    <3>1. PICK a \in states[draining].pending : a.seq = states[draining].nextSeq /\ AckRound(a)
      BY <2>2 DEF DrainPending
    <3>2. UNCHANGED ackChan
      BY <2>2 DEF DrainPending, poolVars
    <3>3. draining \in Readers
      BY <1>1, <2>2 DEF JobType, DrainPending
    <3>4. a \in A /\ a.reader = draining /\ a.rows \subseteq target
      BY <1>1, <1>2, <3>3 DEF Acknowledged, ReaderState
    <3>5. a.seq = states[a.reader].nextSeq
      BY <3>1, <3>4
    <3>6. Applies(states') /\ draining' \in Readers \cup {0} /\ Claims' /\ CheckpointSafe'
      BY <1>1, <3>1, <3>4, <3>5, AckRoundClaims
    <3>7. ackChan' \in Seq(A) /\ \A c \in InChan(ackChan)' : c.rows \subseteq target
      BY <1>1, <1>2, <3>2 DEF Acknowledged
    <3> QED BY <3>6, <3>7
  <2> QED BY <2>1, <2>2 DEF AckStep
<1>4. JobType'
  BY <1>1, <1>3 DEF JobType
<1>5. PoolType'
  BY <1>1, <1>3 DEF PoolType
<1>6. Acknowledged'
  BY <1>1, <1>3 DEF Acknowledged
<1> QED BY <1>3, <1>4, <1>5, <1>6 DEF CheckpointInv

\* A job that starts claims nothing but what an earlier attempt has saved.
LEMMA JobStarts ==
  ASSUME NEW rs \in Seq(PKRangeRec), rs # << >> => Consecutive(rs, rs[1].minPK, MaxPK),
         NEW chunks \in [DOMAIN rs -> Seq(Sendable(AllChunks(rs)))],
         NEW p, p.worker \in Seq({Idle}), p.workers \in Seq(Nat),
         StartJob(rs, chunks, p), pc' # "submit", configUpdates' \in Seq(Nat),
         SomeRange(rs) => RowsUpTo(rs[1].minPK) \subseteq target',
         saved' # NoCheckpoint => saved' \in Int64 /\ saved' <= MaxPK /\ RowsUpTo(saved') \subseteq target'
  PROVE  CheckpointInv'
<1> DEFINE A == AllChunks(rs)
<1>1. /\ ranges' = rs /\ left' = chunks /\ chunkChan' = <<>> /\ gotChunk' = FALSE
      /\ states' = NewStates(rs) /\ draining' = 0
      /\ jobChan' = <<>> /\ ackChan' = <<>> /\ worker' = p.worker /\ workers' = p.workers
  BY DEF StartJob, StartPool
<1>2. Readers' = DOMAIN rs /\ AllChunks(ranges)' = A
  BY <1>1 DEF Readers
<1>3. \A r \in DOMAIN rs : rs[r].minPK \in Int /\ rs[r].maxPK \in Int /\ rs[r].minPK <= rs[r].maxPK
  <2>1. DOMAIN rs = 1 .. Len(rs) /\ \A r \in DOMAIN rs : rs[r].minPK \in Int /\ rs[r].maxPK \in Int
    BY RangesTyped
  <2>2. rs = << >> => DOMAIN rs = {}
    OBVIOUS
  <2> QED BY <2>1, <2>2 DEF Consecutive
<1>4. \A r \in DOMAIN rs : /\ states'[r].lastPK = rs[r].minPK
                           /\ states'[r].complete = (rs[r].minPK >= rs[r].maxPK)
                           /\ states'[r].nextSeq = 0 /\ states'[r].pending = {}
  BY <1>1 DEF NewStates
<1>5. states' \in [DOMAIN rs -> ReaderState(A)]
  BY <1>1, <1>3 DEF NewStates, ReaderState
<1>6. \A S : <<>> \in Seq(S) /\ InChan(<<>>) = {}
  BY EmptyChan
<1>7. JobType'
  BY <1>1, <1>2, <1>5, <1>6 DEF JobType
<1>8. worker' \in Seq(Worker(A)) /\ \A g \in Goroutines' : worker'[g].st = "idle"
  <2>1. Idle \in Worker(A) /\ Idle.st = "idle"
    BY DEF Idle, Worker
  <2>2. p.worker \in Seq(Worker(A))
    <3> HIDE DEF A
    <3> QED BY <2>1
  <2>3. \A g \in DOMAIN p.worker : p.worker[g] = Idle
    OBVIOUS
  <2> QED BY <1>1, <2>1, <2>2, <2>3 DEF Goroutines
<1>9. PoolType'
  BY <1>1, <1>2, <1>6, <1>8 DEF PoolType
<1>10. Acknowledged'
  BY <1>1, <1>2, <1>4, <1>6, <1>8 DEF Acknowledged
<1>11. \A r \in DOMAIN rs : ClaimsWritten(rs, r, states'[r], target')
  <2> SUFFICES ASSUME NEW r \in DOMAIN rs PROVE ClaimsWritten(rs, r, states'[r], target')
    OBVIOUS
  <2>1. \A k \in RowsBetween(rs[r].minPK, rs[r].minPK) : FALSE
    BY <1>3, SourceFacts DEF RowsBetween
  <2>2. rs[r].minPK >= rs[r].maxPK => rs[r].minPK = rs[r].maxPK
    BY <1>3
  <2>3. PICK c : c = states'[r]
    OBVIOUS
  <2>4. c.lastPK = rs[r].minPK /\ (c.complete => rs[r].minPK = rs[r].maxPK)
    <3>1. c.complete = (rs[r].minPK >= rs[r].maxPK)
      BY <1>4, <2>3
    <3>2. c.complete => rs[r].minPK >= rs[r].maxPK
      BY <3>1, Zenon
    <3> QED BY <1>4, <2>2, <2>3, <3>2
  <2>5. RowsBetween(rs[r].minPK, c.lastPK) \subseteq target'
    BY <2>1, <2>4
  <2>6. c.complete => RowsBetween(rs[r].minPK, rs[r].maxPK) \subseteq target'
    BY <2>1, <2>4
  <2>7. c.lastPK \in Int /\ rs[r].minPK <= c.lastPK /\ c.lastPK <= rs[r].maxPK
    BY <1>3, <2>4
  <2> QED BY <2>3, <2>5, <2>6, <2>7 DEF ClaimsWritten
<1>12. Claims'
  BY <1>1, <1>2, <1>11 DEF Claims
<1>13. CheckpointSafe'
  BY DEF CheckpointSafe, RowsUpTo
<1> QED BY <1>7, <1>9, <1>10, <1>12, <1>13 DEF CheckpointInv

LEMMA PoolsTyped ==
  /\ NewPool.worker \in Seq({Idle}) /\ NewPool.workers \in Seq(Nat) /\ NewPool.worker # << >>
  /\ NoPool.worker \in Seq({Idle}) /\ NoPool.workers \in Seq(Nat)
<1>1. NumWriters \in Nat \ {0}
  BY PoolAssumption
<1>2. NewPool.worker \in [1 .. NumWriters -> {Idle}] /\ NewPool.workers \in [1 .. NumWriters -> Nat]
  BY <1>1 DEF NewPool
<1>3. 1 \in 1 .. NumWriters
  BY <1>1
<1>4. NewPool.worker # << >>
  <2>1. 1 \in DOMAIN NewPool.worker
    BY <1>2, <1>3
  <2>2. 1 \notin DOMAIN << >>
    OBVIOUS
  <2> QED BY <2>1, <2>2
<1>5. NoPool.worker = << >> /\ NoPool.workers = << >>
  BY DEF NoPool
<1>6. \A S : << >> \in Seq(S)
  BY EmptyChan
<1> QED BY <1>1, <1>2, <1>4, <1>5, <1>6

\* The rows up to the saved key are in the target.
LEMMA SavedRows ==
  ASSUME CheckpointInv, saved # NoCheckpoint
  PROVE  saved \in Int64 /\ saved <= MaxPK /\ RowsUpTo(saved) \subseteq target
BY DEF CheckpointInv, Claims, CheckpointSafe, RowsUpTo

\* What Execute has loaded and removed when it starts, or takes the table for empty.
LEMMA ExecuteDoes ==
  ASSUME NoBlindTruncation, CheckpointInv, Execute
  PROVE  /\ \E loaded \in Loaded :
              /\ loaded = NoCheckpoint \/ (loaded \in Int64 /\ loaded <= MaxPK)
              /\ loaded # NoCheckpoint => loaded = saved
              /\ StartReaders(JobRanges(loaded)) \/ TakenForEmpty
         /\ saved' = saved /\ configUpdates' = configUpdates
         /\ saved # NoCheckpoint => target' = target
<1>1. PICK loaded \in Loaded :
        /\ target' = CleanTarget(loaded) \/ target' = target
        /\ StartReaders(JobRanges(loaded)) \/ TakenForEmpty
  BY DEF Execute
<1>2. loaded # NoCheckpoint => loaded = saved
  BY DEF Loaded
<1>3. loaded = NoCheckpoint \/ (loaded \in Int64 /\ loaded <= MaxPK)
  BY <1>2, SavedRows
<1>4. saved # NoCheckpoint => target' = target
  BY <1>1 DEF NoBlindTruncation, Loaded, CleanTarget
<1> QED BY <1>1, <1>2, <1>3, <1>4 DEF Execute, queueVars

\* A job without ranges, when Execute takes the table for empty and after a crash.
LEMMA NothingStarts ==
  ASSUME StartJob(<<>>, <<>>, NoPool), pc' # "submit", configUpdates' \in Seq(Nat),
         saved' # NoCheckpoint => saved' \in Int64 /\ saved' <= MaxPK /\ RowsUpTo(saved') \subseteq target'
  PROVE  CheckpointInv'
<1>1. PICK rs : rs = <<>>
  OBVIOUS
<1>2. rs \in Seq(PKRangeRec) /\ DOMAIN rs = {}
  BY <1>1, EmptyChan
<1>3. rs \in [DOMAIN rs -> Seq(Sendable(AllChunks(rs)))]
  BY <1>1, <1>2
<1>4. ~SomeRange(rs)
  BY <1>2 DEF SomeRange
<1>5. /\ StartJob(rs, rs, NoPool) /\ (rs # << >> => Consecutive(rs, rs[1].minPK, MaxPK))
      /\ (SomeRange(rs) => RowsUpTo(rs[1].minPK) \subseteq target')
      /\ NoPool.worker \in Seq({Idle}) /\ NoPool.workers \in Seq(Nat)
  BY <1>1, <1>4, PoolsTyped
<1> QED BY <1>2, <1>3, <1>5, JobStarts

LEMMA StartReadersStep ==
  ASSUME CheckpointInv, NEW loaded,
         loaded = NoCheckpoint \/ (loaded \in Int64 /\ loaded <= MaxPK),
         loaded # NoCheckpoint => loaded = saved,
         StartReaders(JobRanges(loaded)), saved' = saved, configUpdates' = configUpdates,
         saved # NoCheckpoint => target' = target
  PROVE  CheckpointInv'
<1>1. PICK rs : rs = JobRanges(loaded)
  OBVIOUS
<1>2. /\ rs \in Seq(PKRangeRec) /\ rs # << >> /\ Consecutive(rs, rs[1].minPK, MaxPK)
      /\ loaded # NoCheckpoint => rs[1].minPK = saved
      /\ loaded = NoCheckpoint /\ SomeRange(rs) => RowsUpTo(rs[1].minPK) = {}
  BY <1>1, JobRangesFacts
<1>3. PICK chunks : chunks = [r \in DOMAIN rs |-> ChunksOf(rs, r)]
  OBVIOUS
<1>4. StartJob(rs, chunks, NewPool) /\ pc' = "loop"
  BY <1>1, <1>3 DEF StartReaders
<1>5. chunks \in [DOMAIN rs -> Seq(Sendable(AllChunks(rs)))]
  <2>1. \A r \in DOMAIN rs : ChunksOf(rs, r) \in Seq(AllChunks(rs))
    BY <1>2, ChunkFacts
  <2>2. \A q \in Seq(AllChunks(rs)) : q \in Seq(Sendable(AllChunks(rs)))
    BY DEF Sendable
  <2> QED BY <1>3, <2>1, <2>2
<1>6. configUpdates' \in Seq(Nat)
  BY DEF CheckpointInv, JobType
<1>7. saved' # NoCheckpoint => saved' \in Int64 /\ saved' <= MaxPK /\ RowsUpTo(saved') \subseteq target'
  BY SavedRows
<1>8. SomeRange(rs) => RowsUpTo(rs[1].minPK) \subseteq target'
  BY <1>2, <1>7
<1>9. NewPool.worker \in Seq({Idle}) /\ NewPool.workers \in Seq(Nat) /\ pc' # "submit"
  BY <1>4, PoolsTyped
<1> QED BY <1>2, <1>4, <1>5, <1>6, <1>7, <1>8, <1>9, JobStarts

LEMMA ExecuteStep ==
  ASSUME NoBlindTruncation, CheckpointInv, Execute
  PROVE  CheckpointInv'
<1>1. PICK loaded \in Loaded :
        /\ loaded = NoCheckpoint \/ (loaded \in Int64 /\ loaded <= MaxPK)
        /\ loaded # NoCheckpoint => loaded = saved
        /\ StartReaders(JobRanges(loaded)) \/ TakenForEmpty
  BY ExecuteDoes
<1>2. /\ saved' = saved /\ configUpdates' = configUpdates
      /\ saved # NoCheckpoint => target' = target
  BY ExecuteDoes
<1>3. CASE StartReaders(JobRanges(loaded))
  BY <1>1, <1>2, <1>3, StartReadersStep
<1>4. CASE TakenForEmpty
  <2>1. StartJob(<<>>, <<>>, NoPool) /\ pc' # "submit"
    BY <1>4 DEF TakenForEmpty
  <2>2. configUpdates' \in Seq(Nat)
    BY <1>2 DEF CheckpointInv, JobType
  <2>3. saved' # NoCheckpoint => saved' \in Int64 /\ saved' <= MaxPK /\ RowsUpTo(saved') \subseteq target'
    BY <1>2, SavedRows
  <2> QED BY <2>1, <2>2, <2>3, NothingStarts
<1> QED BY <1>1, <1>3, <1>4

LEMMA CrashStep ==
  ASSUME CheckpointInv, Crash
  PROVE  CheckpointInv'
<1>1. StartJob(<<>>, <<>>, NoPool) /\ target \subseteq target' /\ saved' = saved /\ pc' = "crashed"
      /\ configUpdates' = <<>>
  BY DEF Crash
<1>2. configUpdates' \in Seq(Nat)
  BY <1>1, EmptyChan
<1>3. saved' # NoCheckpoint => saved' \in Int64 /\ saved' <= MaxPK /\ RowsUpTo(saved') \subseteq target'
  BY <1>1, SavedRows
<1> QED BY <1>1, <1>2, <1>3, NothingStarts

LEMMA CheckpointNext ==
  ASSUME NoBlindTruncation, CheckpointInv, [Next]_vars
  PROVE  CheckpointInv'
<1>1. ASSUME Execute PROVE CheckpointInv'
  BY <1>1, ExecuteStep
<1>2. ASSUME NEW r \in Readers, ReaderStep(r) PROVE CheckpointInv'
  BY <1>2, ReadersStep
<1>3. ASSUME ConsumerStep PROVE CheckpointInv'
  <2>1. CASE Receive
    BY <2>1, ReceiveStep
  <2>2. CASE Submit
    BY <2>2, SubmitStep
  <2>3. CASE TakeUpdate
    BY <2>3, TakeUpdateStep
  <2>4. CASE Return
    BY <2>4, ReturnStep
  <2>5. CASE ChunksEnd \/ Wait
    BY <2>5, QuietSteps
  <2> QED BY <1>3, <2>1, <2>2, <2>3, <2>4, <2>5 DEF ConsumerStep
<1>4. ASSUME NEW g \in Goroutines, WorkerStep(g) PROVE CheckpointInv'
  BY <1>4, WorkersStep
<1>5. ASSUME AckStep PROVE CheckpointInv'
  BY <1>5, AcksStep
<1>6. ASSUME Crash PROVE CheckpointInv'
  BY <1>6, CrashStep
<1>7. ASSUME UpdateConfig \/ Cancel \/ Terminated \/ UNCHANGED vars PROVE CheckpointInv'
  BY <1>7, QuietSteps
<1> QED BY <1>1, <1>2, <1>3, <1>4, <1>5, <1>6, <1>7 DEF Next

\* If no table is truncated whose checkpoint could not be loaded, each row of the job up to
\* the key that is saved is in the target, in whatever order the workers write and their
\* acknowledgements arrive, and however the attempts end (Execute,
\* readerCheckpointCoordinator.onAck and ackProcessor).
THEOREM PipelineCheckpointSafe ==
  ASSUME NoBlindTruncation
  PROVE  Spec => []CheckpointSafe
<1>1. Init => CheckpointInv
  BY CheckpointInit
<1>2. CheckpointInv /\ [Next]_vars => CheckpointInv'
  BY CheckpointNext
<1>3. CheckpointInv => CheckpointSafe
  BY DEF CheckpointInv
<1> QED BY <1>1, <1>2, <1>3, PTL DEF Spec

-----------------------------------------------------------------------------
(* The inductive invariant of success. *)

\* What the readers have yet to hand to the consumer.
ToReceive == InChan(chunkChan) \cup UNION {InChan(left[r]) : r \in Readers}

Broken == loopErr \/ writeErr \/ ctxDone
Shrunk == \E g \in Goroutines : worker[g].cancelled
ErrorPending == ReadError \in ToReceive
Excused == Broken \/ Shrunk \/ ErrorPending

OnItsWay(c) ==
  \/ c \in ToReceive
  \/ pc = "submit" /\ inHand = c
  \/ c \in InChan(jobChan)
  \/ \E g \in Goroutines : worker[g].st = "write" /\ worker[g].job = c

\* A chunk that is not written is on its way, unless something has gone wrong.
NoneLost ==
  \A c \in AllChunks(ranges) : OnItsWay(c) \/ c.rows \subseteq target \/ Excused

Consuming == {"loop", "submit", "update"}

JobOrder ==
  /\ poolDone => Broken
  /\ pc \in Consuming => ~loopErr
  /\ jobsClosed => pc \notin Consuming
  /\ pc = "wait" /\ ~loopErr => ToReceive = {}
  /\ pc \in Running => worker # << >> /\ ranges # << >>
  /\ \A g \in Goroutines : Gone(g) => Broken \/ Shrunk \/ (jobsClosed /\ jobChan = << >>)
  /\ ranges # << >> => RowsUpTo(ranges[1].minPK) \subseteq target

SuccessInv == JobOrder /\ NoneLost /\ SuccessUnlessShrunk

LEMMA NoneLostStays ==
  ASSUME NoneLost, UNCHANGED ranges, target \subseteq target', Excused => Excused',
         \A c \in AllChunks(ranges) : OnItsWay(c) => OnItsWay(c)' \/ c.rows \subseteq target' \/ Excused'
  PROVE  NoneLost'
<1>1. AllChunks(ranges)' = AllChunks(ranges)
  OBVIOUS
<1>2. ASSUME NEW c \in AllChunks(ranges) PROVE (OnItsWay(c) \/ c.rows \subseteq target \/ Excused)'
  <2>1. OnItsWay(c) \/ c.rows \subseteq target \/ Excused
    BY DEF NoneLost
  <2>2. (c.rows \subseteq target)' <=> c.rows \subseteq target'
    OBVIOUS
  <2> QED BY <2>1, <2>2
<1> QED BY <1>1, <1>2 DEF NoneLost

LEMMA SuccessStays ==
  ASSUME SuccessUnlessShrunk, pc' = "ok" => pc = "ok", target \subseteq target', ctxDone => ctxDone',
         Shrunk => Shrunk', UNCHANGED ranges
  PROVE  SuccessUnlessShrunk'
BY DEF SuccessUnlessShrunk, Shrunk, ReadNothing

LEMMA SuccessInit == Init => SuccessInv
<1> SUFFICES ASSUME Init PROVE SuccessInv
  OBVIOUS
<1>1. /\ pc = "idle" /\ ranges = <<>> /\ worker = <<>> /\ poolDone = FALSE /\ jobsClosed = FALSE
  BY DEF Init, PoolInit
<1>2. Goroutines = {} /\ AllChunks(ranges) = {}
  BY <1>1 DEF Goroutines, AllChunks
<1>3. JobOrder
  BY <1>1, <1>2 DEF JobOrder, Consuming, Running
<1> QED BY <1>1, <1>2, <1>3 DEF SuccessInv, NoneLost, SuccessUnlessShrunk

LEMMA ReadersSuccess ==
  ASSUME CheckpointInv, SuccessInv, NEW r \in Readers, ReaderStep(r)
  PROVE  SuccessInv'
<1> DEFINE S == Sendable(AllChunks(ranges))
<1>1. /\ JobOrder /\ NoneLost /\ SuccessUnlessShrunk /\ Readers' = Readers /\ Goroutines' = Goroutines
      /\ left \in [Readers -> Seq(S)] /\ chunkChan \in Seq(S)
      /\ UNCHANGED <<ranges, target, pc, inHand, loopErr, ctxDone, jobChan, jobsClosed, worker,
                     poolDone, writeErr>>
  BY DEF CheckpointInv, SuccessInv, JobType, ReaderStep, ReadFails, Send, durable, ackVars, queueVars,
         consVars, poolVars, Readers, Goroutines
<1>2. (Shrunk <=> Shrunk') /\ (Broken <=> Broken')
  BY <1>1 DEF Shrunk, Broken
<1> HIDE DEF S
<1>3. CASE ReadFails(r)
  <2>1. left' = [left EXCEPT ![r] = <<ReadError>>] /\ left[r] # <<>>
    BY <1>3 DEF ReadFails
  <2>2. ReadError \in InChan(left'[r])
    <3>1. left'[r] = <<ReadError>>
      BY <1>1, <2>1
    <3>2. Len(<<ReadError>>) = 1 /\ <<ReadError>>[1] = ReadError /\ 1 \in 1 .. 1
      OBVIOUS
    <3> QED BY <3>1, <3>2 DEF InChan
  <2>3. ErrorPending'
    BY <1>1, <2>2 DEF ErrorPending, ToReceive
  <2>4. ToReceive # {}
    <3>1. left[r] \in Seq(S) /\ left[r] # <<>>
      BY <1>1, <2>1
    <3>2. Head(left[r]) \in InChan(left[r])
      BY <3>1, TailChan
    <3> QED BY <3>2 DEF ToReceive
  <2>5. NoneLost'
    BY <2>3 DEF NoneLost, Excused
  <2>6. JobOrder'
    BY <1>1, <1>2, <2>4 DEF JobOrder, Gone
  <2> QED BY <1>1, <1>2, <2>5, <2>6, SuccessStays DEF SuccessInv
<1>4. CASE Send(r)
  <2>1. left[r] # <<>> /\ chunkChan' = Append(chunkChan, Head(left[r]))
        /\ left' = [left EXCEPT ![r] = Tail(@)]
    BY <1>4 DEF Send
  <2>2. InChan(left[r]) = {Head(left[r])} \cup InChan(Tail(left[r])) /\ Head(left[r]) \in S
    <3>1. left[r] \in Seq(S) /\ left[r] # <<>>
      BY <1>1, <2>1
    <3> QED BY <3>1, TailChan
  <2>3. InChan(chunkChan)' = InChan(chunkChan) \cup {Head(left[r])}
    <3>1. InChan(Append(chunkChan, Head(left[r]))) = InChan(chunkChan) \cup {Head(left[r])}
      BY <1>1, <2>2, AppendChan
    <3> QED BY <2>1, <3>1
  <2>4. left'[r] = Tail(left[r]) /\ \A h \in Readers : h # r => left'[h] = left[h]
    BY <1>1, <2>1
  <2>5. ToReceive' = ToReceive
    <3>1. \A x : x \in ToReceive <=> x \in InChan(chunkChan) \/ \E h \in Readers : x \in InChan(left[h])
      BY DEF ToReceive
    <3>2. \A x : x \in ToReceive' <=> x \in InChan(chunkChan)' \/ \E h \in Readers : x \in InChan(left'[h])
      BY <1>1 DEF ToReceive
    <3>3. ASSUME NEW x PROVE x \in ToReceive' <=> x \in ToReceive
      <4>1. CASE x = Head(left[r])
        BY <2>2, <2>3, <3>1, <3>2, <4>1
      <4>2. CASE x # Head(left[r])
        <5>1. \A h \in Readers : x \in InChan(left'[h]) <=> x \in InChan(left[h])
          BY <2>2, <2>4, <4>2
        <5> QED BY <2>3, <3>1, <3>2, <4>2, <5>1
      <4> QED BY <4>1, <4>2
    <3> QED BY <3>3
  <2>6. (Excused <=> Excused') /\ \A c : OnItsWay(c) <=> OnItsWay(c)'
    BY <1>1, <1>2, <2>5 DEF Excused, ErrorPending, OnItsWay
  <2>7. NoneLost'
    BY <1>1, <2>6, NoneLostStays
  <2>8. JobOrder'
    BY <1>1, <1>2, <2>5 DEF JobOrder, Gone
  <2> QED BY <1>1, <1>2, <2>7, <2>8, SuccessStays DEF SuccessInv
<1> QED BY <1>3, <1>4 DEF ReaderStep

LEMMA QuietSuccess ==
  ASSUME SuccessInv,
         ChunksEnd \/ Wait \/ AckStep \/ UpdateConfig \/ Cancel \/ Terminated \/ UNCHANGED vars
  PROVE  SuccessInv'
<1>1. /\ JobOrder /\ NoneLost /\ SuccessUnlessShrunk /\ Readers' = Readers /\ Goroutines' = Goroutines
      /\ UNCHANGED <<ranges, left, chunkChan, target, inHand, loopErr, jobChan, worker, writeErr>>
  BY DEF SuccessInv, ChunksEnd, Wait, CloseJobs, AckStep, ReceiveAck, DrainPending, TakeAck,
         UpdateConfig, Cancel, CancelPool, Terminated, vars, jobVars, durable, readVars, ackVars,
         queueVars, consVars, poolVars, Readers, Goroutines
<1>2. (ctxDone => ctxDone') /\ (poolDone' => poolDone \/ ctxDone')
  BY DEF ChunksEnd, Wait, CloseJobs, AckStep, ReceiveAck, DrainPending, TakeAck,
         UpdateConfig, Cancel, CancelPool, Terminated, vars, jobVars, poolVars
<1>3. pc' = pc \/ (pc' = "wait" /\ pc = "loop" /\ chunkChan = <<>> /\ \A r \in Readers : left[r] = <<>>)
  BY DEF ChunksEnd, Wait, AckStep, ReceiveAck, DrainPending, UpdateConfig, Cancel, Terminated, vars,
         jobVars, consVars
<1>4. jobsClosed' = jobsClosed \/ (jobsClosed' /\ pc' = "wait")
  BY DEF ChunksEnd, Wait, CloseJobs, AckStep, ReceiveAck, DrainPending, TakeAck,
         UpdateConfig, Cancel, CancelPool, Terminated, vars, jobVars, poolVars, consVars
<1>5. /\ ToReceive' = ToReceive /\ (Shrunk' <=> Shrunk) /\ (Broken => Broken')
      /\ (ErrorPending' <=> ErrorPending) /\ (ctxDone' => Broken') /\ (pc # "ok" => pc' # "ok")
  BY <1>1, <1>2, <1>3 DEF ToReceive, Shrunk, Broken, ErrorPending
<1>6. pc' = pc \/ (pc' = "wait" /\ pc = "loop" /\ ToReceive = {})
  <2>1. chunkChan = <<>> /\ (\A r \in Readers : left[r] = <<>>) => ToReceive = {}
    BY EmptyChan DEF ToReceive
  <2> QED BY <1>3, <2>1
<1>7. \A g \in Goroutines : (Gone(g)' <=> Gone(g))
  BY <1>1 DEF Gone
<1>8. JobOrder'
  <2>1. (poolDone => Broken)'
    BY <1>1, <1>2, <1>5 DEF JobOrder
  <2>2. (pc \in Consuming => ~loopErr)' /\ (jobsClosed => pc \notin Consuming)'
    BY <1>1, <1>4, <1>6 DEF JobOrder, Consuming
  <2>3. (pc = "wait" /\ ~loopErr => ToReceive = {})'
    BY <1>1, <1>5, <1>6 DEF JobOrder
  <2>4. (pc \in Running => worker # << >> /\ ranges # << >>)'
    BY <1>1, <1>6 DEF JobOrder, Running
  <2>5. ASSUME NEW g \in Goroutines, Gone(g)'
        PROVE  (Broken \/ Shrunk \/ (jobsClosed /\ jobChan = << >>))'
    BY <1>1, <1>4, <1>5, <1>7, <2>5 DEF JobOrder
  <2>6. (ranges # << >> => RowsUpTo(ranges[1].minPK) \subseteq target)'
    BY <1>1 DEF JobOrder
  <2> QED BY <1>1, <2>1, <2>2, <2>3, <2>4, <2>5, <2>6 DEF JobOrder
<1>9. NoneLost'
  <2>1. Excused => Excused'
    BY <1>5 DEF Excused
  <2>2. \A c : OnItsWay(c) => OnItsWay(c)'
    BY <1>1, <1>5, <1>6 DEF OnItsWay
  <2> QED BY <1>1, <2>1, <2>2, NoneLostStays
<1>10. SuccessUnlessShrunk'
  BY <1>1, <1>2, <1>5, SuccessStays
<1> QED BY <1>8, <1>9, <1>10 DEF SuccessInv

LEMMA ReceiveSuccess ==
  ASSUME CheckpointInv, SuccessInv, Receive
  PROVE  SuccessInv'
<1> DEFINE S == Sendable(AllChunks(ranges))
<1>1. /\ JobOrder /\ NoneLost /\ SuccessUnlessShrunk /\ Readers' = Readers /\ Goroutines' = Goroutines
      /\ UNCHANGED <<ranges, left, target, jobChan, jobsClosed, worker, writeErr, ctxDone>>
      /\ pc = "loop" /\ chunkChan # <<>> /\ chunkChan' = Tail(chunkChan)
      /\ chunkChan \in Seq(S)
  BY DEF CheckpointInv, JobType, SuccessInv, Receive, CancelPool, durable, poolVars, Readers, Goroutines
<1>2. InChan(chunkChan) = {Head(chunkChan)} \cup InChan(chunkChan)'
  <2> HIDE DEF S
  <2>1. InChan(chunkChan) = {Head(chunkChan)} \cup InChan(Tail(chunkChan))
    BY <1>1, TailChan
  <2> QED BY <1>1, <2>1
<1>3. ToReceive = {Head(chunkChan)} \cup ToReceive'
  BY <1>1, <1>2 DEF ToReceive
<1>4. (Shrunk' <=> Shrunk) /\ ~loopErr /\ ~jobsClosed
  BY <1>1 DEF Shrunk, JobOrder, Consuming
<1>5. \A g \in Goroutines : (Gone(g)' <=> Gone(g))
  BY <1>1 DEF Gone
<1>6. CASE Head(chunkChan) = ReadError
  <2>1. pc' = "wait" /\ loopErr' = TRUE
    BY <1>6 DEF Receive
  <2>2. Broken'
    BY <2>1 DEF Broken
  <2>3. JobOrder'
    BY <1>1, <1>4, <1>5, <2>1, <2>2 DEF JobOrder, Consuming, Running
  <2>4. NoneLost'
    BY <2>2 DEF NoneLost, Excused
  <2> QED BY <1>1, <1>4, <2>1, <2>3, <2>4, SuccessStays DEF SuccessInv
<1>7. CASE Head(chunkChan) # ReadError
  <2>1. pc' = "submit" /\ inHand' = Head(chunkChan) /\ UNCHANGED <<loopErr, poolDone>>
    BY <1>7 DEF Receive, poolVars
  <2>2. (Broken' <=> Broken) /\ (ErrorPending => ErrorPending')
    BY <1>1, <1>3, <1>7, <2>1 DEF Broken, ErrorPending
  <2>3. JobOrder'
    BY <1>1, <1>4, <1>5, <2>1, <2>2 DEF JobOrder, Consuming, Running
  <2>4. \A c : OnItsWay(c) => OnItsWay(c)'
    <3> SUFFICES ASSUME NEW c, OnItsWay(c) PROVE OnItsWay(c)'
      OBVIOUS
    <3>1. c \in ToReceive => c \in ToReceive' \/ inHand' = c
      BY <1>3, <2>1
    <3> QED BY <1>1, <2>1, <3>1 DEF OnItsWay
  <2>5. Excused => Excused'
    BY <1>4, <2>2 DEF Excused
  <2>6. NoneLost'
    BY <1>1, <2>4, <2>5, NoneLostStays
  <2> QED BY <1>1, <1>4, <2>1, <2>3, <2>6, SuccessStays DEF SuccessInv
<1> QED BY <1>6, <1>7

LEMMA SubmitSuccess ==
  ASSUME CheckpointInv, SuccessInv, Submit
  PROVE  SuccessInv'
<1>1. /\ JobOrder /\ NoneLost /\ SuccessUnlessShrunk /\ Readers' = Readers /\ Goroutines' = Goroutines
      /\ UNCHANGED <<ranges, left, chunkChan, target, jobsClosed, worker, writeErr, ctxDone, poolDone>>
      /\ pc = "submit"
  BY DEF SuccessInv, Submit, SubmitTaken, SubmitRefused, durable, readVars, poolVars, Readers, Goroutines
<1>2. ToReceive' = ToReceive /\ (Shrunk' <=> Shrunk) /\ ~loopErr /\ ~jobsClosed
  BY <1>1 DEF ToReceive, Shrunk, JobOrder, Consuming
<1>3. \A g \in Goroutines : (Gone(g)' <=> Gone(g))
  BY <1>1 DEF Gone
<1>4. CASE SubmitTaken(inHand) /\ pc' = "update" /\ UNCHANGED loopErr
  <2>1. jobChan' = Append(jobChan, inHand)
    BY <1>4 DEF SubmitTaken
  <2>2. InChan(jobChan)' = InChan(jobChan) \cup {inHand}
    <3>1. jobChan \in Seq(AllChunks(ranges)) /\ inHand \in AllChunks(ranges)
      BY <1>1 DEF CheckpointInv, PoolType, JobType
    <3>2. InChan(Append(jobChan, inHand)) = InChan(jobChan) \cup {inHand}
      BY <3>1, AppendChan
    <3> QED BY <2>1, <3>2
  <2>3. (Broken' <=> Broken) /\ (ErrorPending <=> ErrorPending')
    BY <1>1, <1>2, <1>4 DEF Broken, ErrorPending
  <2>4. JobOrder'
    BY <1>1, <1>2, <1>3, <1>4, <2>3 DEF JobOrder, Consuming, Running
  <2>5. \A c : OnItsWay(c) => OnItsWay(c)'
    BY <1>1, <1>2, <2>2 DEF OnItsWay
  <2>6. Excused => Excused'
    BY <1>2, <2>3 DEF Excused
  <2>7. NoneLost'
    BY <1>1, <2>5, <2>6, NoneLostStays
  <2> QED BY <1>1, <1>2, <1>4, <2>4, <2>7, SuccessStays DEF SuccessInv
<1>5. CASE SubmitRefused /\ pc' = "wait" /\ loopErr' = (writeErr \/ ctxDone)
  <2>1. poolDone
    BY <1>5 DEF SubmitRefused
  <2>2. writeErr \/ ctxDone
    BY <1>1, <1>2, <2>1 DEF JobOrder, Broken
  <2>3. loopErr' /\ Broken'
    BY <1>5, <2>2 DEF Broken
  <2>4. JobOrder'
    BY <1>1, <1>2, <1>3, <1>5, <2>3 DEF JobOrder, Consuming, Running
  <2>5. NoneLost'
    BY <2>3 DEF NoneLost, Excused
  <2> QED BY <1>1, <1>2, <1>5, <2>4, <2>5, SuccessStays DEF SuccessInv
<1> QED BY <1>4, <1>5 DEF Submit

LEMMA TakeUpdateSuccess ==
  ASSUME CheckpointInv, SuccessInv, TakeUpdate
  PROVE  SuccessInv'
<1> DEFINE A == AllChunks(ranges)
<1>1. /\ JobOrder /\ NoneLost /\ SuccessUnlessShrunk /\ Readers' = Readers
      /\ UNCHANGED <<ranges, left, chunkChan, inHand, target, loopErr, ctxDone>>
      /\ pc = "update" /\ pc' = "loop"
  BY DEF SuccessInv, TakeUpdate, durable, readVars, Readers
<1>2. /\ UNCHANGED <<jobChan, jobsClosed, poolDone, writeErr>> /\ Goroutines \subseteq Goroutines'
      /\ worker # << >> => worker' # << >>
      /\ \A g \in Goroutines : /\ worker'[g].st = worker[g].st /\ worker'[g].job = worker[g].job
                               /\ worker[g].cancelled => worker'[g].cancelled
      /\ \A g \in Goroutines' : g \notin Goroutines => worker'[g].st = "idle"
  <2>1. CASE UNCHANGED poolVars
    BY <2>1 DEF poolVars, Goroutines
  <2>2. CASE configUpdates # <<>> /\ ScaleWorkers(Head(configUpdates))
    <3>1. configUpdates \in Seq(Nat) /\ worker \in Seq(Worker(A)) /\ workers \in Seq(Nat)
      BY DEF CheckpointInv, JobType, PoolType
    <3>2. PICK n \in Nat : n = Head(configUpdates)
      BY <2>2, <3>1, TailChan
    <3>3. ScaleWorkers(n)
      BY <2>2, <3>2
    <3> HIDE DEF A
    <3> QED BY <3>1, <3>3, WorkersScale
  <2> QED BY <2>1, <2>2 DEF TakeUpdate
<1>3. /\ ToReceive' = ToReceive /\ (Shrunk => Shrunk') /\ ~loopErr /\ ~jobsClosed /\ (Broken' <=> Broken)
      /\ (ErrorPending <=> ErrorPending')
  BY <1>1, <1>2 DEF ToReceive, Shrunk, JobOrder, Consuming, Broken, ErrorPending
<1>4. \A g \in Goroutines' : Gone(g)' => g \in Goroutines /\ Gone(g)
  BY <1>2 DEF Gone
<1>5. JobOrder'
  BY <1>1, <1>2, <1>3, <1>4 DEF JobOrder, Consuming, Running
<1>6. \A c : OnItsWay(c) => OnItsWay(c)'
  BY <1>1, <1>2, <1>3 DEF OnItsWay
<1>7. Excused => Excused'
  BY <1>3 DEF Excused
<1>8. NoneLost'
  BY <1>1, <1>6, <1>7, NoneLostStays
<1> QED BY <1>1, <1>3, <1>5, <1>8, SuccessStays DEF SuccessInv

\* A worker that moves on, with the first job of the channel or without one, and loses a job
\* only when something has gone wrong.
LEMMA MovesSuccess ==
  ASSUME CheckpointInv, SuccessInv, NEW g \in Goroutines,
         UNCHANGED <<ranges, left, chunkChan, inHand, pc, loopErr, ctxDone, jobsClosed>>,
         target \subseteq target', writeErr => writeErr', poolDone' => poolDone \/ writeErr',
         NEW st \in {"idle", "write", "ack", "gone"}, NEW m \in AllChunks(ranges) \cup {NoJob},
         SetWorker(g, st, m),
         \/ jobChan' = jobChan
         \/ /\ jobChan # <<>> /\ jobChan' = Tail(jobChan)
            /\ (st = "write" /\ m = Head(jobChan)) \/ Broken \/ worker[g].cancelled,
         worker[g].st = "write" => worker[g].job.rows \subseteq target' \/ writeErr',
         st = "gone" => Broken \/ writeErr' \/ worker[g].cancelled \/ (jobsClosed /\ jobChan' = <<>>)
  PROVE  SuccessInv'
<1> DEFINE A == AllChunks(ranges)
<1>1. /\ JobOrder /\ NoneLost /\ SuccessUnlessShrunk /\ Readers' = Readers
      /\ worker \in Seq(Worker(A)) /\ jobChan \in Seq(A)
  BY DEF CheckpointInv, SuccessInv, PoolType, Readers
<1> HIDE DEF A
<1>2. m \in A \cup {NoJob}
  BY DEF A
<1>3. /\ Goroutines' = Goroutines /\ worker' # << >>
      /\ worker'[g].st = st /\ worker'[g].job = m /\ worker'[g].cancelled = worker[g].cancelled
      /\ \A h \in Goroutines : h # g => worker'[h] = worker[h]
  BY <1>1, <1>2, WorkerMoves
<1>4. /\ ToReceive' = ToReceive /\ (ErrorPending' <=> ErrorPending) /\ (Broken => Broken')
      /\ (writeErr' => Broken')
  BY <1>1 DEF ToReceive, ErrorPending, Broken
<1>5. (Shrunk => Shrunk') /\ (worker[g].cancelled => Shrunk')
  BY <1>3 DEF Shrunk
<1>6. Excused => Excused'
  BY <1>4, <1>5 DEF Excused
<1>7. \/ jobChan' = jobChan
      \/ /\ InChan(jobChan) = {Head(jobChan)} \cup InChan(jobChan)'
         /\ (st = "write" /\ m = Head(jobChan)) \/ Excused'
  <2>1. jobChan # <<>> => InChan(jobChan) = {Head(jobChan)} \cup InChan(Tail(jobChan))
    BY <1>1, TailChan
  <2> QED BY <1>4, <1>5, <2>1 DEF Excused
<1>8. jobChan = <<>> => jobChan' = <<>>
  OBVIOUS
<1>9. JobOrder'
  <2>1. (poolDone => Broken)'
    BY <1>1, <1>4 DEF JobOrder
  <2>2. (pc \in Consuming => ~loopErr)' /\ (jobsClosed => pc \notin Consuming)'
    BY <1>1 DEF JobOrder, Consuming
  <2>3. (pc = "wait" /\ ~loopErr => ToReceive = {})'
    BY <1>1, <1>4 DEF JobOrder
  <2>4. (pc \in Running => worker # << >> /\ ranges # << >>)'
    BY <1>1, <1>3 DEF JobOrder, Running
  <2>5. ASSUME NEW h \in Goroutines, Gone(h)'
        PROVE  (Broken \/ Shrunk \/ (jobsClosed /\ jobChan = << >>))'
    <3>1. CASE h = g
      <4>1. st = "gone"
        BY <1>3, <2>5, <3>1 DEF Gone
      <4> QED BY <1>4, <1>5, <4>1
    <3>2. CASE h # g
      <4>1. Gone(h)
        BY <1>3, <2>5, <3>2 DEF Gone
      <4> QED BY <1>1, <1>4, <1>5, <1>8, <4>1 DEF JobOrder
    <3> QED BY <3>1, <3>2
  <2>6. (ranges # << >> => RowsUpTo(ranges[1].minPK) \subseteq target)'
    BY <1>1 DEF JobOrder
  <2> QED BY <1>3, <2>1, <2>2, <2>3, <2>4, <2>5, <2>6 DEF JobOrder
<1>10. NoneLost'
  <2>1. \A c \in AllChunks(ranges) : OnItsWay(c) => OnItsWay(c)' \/ c.rows \subseteq target' \/ Excused'
    <3> SUFFICES ASSUME NEW c \in AllChunks(ranges), OnItsWay(c)
                 PROVE  OnItsWay(c)' \/ c.rows \subseteq target' \/ Excused'
      OBVIOUS
    <3>1. CASE c \in ToReceive
      BY <1>4, <3>1 DEF OnItsWay
    <3>2. CASE pc = "submit" /\ inHand = c
      BY <3>2 DEF OnItsWay
    <3>3. CASE c \in InChan(jobChan)
      <4>1. CASE c \in InChan(jobChan)'
        BY <4>1 DEF OnItsWay
      <4>2. CASE c \notin InChan(jobChan)'
        <5>1. (st = "write" /\ m = c) \/ Excused'
          BY <1>7, <3>3, <4>2
        <5> QED BY <1>3, <5>1 DEF OnItsWay
      <4> QED BY <4>1, <4>2
    <3>4. CASE \E h \in Goroutines : worker[h].st = "write" /\ worker[h].job = c
      <4>1. PICK h \in Goroutines : worker[h].st = "write" /\ worker[h].job = c
        BY <3>4
      <4>2. CASE h = g
        BY <1>4, <4>1, <4>2 DEF Excused
      <4>3. CASE h # g
        BY <1>3, <4>1, <4>3 DEF OnItsWay
      <4> QED BY <4>2, <4>3
    <3> QED BY <3>1, <3>2, <3>3, <3>4 DEF OnItsWay
  <2> QED BY <1>1, <1>6, <2>1, NoneLostStays
<1>11. SuccessUnlessShrunk'
  BY <1>1, <1>5, SuccessStays
<1> QED BY <1>9, <1>10, <1>11 DEF SuccessInv

LEMMA WorkersSuccess ==
  ASSUME CheckpointInv, SuccessInv, NEW g \in Goroutines, WorkerStep(g)
  PROVE  SuccessInv'
<1> DEFINE A == AllChunks(ranges)
           W == worker[g]
<1>1. /\ jobChan \in Seq(A) /\ (W.st \in {"write", "ack"} => W.job \in A) /\ NoJob \in A \cup {NoJob}
      /\ (poolDone => Broken)
  BY DEF CheckpointInv, PoolType, SuccessInv, JobOrder
<1> HIDE DEF A
<1>2. CASE Write(g)
  <2>1. /\ UNCHANGED <<ranges, left, chunkChan, inHand, pc, loopErr, ctxDone, jobsClosed, jobChan,
                       writeErr, poolDone>>
        /\ target' = target \cup W.job.rows /\ W.st = "write"
    BY <1>2 DEF Write, WriteReturns, readVars, consVars
  <2>2. SetWorker(g, "ack", W.job) \/ SetWorker(g, "idle", NoJob)
    BY <1>2 DEF Write, WriteReturns
  <2>3. W.job \in A \cup {NoJob} /\ target \subseteq target' /\ W.job.rows \subseteq target'
    BY <1>1, <2>1
  <2>4. CASE SetWorker(g, "ack", W.job)
    BY <2>1, <2>3, <2>4, MovesSuccess DEF A
  <2>5. CASE SetWorker(g, "idle", NoJob)
    BY <1>1, <2>1, <2>3, <2>5, MovesSuccess DEF A
  <2> QED BY <2>2, <2>4, <2>5
<1>3. CASE WriteFails(g)
  <2>1. /\ UNCHANGED <<ranges, left, chunkChan, inHand, pc, loopErr, ctxDone, jobsClosed, jobChan>>
        /\ target \subseteq target' /\ writeErr' /\ SetWorker(g, "gone", NoJob)
    BY <1>3 DEF WriteFails, WriteReturnsError, readVars, consVars
  <2> QED BY <1>1, <2>1, MovesSuccess DEF A
<1>4. CASE TakeJob(g) /\ UNCHANGED jobVars
  <2>1. /\ UNCHANGED <<ranges, left, chunkChan, inHand, pc, loopErr, ctxDone, jobsClosed, writeErr,
                       poolDone, target>>
        /\ W.st = "idle" /\ jobChan # <<>> /\ jobChan' = Tail(jobChan)
    BY <1>4 DEF TakeJob, jobVars, durable, readVars, consVars
  <2>2. CASE W.cancelled \/ poolDone
    <3>1. SetWorker(g, "gone", NoJob) /\ (Broken \/ W.cancelled)
      BY <1>1, <1>4, <2>2 DEF TakeJob
    <3> QED BY <1>1, <2>1, <3>1, MovesSuccess DEF A
  <2>3. CASE ~(W.cancelled \/ poolDone)
    <3>1. SetWorker(g, "write", Head(jobChan))
      BY <1>4, <2>3 DEF TakeJob
    <3>2. Head(jobChan) \in A \cup {NoJob}
      BY <1>1, <2>1, TailChan
    <3> QED BY <1>1, <2>1, <3>1, <3>2, MovesSuccess DEF A
  <2> QED BY <2>2, <2>3
<1>5. CASE JobsEnd(g) /\ UNCHANGED jobVars
  <2>1. /\ UNCHANGED <<ranges, left, chunkChan, inHand, pc, loopErr, ctxDone, jobsClosed, writeErr,
                       poolDone, target, jobChan>>
        /\ W.st = "idle" /\ jobChan = <<>> /\ jobsClosed /\ SetWorker(g, "gone", NoJob)
    BY <1>5 DEF JobsEnd, jobVars, durable, readVars, consVars
  <2> QED BY <1>1, <2>1, MovesSuccess DEF A
<1>6. CASE SendAck(g) /\ UNCHANGED jobVars
  <2>1. /\ UNCHANGED <<ranges, left, chunkChan, inHand, pc, loopErr, ctxDone, jobsClosed, writeErr,
                       poolDone, target, jobChan>>
        /\ W.st = "ack"
    BY <1>6 DEF SendAck, jobVars, durable, readVars, consVars
  <2>2. SetWorker(g, "idle", NoJob) \/ (Broken /\ SetWorker(g, "gone", NoJob))
    BY <1>1, <1>6 DEF SendAck
  <2>3. CASE SetWorker(g, "idle", NoJob)
    BY <1>1, <2>1, <2>3, MovesSuccess DEF A
  <2>4. CASE Broken /\ SetWorker(g, "gone", NoJob)
    BY <1>1, <2>1, <2>4, MovesSuccess DEF A
  <2> QED BY <2>2, <2>3, <2>4
<1> QED BY <1>2, <1>3, <1>4, <1>5, <1>6 DEF WorkerStep

\* When the chunks of all the readers are written, so are the rows of the job.
LEMMA AllWritten ==
  ASSUME CheckpointInv, JobOrder, ranges # << >>, \A c \in AllChunks(ranges) : c.rows \subseteq target
  PROVE  JobRows \subseteq target
<1>1. PICK rs : rs = ranges
  OBVIOUS
<1>2. rs \in Seq(PKRangeRec) /\ rs # << >> /\ Consecutive(rs, rs[1].minPK, MaxPK)
      /\ RowsUpTo(rs[1].minPK) \subseteq target
  BY <1>1 DEF CheckpointInv, JobType, JobOrder
<1>3. /\ DOMAIN rs = 1 .. Len(rs) /\ Len(rs) \in Nat
      /\ \A r \in DOMAIN rs : rs[r].minPK \in Int /\ rs[r].maxPK \in Int
  BY <1>2, RangesTyped
<1>4. PICK c : c = [r \in DOMAIN rs |-> [lastPK |-> rs[r].maxPK, complete |-> TRUE]]
  OBVIOUS
<1>5. \A r \in DOMAIN rs : c[r].lastPK = rs[r].maxPK /\ c[r].complete
  BY <1>4
<1>6. ASSUME NEW r \in DOMAIN rs PROVE ClaimsWritten(rs, r, c[r], target)
  <2>1. rs[r].minPK <= rs[r].maxPK
    BY <1>2, <1>3 DEF Consecutive
  <2>2. ASSUME NEW k \in RowsBetween(rs[r].minPK, rs[r].maxPK) PROVE k \in target
    <3>1. ReaderChunks(rs, r)
      BY <1>2, ChunkFacts
    <3>2. PICK j \in DOMAIN ChunksOf(rs, r) : k \in ChunksOf(rs, r)[j].rows
      BY <3>1 DEF ReaderChunks
    <3>3. ChunksOf(rs, r)[j] \in AllChunks(rs)
      BY DEF AllChunks
    <3> QED BY <1>1, <3>2, <3>3
  <2> QED BY <1>3, <1>5, <2>1, <2>2 DEF ClaimsWritten
<1>7. SafeReader(c) \in DOMAIN rs /\ RowsUpTo(c[SafeReader(c)].lastPK) \subseteq target
  BY <1>1, <1>2, <1>6, SaveSafe
<1>8. SafeReader(c) = Len(rs)
  <2>1. Len(rs) > 0
    BY <1>2 DEF Consecutive
  <2>2. Len(rs) \in Readers /\ \A j \in 1 .. Len(rs) - 1 : c[j].complete
    BY <1>1, <1>3, <1>5, <2>1 DEF Readers
  <2>3. \E i \in Readers : (i = Len(ranges) \/ ~c[i].complete) /\ \A j \in 1 .. i - 1 : c[j].complete
    BY <1>1, <2>2
  <2>4. SafeReader(c) \in Readers
        /\ (SafeReader(c) = Len(ranges) \/ ~c[SafeReader(c)].complete)
    BY <2>3 DEF SafeReader
  <2> QED BY <1>1, <1>5, <2>4 DEF Readers
<1>9. RowsUpTo(MaxPK) \subseteq target
  <2>1. rs[Len(rs)].maxPK = MaxPK
    BY <1>2 DEF Consecutive
  <2> QED BY <1>5, <1>7, <1>8, <2>1
<1> QED BY <1>9 DEF RowsUpTo, JobRows

LEMMA ReturnSuccess ==
  ASSUME CheckpointInv, SuccessInv, Return
  PROVE  SuccessInv'
<1>1. /\ JobOrder /\ NoneLost /\ Readers' = Readers /\ Goroutines' = Goroutines
      /\ UNCHANGED <<ranges, left, chunkChan, inHand, target, loopErr, ctxDone, jobChan, jobsClosed,
                     worker, poolDone, writeErr>>
      /\ pc = "wait" /\ pc' \in {"ok", "failed"} /\ jobsClosed /\ \A g \in Goroutines : Gone(g)
      /\ pc' = "ok" => ~loopErr /\ ~writeErr
  BY DEF SuccessInv, Return, Drained, readVars, poolVars, Readers, Goroutines
<1>2. /\ ToReceive' = ToReceive /\ (Shrunk' <=> Shrunk) /\ (Broken' <=> Broken)
      /\ (ErrorPending' <=> ErrorPending)
  BY <1>1 DEF ToReceive, Shrunk, Broken, ErrorPending
<1>3. \A g \in Goroutines : (Gone(g)' <=> Gone(g))
  BY <1>1 DEF Gone
<1>4. JobOrder'
  BY <1>1, <1>2, <1>3 DEF JobOrder, Consuming, Running
<1>5. NoneLost'
  <2>1. Excused => Excused'
    BY <1>2 DEF Excused
  <2>2. \A c : OnItsWay(c) => OnItsWay(c)'
    BY <1>1, <1>2 DEF OnItsWay
  <2> QED BY <1>1, <2>1, <2>2, NoneLostStays
<1>6. SuccessUnlessShrunk'
  <2> SUFFICES ASSUME pc' = "ok", ~ctxDone, ~Shrunk PROVE JobRows \subseteq target
    BY <1>1 DEF SuccessUnlessShrunk, Shrunk
  <2>1. ~Broken /\ ~loopErr
    BY <1>1 DEF Broken
  <2>2. ToReceive = {} /\ worker # << >> /\ ranges # << >>
    BY <1>1, <2>1 DEF JobOrder, Running
  <2>3. ~Excused
    BY <2>1, <2>2 DEF Excused, ErrorPending
  <2>4. jobChan = << >>
    <3>1. PICK g \in Goroutines : TRUE
      <4>1. worker \in Seq(Worker(AllChunks(ranges)))
        BY DEF CheckpointInv, PoolType
      <4>2. Len(worker) \in Nat \ {0} /\ DOMAIN worker = 1 .. Len(worker)
        BY <2>2, <4>1, TailChan, LenProperties
      <4> QED BY <4>2 DEF Goroutines
    <3> QED BY <1>1, <2>1 DEF JobOrder
  <2>5. InChan(jobChan) = {}
    BY <2>4, EmptyChan
  <2>6. ASSUME NEW c \in AllChunks(ranges) PROVE c.rows \subseteq target
    <3>1. ~OnItsWay(c)
      BY <1>1, <2>2, <2>5 DEF OnItsWay, Gone
    <3> QED BY <1>1, <2>3, <3>1 DEF NoneLost
  <2> QED BY <1>1, <2>2, <2>6, AllWritten
<1> QED BY <1>4, <1>5, <1>6 DEF SuccessInv

LEMMA StartReadersSuccess ==
  ASSUME CheckpointInv, ParallelReaders > 1 => MinPK < MaxPK, NEW loaded,
         loaded = NoCheckpoint \/ (loaded \in Int64 /\ loaded <= MaxPK),
         loaded # NoCheckpoint => loaded = saved,
         StartReaders(JobRanges(loaded)), saved # NoCheckpoint => target' = target
  PROVE  SuccessInv'
<1>1. PICK rs : rs = JobRanges(loaded)
  OBVIOUS
<1>2. /\ rs \in Seq(PKRangeRec) /\ rs # << >>
      /\ loaded # NoCheckpoint => rs[1].minPK = saved
      /\ loaded = NoCheckpoint => RowsUpTo(rs[1].minPK) = {}
  BY <1>1, JobRangesFacts
<1>3. StartJob(rs, [r \in DOMAIN rs |-> ChunksOf(rs, r)], NewPool) /\ pc' = "loop"
  BY <1>1 DEF StartReaders
<1>4. /\ ranges' = rs /\ left' = [r \in DOMAIN rs |-> ChunksOf(rs, r)]
      /\ loopErr' = FALSE /\ poolDone' = FALSE /\ jobsClosed' = FALSE /\ worker' = NewPool.worker
  BY <1>3 DEF StartJob, StartPool
<1>5. Readers' = DOMAIN rs /\ AllChunks(ranges)' = AllChunks(rs)
  BY <1>4 DEF Readers
<1>6. worker' # << >> /\ \A g \in Goroutines' : ~Gone(g)'
  <2>1. \A g \in DOMAIN NewPool.worker : NewPool.worker[g] = Idle
    BY PoolsTyped
  <2> QED BY <1>4, <2>1, PoolsTyped DEF Goroutines, Gone, Idle
<1>7. RowsUpTo(rs[1].minPK) \subseteq target'
  BY <1>2, SavedRows
<1>8. JobOrder'
  BY <1>2, <1>3, <1>4, <1>6, <1>7 DEF JobOrder, Consuming
<1>9. ASSUME NEW c \in AllChunks(rs) PROVE OnItsWay(c)'
  <2>1. PICK r \in DOMAIN rs : \E i \in DOMAIN ChunksOf(rs, r) : c = ChunksOf(rs, r)[i]
    BY DEF AllChunks
  <2>2. PICK i \in DOMAIN ChunksOf(rs, r) : c = ChunksOf(rs, r)[i]
    BY <2>1
  <2>3. left'[r] = ChunksOf(rs, r) /\ r \in Readers'
    BY <1>4, <1>5
  <2>4. ChunksOf(rs, r) \in Seq(AllChunks(rs))
    BY <1>2, ChunkFacts
  <2>5. i \in 1 .. Len(ChunksOf(rs, r))
    BY <2>4, LenProperties
  <2>6. c \in InChan(left'[r])
    BY <2>2, <2>3, <2>5 DEF InChan
  <2> QED BY <2>3, <2>6 DEF OnItsWay, ToReceive
<1>10. NoneLost'
  BY <1>5, <1>9 DEF NoneLost
<1> QED BY <1>3, <1>8, <1>10 DEF SuccessInv, SuccessUnlessShrunk

\* Nothing is read, as by the Execute that takes the table for empty, and after a crash.
LEMMA NothingSuccess ==
  ASSUME StartJob(<<>>, <<>>, NoPool), pc' \in {"ok", "crashed"}
  PROVE  SuccessInv'
<1>1. ranges' = <<>> /\ worker' = <<>> /\ poolDone' = FALSE /\ jobsClosed' = FALSE
  BY DEF StartJob, StartPool, NoPool
<1>2. Goroutines' = {} /\ AllChunks(ranges)' = {}
  BY <1>1 DEF Goroutines, AllChunks
<1>3. JobOrder'
  BY <1>1, <1>2 DEF JobOrder, Consuming, Running
<1> QED BY <1>1, <1>2, <1>3 DEF SuccessInv, NoneLost, SuccessUnlessShrunk, ReadNothing

LEMMA ExecuteSuccess ==
  ASSUME NoBlindTruncation, CheckpointInv, Execute, ParallelReaders > 1 => MinPK < MaxPK
  PROVE  SuccessInv'
<1>1. PICK loaded \in Loaded :
        /\ loaded = NoCheckpoint \/ (loaded \in Int64 /\ loaded <= MaxPK)
        /\ loaded # NoCheckpoint => loaded = saved
        /\ StartReaders(JobRanges(loaded)) \/ TakenForEmpty
  BY ExecuteDoes
<1>2. saved # NoCheckpoint => target' = target
  BY ExecuteDoes
<1>3. CASE StartReaders(JobRanges(loaded))
  BY <1>1, <1>2, <1>3, StartReadersSuccess
<1>4. CASE TakenForEmpty
  BY <1>4, NothingSuccess DEF TakenForEmpty
<1> QED BY <1>1, <1>3, <1>4

LEMMA SuccessNext ==
  ASSUME NoBlindTruncation, ParallelReaders > 1 => MinPK < MaxPK,
         CheckpointInv, SuccessInv, [Next]_vars
  PROVE  SuccessInv'
<1>1. ASSUME Execute PROVE SuccessInv'
  BY <1>1, ExecuteSuccess
<1>2. ASSUME NEW r \in Readers, ReaderStep(r) PROVE SuccessInv'
  BY <1>2, ReadersSuccess
<1>3. ASSUME ConsumerStep PROVE SuccessInv'
  <2>1. CASE Receive
    BY <2>1, ReceiveSuccess
  <2>2. CASE Submit
    BY <2>2, SubmitSuccess
  <2>3. CASE TakeUpdate
    BY <2>3, TakeUpdateSuccess
  <2>4. CASE Return
    BY <2>4, ReturnSuccess
  <2>5. CASE ChunksEnd \/ Wait
    BY <2>5, QuietSuccess
  <2> QED BY <1>3, <2>1, <2>2, <2>3, <2>4, <2>5 DEF ConsumerStep
<1>4. ASSUME NEW g \in Goroutines, WorkerStep(g) PROVE SuccessInv'
  BY <1>4, WorkersSuccess
<1>5. ASSUME Crash PROVE SuccessInv'
  BY <1>5, NothingSuccess DEF Crash
<1>6. ASSUME AckStep \/ UpdateConfig \/ Cancel \/ Terminated \/ UNCHANGED vars PROVE SuccessInv'
  BY <1>6, QuietSuccess
<1> QED BY <1>1, <1>2, <1>3, <1>4, <1>5, <1>6 DEF Next

\* When Execute returns no error, having read its ranges, and was not cancelled and lost no
\* worker to ScaleWorkers, each row of the job is in the target, if no table is truncated
\* whose checkpoint could not be loaded.  A job of one key has one reader: with several, its
\* range is empty and the row is never read (splitPKRange).
THEOREM PipelineSuccess ==
  ASSUME NoBlindTruncation, ParallelReaders > 1 => MinPK < MaxPK
  PROVE  Spec => []SuccessUnlessShrunk
<1>1. Init => CheckpointInv /\ SuccessInv
  BY CheckpointInit, SuccessInit
<1>2. CheckpointInv /\ SuccessInv /\ [Next]_vars => CheckpointInv' /\ SuccessInv'
  BY CheckpointNext, SuccessNext
<1>3. SuccessInv => SuccessUnlessShrunk
  BY DEF SuccessInv
<1> QED BY <1>1, <1>2, <1>3, PTL DEF Spec
=============================================================================
