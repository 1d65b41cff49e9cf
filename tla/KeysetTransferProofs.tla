------------------------ MODULE KeysetTransferProofs ------------------------
(***************************************************************************)
(* Theorems about splitPKRange, for every integer width, every pair of     *)
(* keys and every number of readers; and about KeysetTransfer, for every   *)
(* table, every configuration and any number of attempts: its checkpoint   *)
(* is safe; from one attempt to the next it moves forwards only, and the   *)
(* other partitions are left alone; an attempt that succeeds has           *)
(* transferred the job; all of it implements TransferJob; and under every  *)
(* fault, the checkpoint claims no fewer rows than it covers, and no row   *)
(* is inserted twice.                                                      *)
(***************************************************************************)
EXTENDS KeysetTransfer, WellFoundedInduction, FiniteSetTheorems, TLAPS

-----------------------------------------------------------------------------
(* The ranges of a split. *)

\* A non-empty set of naturals has a least element.
LEMMA LeastNat ==
  ASSUME NEW T, T \subseteq Nat, T # {}
  PROVE  \E m \in T : \A k \in T : m <= k
<1>1. IsWellFoundedOn({p \in Nat \X Nat : p[1] < p[2]}, Nat)
  BY NatLessThanWellFounded DEF OpToRel
<1>2. PICK m \in T : \A k \in T : ~(<<k, m>> \in {p \in Nat \X Nat : p[1] < p[2]})
  BY <1>1, WFMin
<1>3. \A k \in T : ~(k < m)
  BY <1>2
<1> QED BY <1>3

\* Wrapping gives an int64, and leaves an int64 alone.
LEMMA WrapInt64 ==
  ASSUME NEW x \in Int
  PROVE  /\ Wrap(x) \in Int64
         /\ x \in Int64 => Wrap(x) = x
<1> DEFINE W == 2 * HalfWidth
<1>1. W \in Nat \ {0} /\ x + HalfWidth \in Int
  BY HalfWidthAssumption
<1>2. (x + HalfWidth) % W \in 0 .. W - 1
  BY <1>1
<1>3. x + HalfWidth \in 0 .. W - 1 => (x + HalfWidth) % W = x + HalfWidth
  BY <1>1
<1> QED BY <1>1, <1>2, <1>3, HalfWidthAssumption DEF Wrap, Int64

LEMMA DivBounds ==
  ASSUME NEW a \in Nat, NEW n \in Nat \ {0}
  PROVE  a \div n \in Nat /\ n * (a \div n) <= a /\ a < n * (a \div n) + n
OBVIOUS

LEMMA TimesMonotone ==
  ASSUME NEW i \in Nat, NEW k \in Nat, NEW s \in Nat, i <= k
  PROVE  i * s \in Nat /\ i * s <= k * s
<1>1. PICK d \in Nat : k = i + d
  <2>1. k - i \in Nat /\ k = i + (k - i)
    OBVIOUS
  <2> QED BY <2>1
<1>2. d * s \in Nat /\ i * s \in Nat
  OBVIOUS
<1>3. k * s = i * s + d * s
  BY <1>1
<1> QED BY <1>2, <1>3

\* The ranges of a split fit: their number times their size is at most the total.
LEMMA SplitFits ==
  ASSUME NEW total \in Nat \ {0}, NEW n \in Nat \ {0}
  PROVE  /\ RangeSize(total, n) \in Nat \ {0}
         /\ RangeCount(total, n) \in 1 .. n
         /\ RangeCount(total, n) * RangeSize(total, n) <= total
<1>1. /\ total \div n \in Nat
      /\ n * (total \div n) <= total /\ total < n * (total \div n) + n
  BY DivBounds
<1>2. CASE total \div n < 1
  <2>1. total < n
    BY <1>1, <1>2
  <2> QED BY <1>2, <2>1 DEF RangeSize, RangeCount
<1>3. CASE ~(total \div n < 1)
  BY <1>1, <1>3 DEF RangeSize, RangeCount
<1> QED BY <1>2, <1>3

(***************************************************************************)
(* A split of an integer range: consecutive ranges from the key before the *)
(* smallest one up to the largest one.  The exception is a range of one    *)
(* key with several readers, which starts at that key and so leaves it     *)
(* out.                                                                    *)
(***************************************************************************)
THEOREM SplitConsecutive ==
  ASSUME NEW minPK \in PKValue, NEW maxPK \in PKValue, NEW n \in Nat \ {0},
         minPK.isInt, maxPK.isInt, minPK.val - 1 \in Int64,
         minPK.val <= maxPK.val, maxPK.val - minPK.val < HalfWidth,
         n = 1 \/ minPK.val < maxPK.val
  PROVE  /\ SplitPKRange(minPK, maxPK, n) \in Seq(PKRangeRec)
         /\ Len(SplitPKRange(minPK, maxPK, n)) <= n
         /\ Consecutive(SplitPKRange(minPK, maxPK, n), minPK.val - 1, maxPK.val)
<1> DEFINE lo == minPK.val
           hi == maxPK.val
           total == hi - lo
           R == SplitPKRange(minPK, maxPK, n)
<1>1. lo \in Int64 /\ hi \in Int64 /\ lo \in Int /\ hi \in Int
  BY HalfWidthAssumption DEF PKValue, Int64
<1>2. total \in Int64 /\ total \in Nat /\ TotalRange(minPK, maxPK) = total
  BY <1>1, WrapInt64, HalfWidthAssumption DEF TotalRange, Int64
<1>3. Wrap(lo - 1) = lo - 1
  BY <1>1, WrapInt64
<1>4. CASE n = 1
  <2>1. R = << [minPK |-> lo - 1, maxPK |-> hi] >>
    BY <1>3, <1>4 DEF SplitPKRange, DecrementPK
  <2>2. [minPK |-> lo - 1, maxPK |-> hi] \in PKRangeRec
    BY <1>1 DEF PKRangeRec
  <2> HIDE DEF R
  <2>3. R \in Seq(PKRangeRec) /\ Len(R) = 1 /\ R[1] = [minPK |-> lo - 1, maxPK |-> hi]
    BY <2>1, <2>2
  <2> QED BY <1>1, <1>4, <2>3 DEF Consecutive, R
<1>5. CASE n > 1
  <2> DEFINE k == RangeCount(total, n)
             size == RangeSize(total, n)
             Nth(i) == NthRange(lo, hi, size, k, i)
  <2>1. total \in Nat \ {0}
    BY <1>1, <1>2, <1>5
  <2>2. k \in 1 .. n /\ size \in Nat \ {0} /\ k * size <= total
    BY <2>1, SplitFits
  <2>3. R = [i \in 1 .. k |-> Nth(i)]
    BY <1>2, <1>5, <2>1 DEF SplitPKRange
  <2> HIDE DEF R, k, size
  <2>4. \A i \in 0 .. k : /\ lo + i * size \in Int64 /\ Wrap(lo + i * size) = lo + i * size
                          /\ lo <= lo + i * size /\ lo + i * size <= hi
    <3> SUFFICES ASSUME NEW i \in 0 .. k
                 PROVE  /\ lo + i * size \in Int64 /\ Wrap(lo + i * size) = lo + i * size
                        /\ lo <= lo + i * size /\ lo + i * size <= hi
      OBVIOUS
    <3>1. i * size \in Nat /\ i * size <= k * size
      BY <2>2, TimesMonotone
    <3>2. lo <= lo + i * size /\ lo + i * size <= hi /\ lo + i * size \in Int
      BY <3>1, <2>2, <1>1
    <3>3. lo + i * size \in Int64
      BY <3>2, <1>1, HalfWidthAssumption DEF Int64
    <3> QED BY <3>2, <3>3, WrapInt64
  <2>5. \A i \in 1 .. k :
          /\ Nth(i).minPK = IF i = 1 THEN lo - 1 ELSE lo + (i - 1) * size
          /\ Nth(i).maxPK = IF i = k THEN hi ELSE lo + i * size
    <3> SUFFICES ASSUME NEW i \in 1 .. k
                 PROVE  /\ Nth(i).minPK = IF i = 1 THEN lo - 1 ELSE lo + (i - 1) * size
                        /\ Nth(i).maxPK = IF i = k THEN hi ELSE lo + i * size
      OBVIOUS
    <3>1. i \in 0 .. k /\ i - 1 \in 0 .. k
      BY <2>2
    <3>2. Wrap(lo + i * size) = lo + i * size /\ Wrap(lo + (i - 1) * size) = lo + (i - 1) * size
      BY <3>1, <2>4
    <3> QED BY <3>2, <1>3 DEF NthRange
  <2>6. \A i \in 1 .. k : Nth(i) \in PKRangeRec
    <3> SUFFICES ASSUME NEW i \in 1 .. k PROVE Nth(i) \in PKRangeRec
      OBVIOUS
    <3>1. i \in 0 .. k /\ i - 1 \in 0 .. k
      BY <2>2
    <3>2. lo + i * size \in Int64 /\ lo + (i - 1) * size \in Int64
      BY <3>1, <2>4
    <3>3. Nth(i).minPK \in Int64 /\ Nth(i).maxPK \in Int64
      BY <2>5, <3>2, <1>1
    <3> QED BY <3>3 DEF NthRange, PKRangeRec
  <2>7. R \in Seq(PKRangeRec) /\ Len(R) = k /\ \A i \in 1 .. k : R[i] = Nth(i)
    BY <2>2, <2>3, <2>6
  <2>8. \A i \in 1 .. k : Nth(i).minPK <= Nth(i).maxPK
    <3> SUFFICES ASSUME NEW i \in 1 .. k PROVE Nth(i).minPK <= Nth(i).maxPK
      OBVIOUS
    <3>1. i \in 0 .. k /\ i - 1 \in 0 .. k /\ i - 1 <= i
      BY <2>2
    <3>2. (i - 1) * size <= i * size /\ (i - 1) * size \in Int /\ i * size \in Int
      BY <3>1, <2>2, TimesMonotone
    <3>3. lo + (i - 1) * size <= hi /\ lo <= lo + i * size
      BY <3>1, <2>4
    <3> QED BY <2>5, <3>2, <3>3, <1>1
  <2>9. \A i \in 1 .. k - 1 : Nth(i + 1).minPK = Nth(i).maxPK
    <3> SUFFICES ASSUME NEW i \in 1 .. k - 1 PROVE Nth(i + 1).minPK = Nth(i).maxPK
      OBVIOUS
    <3>1. i \in 1 .. k /\ i + 1 \in 1 .. k /\ i # k /\ i + 1 # 1 /\ (i + 1) - 1 = i
      BY <2>2
    <3> QED BY <2>5, <3>1
  <2>10. Nth(1).minPK = lo - 1 /\ Nth(k).maxPK = hi
    BY <2>2, <2>5
  <2> HIDE DEF Nth
  <2>11. Consecutive(R, lo - 1, hi)
    BY <2>2, <2>7, <2>8, <2>9, <2>10 DEF Consecutive
  <2> QED BY <2>2, <2>7, <2>11 DEF R
<1> QED BY <1>4, <1>5

\* A key that is not an integer cannot be split, and is not decremented: one
\* reader starts after it.
THEOREM SplitOther ==
  ASSUME NEW minPK \in PKValue, NEW maxPK \in PKValue, NEW n \in Nat \ {0},
         ~minPK.isInt
  PROVE  SplitPKRange(minPK, maxPK, n) = << [minPK |-> minPK.val, maxPK |-> maxPK.val] >>
BY DEF SplitPKRange, DecrementPK

\* With several readers a single key is not split either, nor decremented.
THEOREM SplitSingle ==
  ASSUME NEW minPK \in PKValue, NEW maxPK \in PKValue, NEW n \in Nat \ {0}, n > 1,
         minPK.isInt, minPK.val = maxPK.val
  PROVE  SplitPKRange(minPK, maxPK, n) = << [minPK |-> minPK.val, maxPK |-> maxPK.val] >>
<1>1. minPK.val \in Int /\ maxPK.val \in Int /\ 0 \in Int64
  BY HalfWidthAssumption DEF PKValue, Int64
<1>2. TotalRange(minPK, maxPK) = 0
  BY <1>1, WrapInt64 DEF TotalRange
<1> QED BY <1>2 DEF SplitPKRange

\* What never decreases from one index to the next never decreases.
LEMMA StepwiseMonotone ==
  ASSUME NEW n \in Nat, NEW f, \A k \in 0 .. n : f[k] \in Int,
         \A k \in 1 .. n : f[k - 1] <= f[k]
  PROVE  \A i, j \in 0 .. n : i <= j => f[i] <= f[j]
<1> SUFFICES ASSUME NEW i \in 0 .. n
             PROVE  \A j \in i .. n : f[i] <= f[j]
  OBVIOUS
<1> DEFINE T == {j \in i .. n : ~(f[i] <= f[j])}
<1>1. CASE T = {}
  BY <1>1
<1>2. CASE T # {}
  <2>1. T \subseteq Nat
    OBVIOUS
  <2>2. PICK m \in T : \A k \in T : m <= k
    BY <1>2, <2>1, LeastNat
  <2>3. m # i /\ m \in i .. n
    BY <2>2
  <2>4. m - 1 \in i .. n /\ m - 1 \notin T /\ m \in 1 .. n
    BY <2>2, <2>3
  <2>5. f[i] <= f[m - 1] /\ f[m - 1] <= f[m]
    BY <2>4
  <2> QED BY <2>2, <2>4, <2>5
<1> QED BY <1>1, <1>2

\* Consecutive ranges lie between their bounds, each after those before it.
LEMMA ConsecutiveOrdered ==
  ASSUME NEW rs \in Seq(PKRangeRec), NEW lo, NEW hi, Consecutive(rs, lo, hi)
  PROVE  /\ \A r \in 1 .. Len(rs) : lo <= rs[r].minPK /\ rs[r].maxPK <= hi
         /\ \A i, j \in 1 .. Len(rs) : i < j =>
              rs[i].minPK <= rs[i].maxPK /\ rs[i].maxPK <= rs[j].minPK
<1> DEFINE n == Len(rs)
           f == [k \in 0 .. n |-> IF k = 0 THEN lo ELSE rs[k].maxPK]
<1>1. n \in Nat \ {0} /\ rs[1].minPK = lo /\ rs[n].maxPK = hi
  BY DEF Consecutive
<1>2. \A k \in 1 .. n : rs[k].minPK \in Int /\ rs[k].maxPK \in Int
  <2>1. \A k \in 1 .. n : rs[k] \in PKRangeRec
    OBVIOUS
  <2> QED BY <2>1, HalfWidthAssumption DEF PKRangeRec, Int64
<1>3. \A k \in 1 .. n : rs[k].minPK = f[k - 1] /\ rs[k].maxPK = f[k] /\ f[k - 1] <= f[k]
  <2> SUFFICES ASSUME NEW k \in 1 .. n
               PROVE  rs[k].minPK = f[k - 1] /\ rs[k].maxPK = f[k] /\ f[k - 1] <= f[k]
    OBVIOUS
  <2>1. rs[k].minPK <= rs[k].maxPK /\ rs[k].maxPK = f[k]
    BY <1>1 DEF Consecutive
  <2>2. CASE k = 1
    BY <1>1, <2>1, <2>2
  <2>3. CASE k # 1
    <3>1. k - 1 \in 1 .. n - 1 /\ k - 1 \in 0 .. n /\ k - 1 # 0 /\ (k - 1) + 1 = k
      BY <1>1, <2>3
    <3>2. rs[(k - 1) + 1].minPK = rs[k - 1].maxPK
      BY <3>1 DEF Consecutive
    <3>3. f[k - 1] = rs[k - 1].maxPK
      BY <3>1
    <3> QED BY <2>1, <3>1, <3>2, <3>3
  <2> QED BY <2>2, <2>3
<1>4. \A k \in 0 .. n : f[k] \in Int
  BY <1>1, <1>2
<1> HIDE DEF f
<1>5. \A i, j \in 0 .. n : i <= j => f[i] <= f[j]
  BY <1>1, <1>3, <1>4, StepwiseMonotone
<1>6. f[0] = lo /\ f[n] = hi
  BY <1>1, <1>3 DEF f
<1>7. ASSUME NEW r \in 1 .. n PROVE lo <= rs[r].minPK /\ rs[r].maxPK <= hi
  <2>1. f[0] <= f[r - 1] /\ f[r] <= f[n]
    BY <1>1, <1>5
  <2> QED BY <1>3, <1>6, <2>1
<1>8. ASSUME NEW i \in 1 .. n, NEW j \in 1 .. n, i < j
      PROVE  rs[i].minPK <= rs[i].maxPK /\ rs[i].maxPK <= rs[j].minPK
  <2>1. i \in 0 .. n /\ j - 1 \in 0 .. n /\ i <= j - 1
    BY <1>1, <1>8
  <2>2. f[i] <= f[j - 1]
    BY <1>5, <2>1
  <2> QED BY <1>3, <2>2
<1> QED BY <1>7, <1>8

-----------------------------------------------------------------------------
(* Facts about the operators of the model. *)

LEMMA TailFacts ==
  ASSUME NEW S, NEW q \in Seq(S), q # <<>>
  PROVE  /\ Tail(q) \in Seq(S) /\ Len(Tail(q)) = Len(q) - 1 /\ Len(q) \in Nat \ {0}
         /\ Head(q) = q[1] /\ Head(q) \in S
         /\ \A i \in 1 .. Len(Tail(q)) : i + 1 \in 1 .. Len(q) /\ Tail(q)[i] = q[i + 1]
OBVIOUS

LEMMA AppendFacts ==
  ASSUME NEW S, NEW q \in Seq(S), NEW x \in S
  PROVE  /\ Append(q, x) \in Seq(S) /\ Len(Append(q, x)) = Len(q) + 1 /\ Len(q) \in Nat
         /\ \A i \in 1 .. Len(q) : Append(q, x)[i] = q[i]
         /\ Append(q, x)[Len(q) + 1] = x
         /\ \A i \in 1 .. Len(Append(q, x)) : i \in 1 .. Len(q) \/ i = Len(q) + 1
OBVIOUS

\* A set of rows has a number of rows.
LEMMA RowsFinite ==
  ASSUME NEW R, R \subseteq SourcePKs
  PROVE  Cardinality(R) \in Nat
BY FS_Subset, FS_CardinalityType, RowsAssumption

\* A checkpoint's reader: the first one that is not complete, or the last one.
LEMMA SafeReaderFacts ==
  ASSUME NEW n \in Nat \ {0}, NEW c
  PROVE  /\ SafeReader(n, c) \in 1 .. n
         /\ SafeReader(n, c) = n \/ ~c[SafeReader(n, c)].complete
         /\ \A j \in 1 .. SafeReader(n, c) - 1 : c[j].complete
<1> DEFINE T == {i \in 1 .. n : i = n \/ ~c[i].complete}
<1>1. T \subseteq Nat /\ n \in T
  OBVIOUS
<1> HIDE DEF T
<1>2. PICK m \in T : \A k \in T : m <= k
  BY <1>1, LeastNat
<1>3. m \in 1 .. n /\ (m = n \/ ~c[m].complete)
  BY DEF T
<1>4. \A j \in 1 .. m - 1 : c[j].complete
  BY <1>2, <1>3 DEF T
<1>5. \E i \in 1 .. n : /\ i = n \/ ~c[i].complete
                        /\ \A j \in 1 .. i - 1 : c[j].complete
  BY <1>3, <1>4
<1> QED BY <1>5 DEF SafeReader

\* An attempt that has a reader has ranges.
LEMMA ReadersFacts ==
  ASSUME ranges \in Seq(PKRangeRec), Readers # {}
  PROVE  Len(ranges) \in Nat \ {0} /\ Readers = 1 .. Len(ranges) /\ ranges # <<>>
BY DEF Readers

LEMMA KeysAreIntegers ==
  /\ SourcePKs \subseteq Int /\ MinPK \in Int /\ MaxPK \in Int /\ HalfWidth \in Nat
  /\ Int64 \subseteq Int /\ SourcePKs \subseteq Int64 /\ JobRows \subseteq SourcePKs
BY RowsAssumption, HalfWidthAssumption DEF Int64, JobRows

\* The ranges of an attempt: consecutive ranges up to MaxPK that start before
\* MinPK or, in a resume, after the checkpoint; or a single empty range.
LEMMA JobRangesFacts ==
  ASSUME NEW ckpt \in Checkpoint \cup {NoCheckpoint}
  PROVE  /\ JobRanges(ckpt) \in Seq(PKRangeRec)
         /\ Len(JobRanges(ckpt)) \in Nat \ {0}
         /\ JobRanges(ckpt)[Len(JobRanges(ckpt))].maxPK = MaxPK
         /\ \A i \in 1 .. Len(JobRanges(ckpt)) - 1 :
              JobRanges(ckpt)[i + 1].minPK = JobRanges(ckpt)[i].maxPK
         /\ \/ /\ ckpt = NoCheckpoint
               /\ JobRanges(ckpt)[1].minPK = MinPK - 1
            \/ /\ ckpt = NoCheckpoint
               /\ Len(JobRanges(ckpt)) = 1
               /\ JobRanges(ckpt)[1].minPK = JobRanges(ckpt)[1].maxPK
            \/ /\ ckpt # NoCheckpoint
               /\ JobRanges(ckpt)[1].minPK = ckpt.lastPK
<1> DEFINE lo == [isInt |-> ckpt = NoCheckpoint,
                  val |-> IF ckpt = NoCheckpoint THEN MinPK ELSE ckpt.lastPK]
           hi == [isInt |-> TRUE, val |-> MaxPK]
           R == JobRanges(ckpt)
<1>1. lo \in PKValue /\ hi \in PKValue
  BY KeysAreIntegers, RowsAssumption DEF PKValue, Checkpoint
<1>2. R = SplitPKRange(lo, hi, ParallelReaders) /\ ParallelReaders \in Nat \ {0}
  BY ConfigAssumption DEF JobRanges
<1>3. lo.val \in Int64 /\ MaxPK \in Int64
  BY <1>1, KeysAreIntegers, RowsAssumption DEF PKValue
<1>4. ASSUME R = << [minPK |-> lo.val, maxPK |-> MaxPK] >>
      PROVE  /\ R \in Seq(PKRangeRec) /\ Len(R) = 1
             /\ R[1].minPK = lo.val /\ R[1].maxPK = MaxPK
  <2>1. [minPK |-> lo.val, maxPK |-> MaxPK] \in PKRangeRec
    BY <1>3 DEF PKRangeRec
  <2> QED BY <1>4, <2>1
<1>5. CASE ckpt # NoCheckpoint
  <2>1. R = << [minPK |-> lo.val, maxPK |-> MaxPK] >>
    BY <1>1, <1>2, <1>5, SplitOther
  <2> HIDE DEF R
  <2> QED BY <1>4, <1>5, <2>1 DEF R
<1>6. CASE ckpt = NoCheckpoint /\ ParallelReaders > 1 /\ MinPK = MaxPK
  <2>1. R = << [minPK |-> lo.val, maxPK |-> MaxPK] >>
    BY <1>1, <1>2, <1>6, SplitSingle
  <2> HIDE DEF R
  <2> QED BY <1>4, <1>6, <2>1 DEF R
<1>7. CASE ckpt = NoCheckpoint /\ (ParallelReaders = 1 \/ MinPK # MaxPK)
  <2>1. MinPK - 1 \in Int64
    BY WrapInt64, KeysAreIntegers, RowsAssumption
  <2>2. lo.val = MinPK /\ hi.val = MaxPK /\ lo.isInt /\ hi.isInt
    BY <1>7
  <2>3. MinPK <= MaxPK /\ MaxPK - MinPK < HalfWidth
    BY RowsAssumption
  <2>4. ParallelReaders = 1 \/ MinPK < MaxPK
    BY <1>7, <2>3, KeysAreIntegers
  <2> HIDE DEF lo, hi, R
  <2>5. R \in Seq(PKRangeRec) /\ Consecutive(R, MinPK - 1, MaxPK)
    BY <1>1, <1>2, <2>1, <2>2, <2>3, <2>4, SplitConsecutive
  <2> QED BY <1>7, <2>5 DEF Consecutive, R
<1> QED BY <1>5, <1>6, <1>7, ConfigAssumption

-----------------------------------------------------------------------------
(***************************************************************************)
(* Types, and the validity of every chunk under way.                       *)
(***************************************************************************)

TypeInv == TypeOK /\ RefsOK

LEMMA TypeInit == Init => TypeInv
<1> SUFFICES ASSUME Init PROVE TypeInv
  OBVIOUS
<1>1. target \subseteq SourcePKs
  BY DEF Init
<1>2. NoChunk \in Chunks /\ <<>> \in Seq(Chunks) /\ <<>> \in Seq(PKRangeRec)
  BY DEF NoChunk, Chunks
<1>3. Readers = {}
  BY DEF Init, Readers
<1>4. worker \in [Workers -> [st : WorkerStates, job : Chunks]]
  BY <1>2 DEF Init, WorkerStates
<1>5. /\ cuts \in [Readers -> Seq(SourcePKs)]
      /\ reader \in [Readers -> {"read", "send", "fail", "done"}]
      /\ ck \in [Readers -> CkState]
  BY <1>3 DEF Init
<1>6. TypeOK
  BY <1>1, <1>2, <1>4, <1>5 DEF Init, TypeOK, Stopped
<1>7. RefsOK
  BY <1>3 DEF Init, RefsOK, Running
<1> QED BY <1>6, <1>7 DEF TypeInv

\* A new attempt has no chunk under way.
LEMMA ResetFacts ==
  ASSUME NEW rs \in Seq(PKRangeRec), NEW st \in WorkerStates, ResetAttempt(rs, st)
  PROVE  /\ ranges' \in Seq(PKRangeRec)
         /\ cuts' \in [Readers' -> Seq(SourcePKs)]
         /\ reader' \in [Readers' -> {"read", "send", "fail", "done"}]
         /\ chunkChan' \in Seq(Chunks) /\ jobChan' \in Seq(Chunks) /\ ackChan' \in Seq(Chunks)
         /\ inHand' \in Chunks
         /\ worker' \in [Workers -> [st : WorkerStates, job : Chunks]]
         /\ ck' \in [Readers' -> CkState]
         /\ draining' \in Readers' \cup {0}
         /\ completedChunks' \in Nat /\ totalWritten' \in Nat
         /\ ctxDone' \in BOOLEAN /\ wpCancelled' \in BOOLEAN
         /\ writeErr' \in BOOLEAN /\ loopErr' \in BOOLEAN /\ gotChunk' \in BOOLEAN
         /\ pc' # "submit" /\ st \notin {"write", "count", "ack"} => RefsOK'
<1>1. NoChunk \in Chunks
  BY DEF NoChunk, Chunks
<1>2. Readers' = 1 .. Len(rs) /\ ranges' = rs /\ Len(rs) \in Nat
  BY DEF ResetAttempt, Readers
<1>3. \A r \in 1 .. Len(rs) : rs[r] \in PKRangeRec
  OBVIOUS
<1>4. ck' \in [Readers' -> CkState]
  <2> SUFFICES ASSUME NEW r \in 1 .. Len(rs)
               PROVE  [lastPK |-> rs[r].minPK, nextSeq |-> 0, pending |-> {},
                       complete |-> rs[r].minPK >= rs[r].maxPK] \in CkState
    BY <1>2 DEF ResetAttempt, InitialCk
  <2> QED BY <1>3 DEF CkState, PKRangeRec
<1>5. worker' \in [Workers -> [st : WorkerStates, job : Chunks]]
  BY <1>1 DEF ResetAttempt
<1>6. cuts' \in [Readers' -> Seq(SourcePKs)]
  BY <1>2 DEF ResetAttempt
<1>7. reader' \in [Readers' -> {"read", "send", "fail", "done"}]
  BY <1>2 DEF ResetAttempt
<1>8. ASSUME pc' # "submit", st \notin {"write", "count", "ack"} PROVE RefsOK'
  <2>1. chunkChan' = <<>> /\ jobChan' = <<>> /\ ackChan' = <<>> /\ draining' = 0 /\ gotChunk' = FALSE
    BY DEF ResetAttempt
  <2>2. \A w \in Workers : worker'[w].st = st
    BY DEF ResetAttempt
  <2>3. \A r \in Readers' : ck'[r].pending = {}
    BY <1>2 DEF ResetAttempt, InitialCk
  <2>4. \A r \in Readers' : reader'[r] = "read"
    BY <1>2 DEF ResetAttempt
  <2> QED BY <1>8, <2>1, <2>2, <2>3, <2>4 DEF RefsOK
<1>9. /\ chunkChan' \in Seq(Chunks) /\ jobChan' \in Seq(Chunks) /\ ackChan' \in Seq(Chunks)
      /\ inHand' \in Chunks /\ draining' \in Readers' \cup {0}
      /\ completedChunks' \in Nat /\ totalWritten' \in Nat
  BY <1>1 DEF ResetAttempt
<1>10. /\ ctxDone' \in BOOLEAN /\ wpCancelled' \in BOOLEAN
       /\ writeErr' \in BOOLEAN /\ loopErr' \in BOOLEAN /\ gotChunk' \in BOOLEAN
  BY DEF ResetAttempt
<1> QED BY <1>2, <1>4, <1>5, <1>6, <1>7, <1>8, <1>9, <1>10

\* A checkpoint of valid state is a checkpoint.
LEMMA SaveFacts ==
  ASSUME TypeOK, Readers # {}, NEW c \in [Readers -> CkState], SaveProgress(SafeCheckpoint(c))
  PROVE  saved' \in Checkpoint \cup {NoCheckpoint}
<1>1. SafeReader(Len(ranges), c) \in Readers
  BY ReadersFacts, SafeReaderFacts DEF TypeOK
<1>2. SafeCheckpoint(c) \in Int64
  BY <1>1 DEF SafeCheckpoint, CkState
<1>3. resumeRowsDone + totalWritten \in Nat
  BY DEF TypeOK
<1> QED BY <1>2, <1>3 DEF SaveProgress, Checkpoint, TypeOK

LEMMA RangeFacts ==
  ASSUME TypeOK, NEW r \in Readers
  PROVE  /\ ranges[r] \in PKRangeRec /\ ranges[r].minPK \in Int64 /\ ranges[r].maxPK \in Int64
         /\ cuts[r] \in Seq(SourcePKs) /\ Cut(r, 0) = ranges[r].minPK
         /\ \A k \in 1 .. Len(cuts[r]) : Cut(r, k) = cuts[r][k] /\ Cut(r, k) \in SourcePKs
         /\ \A k \in 0 .. Len(cuts[r]) : Cut(r, k) \in Int64
<1>1. ranges[r] \in PKRangeRec
  BY DEF TypeOK, Readers
<1>2. ranges[r].minPK \in Int64 /\ ranges[r].maxPK \in Int64
  BY <1>1 DEF PKRangeRec
<1>3. cuts[r] \in Seq(SourcePKs)
  BY DEF TypeOK
<1>4. \A k \in 1 .. Len(cuts[r]) : Cut(r, k) = cuts[r][k] /\ cuts[r][k] \in SourcePKs
  BY <1>3 DEF Cut
<1>5. Cut(r, 0) = ranges[r].minPK
  BY DEF Cut
<1>6. \A k \in 0 .. Len(cuts[r]) : k = 0 \/ k \in 1 .. Len(cuts[r])
  BY <1>3
<1> QED BY <1>1, <1>2, <1>3, <1>4, <1>5, <1>6, KeysAreIntegers

\* The last key of a chunk that was read is a key.
LEMMA ChunkFacts ==
  ASSUME TypeOK, NEW c \in Chunks, ValidChunk(c)
  PROVE  /\ c.reader \in Readers /\ c.seq \in Nat /\ c.seq + 1 \in 1 .. Len(cuts[c.reader])
         /\ LastPK(c) \in SourcePKs /\ LastPK(c) \in Int64 /\ PrevPK(c) \in Int64
<1>1. c.reader \in Readers /\ c.seq \in Nat /\ cuts[c.reader] \in Seq(SourcePKs)
  BY DEF ValidChunk, Chunks, TypeOK
<1>2. c.seq + 1 \in 1 .. Len(cuts[c.reader])
  BY <1>1 DEF ValidChunk
<1>3. c.seq \in 0 .. Len(cuts[c.reader])
  BY <1>1, <1>2
<1> QED BY <1>1, <1>2, <1>3, RangeFacts, KeysAreIntegers DEF LastPK, PrevPK

\* What applying an acknowledgement does to the coordinator's states.
LEMMA ApplyAckFacts ==
  ASSUME NEW ack, ck \in [Readers -> CkState], ack.reader \in Readers, LastPK(ack) \in Int64
  PROVE  /\ ApplyAck(ack) \in [Readers -> CkState]
         /\ ApplyAck(ack)[ack.reader].lastPK = LastPK(ack)
         /\ ApplyAck(ack)[ack.reader].complete
              = (ck[ack.reader].complete \/ LastPK(ack) >= ranges[ack.reader].maxPK)
         /\ \A x \in Readers : ApplyAck(ack)[x].pending = ck[x].pending
         /\ \A x \in Readers \ {ack.reader} : ApplyAck(ack)[x] = ck[x]
<1>1. PICK done \in BOOLEAN : done = (LastPK(ack) >= ranges[ack.reader].maxPK)
  <2>1. (LastPK(ack) >= ranges[ack.reader].maxPK) \in BOOLEAN
    BY SMT
  <2> QED BY <2>1, Zenon
<1>2. PICK new : new = [ck[ack.reader] EXCEPT !.lastPK = LastPK(ack), !.complete = @ \/ done]
  OBVIOUS
<1>3. /\ new \in CkState /\ new.lastPK = LastPK(ack) /\ new.pending = ck[ack.reader].pending
      /\ new.complete = (ck[ack.reader].complete \/ done)
  <2>1. PICK old \in CkState : old = ck[ack.reader]
    OBVIOUS
  <2>2. old.complete \in BOOLEAN
    BY DEF CkState
  <2>3. PICK all \in BOOLEAN : all = (old.complete \/ done)
    BY <2>2
  <2>4. new = [old EXCEPT !.lastPK = LastPK(ack), !.complete = all]
    BY <1>2, <2>1, <2>3
  <2>5. new \in CkState /\ new.lastPK = LastPK(ack) /\ new.pending = old.pending /\ new.complete = all
    BY <2>4 DEF CkState
  <2> QED BY <2>1, <2>3, <2>5
<1>4. ApplyAck(ack) = [ck EXCEPT ![ack.reader] = new]
  BY <1>1, <1>2 DEF ApplyAck
<1> QED BY <1>1, <1>3, <1>4

\* One round of onAck, for a chunk that was read, keeps the types.
LEMMA OnAckRoundType ==
  ASSUME TypeInv, NEW ack \in Chunks, ValidChunk(ack), OnAckRound(ack),
         UNCHANGED <<ranges, cuts>>
  PROVE  /\ ck' \in [Readers -> CkState] /\ draining' \in Readers \cup {0}
         /\ completedChunks' \in Nat /\ saved' \in Checkpoint \cup {NoCheckpoint}
         /\ \A r \in Readers : ck'[r].pending \subseteq ck[r].pending
         /\ draining' # 0 => ck'[draining'].nextSeq \in ck'[draining'].pending
<1> DEFINE r == ack.reader
           applied == ApplyAck(ack)
<1>1. r \in Readers /\ ack.seq \in Nat /\ LastPK(ack) \in Int64
  BY ChunkFacts DEF TypeInv
<1>2. ck \in [Readers -> CkState]
  BY DEF TypeInv, TypeOK
<1>3. applied \in [Readers -> CkState]
  BY <1>1, <1>2, ApplyAckFacts
<1>4. ck' = [applied EXCEPT ![r].nextSeq = ack.seq + 1, ![r].pending = @ \ {ack.seq}]
  BY DEF OnAckRound
<1>5. \A x \in Readers : applied[x].pending = ck[x].pending
  BY <1>1, <1>2, ApplyAckFacts
<1> HIDE DEF applied
<1>5a. /\ ck'[r] = [applied[r] EXCEPT !.nextSeq = ack.seq + 1, !.pending = @ \ {ack.seq}]
       /\ \A x \in Readers \ {r} : ck'[x] = applied[x]
       /\ ck' = [x \in Readers |-> ck'[x]]
  BY <1>1, <1>3, <1>4
<1>5b. applied[r] \in CkState
  BY <1>1, <1>3
<1>5c. ck'[r].pending = applied[r].pending \ {ack.seq} /\ ck'[r].nextSeq = ack.seq + 1
  BY <1>5a, <1>5b DEF CkState
<1>6. ck' \in [Readers -> CkState]
  <2>1. ck'[r] \in CkState
    <3> DEFINE old == applied[r]
    <3>1. old \in CkState /\ ck'[r] = [old EXCEPT !.nextSeq = ack.seq + 1,
                                               !.pending = @ \ {ack.seq}]
      BY <1>5a, <1>5b
    <3> HIDE DEF old
    <3>2. old.pending \ {ack.seq} \in SUBSET Nat /\ ack.seq + 1 \in Nat
      BY <1>1, <3>1 DEF CkState
    <3> QED BY <3>1, <3>2 DEF CkState
  <2> QED BY <1>3, <1>5a, <2>1
<1>7. \A x \in Readers : ck'[x].pending = IF x = r THEN ck[x].pending \ {ack.seq} ELSE ck[x].pending
  BY <1>1, <1>5, <1>5a, <1>5c
<1>9. draining' = IF ack.seq + 1 \in ck[r].pending THEN r ELSE 0
  BY DEF OnAckRound
<1>10. draining' # 0 => ck'[draining'].nextSeq \in ck'[draining'].pending
  <2>1. ack.seq + 1 # ack.seq
    BY <1>1
  <2> QED BY <1>1, <1>5, <1>5c, <1>9, <2>1
<1>11. saved' \in Checkpoint \cup {NoCheckpoint}
  <2>1. SaveProgress(SafeCheckpoint(applied)) \/ saved' = saved
    BY DEF OnAckRound, applied
  <2> QED BY <1>1, <1>3, <2>1, SaveFacts DEF TypeInv, TypeOK
<1>12. completedChunks' \in Nat
  BY DEF OnAckRound, TypeInv, TypeOK
<1> QED BY <1>1, <1>6, <1>7, <1>9, <1>10, <1>11, <1>12

\* Every step keeps the types, and keeps every chunk under way one that was read.
LEMMA TypeStep == TypeInv /\ [Next]_vars => TypeInv'
<1> SUFFICES ASSUME TypeInv, [Next]_vars PROVE TypeInv'
  OBVIOUS
<1> USE DEF TypeInv, durable, execVars, readVars, consVars, ackVars, poolVars
<1>1. CASE Execute
  <2>1. PICK ckpt \in {saved} \cup (IF "load" \in Faults THEN {NoCheckpoint} ELSE {}) :
          /\ resumeRowsDone' = ResumeRows(ckpt)
          /\ target' = CleanTarget(ckpt) \/ target' = target
          /\ \/ pc' = "loop" /\ ResetAttempt(JobRanges(ckpt), "idle")
             \/ pc' = "ok" /\ ResetAttempt(<<>>, "exited")
    BY <1>1 DEF Execute
  <2>2. ckpt \in Checkpoint \cup {NoCheckpoint}
    BY DEF TypeOK
  <2>3. target' \subseteq SourcePKs /\ resumeRowsDone' \in Nat
    BY <2>1, <2>2 DEF CleanTarget, ResumeRows, Checkpoint, TypeOK
  <2>4. JobRanges(ckpt) \in Seq(PKRangeRec) /\ <<>> \in Seq(PKRangeRec)
    BY <2>2, JobRangesFacts
  <2>5. attempt' \in Nat /\ saved' = saved
    BY <1>1 DEF Execute, TypeOK
  <2>6. CASE pc' = "loop" /\ ResetAttempt(JobRanges(ckpt), "idle")
    BY <2>3, <2>4, <2>5, <2>6, ResetFacts DEF TypeOK, WorkerStates, Running
  <2>7. CASE pc' = "ok" /\ ResetAttempt(<<>>, "exited")
    BY <2>3, <2>4, <2>5, <2>7, ResetFacts DEF TypeOK, WorkerStates, Stopped
  <2> QED BY <2>1, <2>6, <2>7
<1>2. ASSUME NEW r \in Readers, ReadChunk(r)
      PROVE  TypeInv'
  <2>1. PICK last \in Remaining(r) : cuts' = [cuts EXCEPT ![r] = Append(@, last)]
    BY <1>2 DEF ReadChunk
  <2>2. last \in SourcePKs
    BY DEF Remaining, Scanned
  <2>3. Readers' = Readers
    BY <1>2 DEF ReadChunk, Readers
  <2>4. TypeOK'
    BY <1>2, <2>1, <2>2, <2>3 DEF ReadChunk, TypeOK
  <2>5. \A x \in Readers : Len(cuts'[x]) >= Len(cuts[x]) /\ Len(cuts'[x]) \in Nat
    BY <2>1, <2>2 DEF TypeOK
  <2>6. \A c \in Chunks : ValidChunk(c) => ValidChunk(c)'
    BY <2>3, <2>5 DEF ValidChunk, Chunks, TypeOK
  <2>7. cuts'[r] # <<>>
    <3>1. cuts \in [Readers -> Seq(SourcePKs)]
      BY DEF TypeOK
    <3>2. cuts'[r] = Append(cuts[r], last) /\ cuts[r] \in Seq(SourcePKs)
      BY <2>1, <3>1
    <3>3. Len(Append(cuts[r], last)) = Len(cuts[r]) + 1 /\ Len(cuts[r]) \in Nat
      BY <2>2, <3>2, AppendFacts
    <3>4. Len(cuts'[r]) # 0
      BY <3>2, <3>3
    <3> QED BY <3>4
  <2>8. \A x \in Readers : \A q \in ck[x].pending : q < Len(cuts[x]) => q < Len(cuts'[x])
    <3> SUFFICES ASSUME NEW x \in Readers, NEW q \in ck[x].pending, q < Len(cuts[x])
                 PROVE  q < Len(cuts'[x])
      OBVIOUS
    <3>1. q \in Nat /\ Len(cuts[x]) \in Nat
      BY DEF TypeOK, CkState
    <3> QED BY <2>5, <3>1
  <2>9. \A x \in Readers \ {r} : cuts'[x] = cuts[x]
    BY <2>1 DEF TypeOK
  <2>10. \A x \in Readers : reader'[x] = "send" => cuts'[x] # <<>>
    BY <1>2, <2>7, <2>9 DEF ReadChunk, RefsOK, TypeOK
  <2>11. /\ \A i \in 1 .. Len(chunkChan) : chunkChan[i] # NoChunk => ValidChunk(chunkChan[i])'
         /\ \A i \in 1 .. Len(jobChan) : ValidChunk(jobChan[i])'
         /\ \A i \in 1 .. Len(ackChan) : ValidChunk(ackChan[i])'
    BY <1>2, <2>6 DEF ReadChunk, RefsOK, TypeOK
  <2>12. /\ \A w \in Workers : worker[w].st \in {"write", "count", "ack"} => ValidChunk(worker[w].job)'
         /\ pc = "submit" => ValidChunk(inHand)'
    BY <1>2, <2>6 DEF ReadChunk, RefsOK, TypeOK
  <2>13. gotChunk' => \E x \in Readers : cuts'[x] # <<>>
    BY <2>7
  <2>14. RefsOK'
    BY <1>2, <2>3, <2>8, <2>10, <2>11, <2>12, <2>13 DEF ReadChunk, RefsOK
  <2> QED BY <2>4, <2>14
<1>3. ASSUME UNCHANGED <<ranges, cuts>>
      PROVE  Readers' = Readers /\ \A c : ValidChunk(c)' <=> ValidChunk(c)
  BY <1>3 DEF Readers, ValidChunk
<1>4. ASSUME NEW r \in Readers, ReadNothing(r) \/ ReadFails(r)
      PROVE  TypeInv'
  <2>1. UNCHANGED <<ranges, cuts>> /\ Readers' = Readers
    BY <1>3, <1>4 DEF ReadNothing, ReadFails
  <2>2. TypeOK'
    BY <1>4, <2>1 DEF ReadNothing, ReadFails, TypeOK
  <2>3. \A x \in Readers : reader'[x] = "send" => reader[x] = "send"
    BY <1>4 DEF ReadNothing, ReadFails, TypeOK
  <2>4. RefsOK'
    BY <1>3, <1>4, <2>1, <2>3 DEF ReadNothing, ReadFails, RefsOK
  <2> QED BY <2>2, <2>4
<1>5. ASSUME NEW r \in Readers, SendChunk(r) \/ SendError(r)
      PROVE  TypeInv'
  <2>1. UNCHANGED <<ranges, cuts>> /\ Readers' = Readers
    BY <1>3, <1>5 DEF SendChunk, SendError
  <2>2. PICK c \in Chunks : chunkChan' = Append(chunkChan, c) /\ (c # NoChunk => ValidChunk(c))
    <3>1. CASE SendError(r)
      BY <3>1 DEF SendError, NoChunk, Chunks
    <3>2. CASE SendChunk(r)
      <4>1. cuts[r] # <<>> /\ cuts[r] \in Seq(SourcePKs)
        BY <3>2 DEF SendChunk, RefsOK, TypeOK
      <4>2. Len(cuts[r]) - 1 \in Nat /\ r \in Nat
        BY <4>1 DEF Readers
      <4> QED BY <3>2, <4>2 DEF SendChunk, Chunks, ValidChunk
    <3> QED BY <1>5, <3>1, <3>2
  <2>3. chunkChan' \in Seq(Chunks)
    BY <2>2, AppendFacts DEF TypeOK
  <2>4. reader' \in [Readers -> {"read", "send", "fail", "done"}]
    BY <1>5 DEF SendChunk, SendError, TypeOK
  <2>5. TypeOK'
    BY <1>5, <2>1, <2>3, <2>4 DEF SendChunk, SendError, TypeOK
  <2>6. \A i \in 1 .. Len(chunkChan') : chunkChan'[i] # NoChunk => ValidChunk(chunkChan'[i])
    BY <2>2, AppendFacts DEF TypeOK, RefsOK
  <2>7. \A x \in Readers : reader'[x] = "send" => reader[x] = "send"
    BY <1>5 DEF SendChunk, SendError, TypeOK
  <2>8. RefsOK'
    BY <1>3, <1>5, <2>1, <2>6, <2>7 DEF SendChunk, SendError, RefsOK
  <2> QED BY <2>5, <2>8
<1>6. CASE ReceiveChunk \/ ReceiveError
  <2>1. UNCHANGED <<ranges, cuts>> /\ Readers' = Readers
    BY <1>3, <1>6 DEF ReceiveChunk, ReceiveError
  <2>2. chunkChan # <<>> /\ chunkChan' = Tail(chunkChan) /\ chunkChan \in Seq(Chunks)
    BY <1>6 DEF ReceiveChunk, ReceiveError, TypeOK
  <2>2a. chunkChan' \in Seq(Chunks) /\ Head(chunkChan) \in Chunks
    BY <2>2, TailFacts
  <2>3. TypeOK'
    <3>1. CASE ReceiveChunk
      BY <2>1, <2>2a, <3>1 DEF ReceiveChunk, TypeOK, Running
    <3>2. CASE ReceiveError
      BY <2>1, <2>2a, <3>2 DEF ReceiveError, TypeOK, Running
    <3> QED BY <1>6, <3>1, <3>2
  <2>4. \A i \in 1 .. Len(chunkChan') : chunkChan'[i] # NoChunk => ValidChunk(chunkChan'[i])
    BY <2>2, TailFacts DEF RefsOK
  <2>5. Head(chunkChan) # NoChunk => ValidChunk(Head(chunkChan))
    BY <2>2, TailFacts DEF RefsOK
  <2>6. ReceiveChunk => \E x \in Readers : cuts[x] # <<>>
    <3> SUFFICES ASSUME ReceiveChunk PROVE cuts[Head(chunkChan).reader] # <<>> /\ Head(chunkChan).reader \in Readers
      OBVIOUS
    <3>1. ValidChunk(Head(chunkChan)) /\ Head(chunkChan) \in Chunks
      BY <2>2, <2>5, TailFacts DEF ReceiveChunk
    <3> QED BY <3>1, ChunkFacts
  <2>7. RefsOK'
    BY <1>3, <1>6, <2>1, <2>4, <2>5, <2>6 DEF ReceiveChunk, ReceiveError, RefsOK
  <2> QED BY <2>3, <2>7
<1>7. CASE ChunksClosed \/ SubmitCancelled \/ Fail
  <2>1. UNCHANGED <<ranges, cuts>> /\ Readers' = Readers
    BY <1>3, <1>7 DEF ChunksClosed, SubmitCancelled, Fail
  <2>2. TypeOK'
    <3>1. NoChunk \in Chunks /\ {"wait", "failed"} \subseteq Running \cup Stopped
      BY DEF Running, Stopped, NoChunk, Chunks
    <3>2. CASE ChunksClosed
      BY <2>1, <3>1, <3>2 DEF ChunksClosed, TypeOK
    <3>3. CASE SubmitCancelled
      BY <2>1, <3>1, <3>3 DEF SubmitCancelled, TypeOK
    <3>4. CASE Fail
      BY <2>1, <3>1, <3>4 DEF Fail, TypeOK
    <3> QED BY <1>7, <3>2, <3>3, <3>4
  <2>3. RefsOK'
    BY <1>3, <1>7, <2>1 DEF ChunksClosed, SubmitCancelled, Fail, RefsOK
  <2> QED BY <2>2, <2>3
<1>8. CASE Submit
  <2>1. UNCHANGED <<ranges, cuts>> /\ Readers' = Readers
    BY <1>3, <1>8 DEF Submit
  <2>2. inHand \in Chunks /\ jobChan \in Seq(Chunks) /\ ValidChunk(inHand) /\ NoChunk \in Chunks
    BY <1>8 DEF Submit, TypeOK, RefsOK, NoChunk, Chunks
  <2>3. jobChan' = Append(jobChan, inHand)
    BY <1>8 DEF Submit
  <2>4. TypeOK'
    BY <1>8, <2>1, <2>2, <2>3, AppendFacts DEF Submit, TypeOK, Running
  <2>5. \A i \in 1 .. Len(jobChan') : ValidChunk(jobChan'[i])
    BY <2>2, <2>3, AppendFacts DEF RefsOK
  <2>6. RefsOK'
    BY <1>3, <1>8, <2>1, <2>5 DEF Submit, RefsOK
  <2> QED BY <2>4, <2>6
<1>9. CASE Succeed
  <2>1. UNCHANGED <<ranges, cuts>> /\ Readers' = Readers
    BY <1>3, <1>9 DEF Succeed
  <2>2. saved' \in Checkpoint \cup {NoCheckpoint}
    <3>1. CASE ~gotChunk
      BY <1>9, <3>1 DEF Succeed, TypeOK
    <3>2. CASE gotChunk
      BY <1>9, <3>2, SaveFacts DEF Succeed, TypeOK, RefsOK
    <3> QED BY <3>1, <3>2 DEF TypeOK
  <2>3. TypeOK'
    BY <1>9, <2>1, <2>2 DEF Succeed, TypeOK, Running, Stopped
  <2>4. RefsOK'
    BY <1>3, <1>9, <2>1 DEF Succeed, RefsOK
  <2> QED BY <2>3, <2>4
<1>10. ASSUME NEW w \in Workers, WorkerStep(w)
       PROVE  TypeInv'
  <2>1. UNCHANGED <<ranges, cuts>> /\ Readers' = Readers
    BY <1>3, <1>10 DEF WorkerStep, TakeJob, DropJob, JobsClosed, Write, WriteFails, CountRows,
                       SendAck, SkipAck, AckCancelled
  <2>2. NoChunk \in Chunks /\ worker[w].job \in Chunks
    BY DEF NoChunk, Chunks, TypeOK
  <2>3. ASSUME NEW st \in WorkerStates, NEW job \in Chunks, SetWorker(w, st, job),
               st \in {"write", "count", "ack"} => ValidChunk(job)
        PROVE  /\ worker' \in [Workers -> [st : WorkerStates, job : Chunks]]
               /\ \A x \in Workers : worker'[x].st \in {"write", "count", "ack"} => ValidChunk(worker'[x].job)
    BY <2>3 DEF SetWorker, TypeOK, RefsOK
  <2>4. jobChan # <<>> => /\ Tail(jobChan) \in Seq(Chunks) /\ Head(jobChan) \in Chunks
                          /\ ValidChunk(Head(jobChan))
                          /\ \A i \in 1 .. Len(Tail(jobChan)) : ValidChunk(Tail(jobChan)[i])
    <3>1. jobChan \in Seq(Chunks) /\ \A i \in 1 .. Len(jobChan) : ValidChunk(jobChan[i])
      BY DEF TypeOK, RefsOK
    <3> QED BY <3>1, TailFacts
  <2>5. CASE TakeJob(w)
    <3>1. /\ worker' \in [Workers -> [st : WorkerStates, job : Chunks]]
          /\ \A x \in Workers : worker'[x].st \in {"write", "count", "ack"} => ValidChunk(worker'[x].job)
      BY <2>3, <2>4, <2>5 DEF TakeJob, WorkerStates
    <3>2. TypeOK'
      BY <2>1, <2>4, <2>5, <3>1 DEF TakeJob, TypeOK
    <3>3. RefsOK'
      BY <1>3, <2>1, <2>4, <2>5, <3>1 DEF TakeJob, RefsOK
    <3> QED BY <3>2, <3>3
  <2>6. CASE DropJob(w)
    <3>1. /\ worker' \in [Workers -> [st : WorkerStates, job : Chunks]]
          /\ \A x \in Workers : worker'[x].st \in {"write", "count", "ack"} => ValidChunk(worker'[x].job)
      BY <2>2, <2>3, <2>6 DEF DropJob, WorkerStates
    <3>2. TypeOK'
      BY <2>1, <2>4, <2>6, <3>1 DEF DropJob, TypeOK
    <3>3. RefsOK'
      BY <1>3, <2>1, <2>4, <2>6, <3>1 DEF DropJob, RefsOK
    <3> QED BY <3>2, <3>3
  <2>7. CASE JobsClosed(w) \/ SkipAck(w) \/ AckCancelled(w)
    <3>1. /\ worker' \in [Workers -> [st : WorkerStates, job : Chunks]]
          /\ \A x \in Workers : worker'[x].st \in {"write", "count", "ack"} => ValidChunk(worker'[x].job)
      BY <2>2, <2>3, <2>7 DEF JobsClosed, SkipAck, AckCancelled, WorkerStates
    <3>2. TypeOK'
      BY <2>1, <2>7, <3>1 DEF JobsClosed, SkipAck, AckCancelled, TypeOK
    <3>3. RefsOK'
      BY <1>3, <2>1, <2>7, <3>1 DEF JobsClosed, SkipAck, AckCancelled, RefsOK
    <3> QED BY <3>2, <3>3
  <2>8. CASE Write(w)
    <3>1. ValidChunk(worker[w].job)
      BY <2>8 DEF Write, RefsOK
    <3>2. /\ worker' \in [Workers -> [st : WorkerStates, job : Chunks]]
          /\ \A x \in Workers : worker'[x].st \in {"write", "count", "ack"} => ValidChunk(worker'[x].job)
      BY <2>2, <2>3, <2>8, <3>1 DEF Write, WorkerStates
    <3>3. Rows(worker[w].job) \subseteq SourcePKs
      BY DEF Rows
    <3>4. target' \subseteq SourcePKs
      BY <2>8, <3>3 DEF Write, TypeOK
    <3>5. TypeOK'
      BY <2>1, <2>8, <3>2, <3>4 DEF Write, TypeOK
    <3>6. RefsOK'
      BY <1>3, <2>1, <2>8, <3>2 DEF Write, RefsOK
    <3> QED BY <3>5, <3>6
  <2>9. CASE WriteFails(w)
    <3>1. /\ worker' \in [Workers -> [st : WorkerStates, job : Chunks]]
          /\ \A x \in Workers : worker'[x].st \in {"write", "count", "ack"} => ValidChunk(worker'[x].job)
      BY <2>2, <2>3, <2>9 DEF WriteFails, WorkerStates
    <3>2. target' \subseteq SourcePKs
      BY <2>9 DEF WriteFails, Torn, Rows, TypeOK
    <3>3. TypeOK'
      BY <2>1, <2>9, <3>1, <3>2 DEF WriteFails, TypeOK
    <3>4. RefsOK'
      BY <1>3, <2>1, <2>9, <3>1 DEF WriteFails, RefsOK
    <3> QED BY <3>3, <3>4
  <2>10. CASE SendAck(w)
    <3>1. ValidChunk(worker[w].job) /\ ackChan' = Append(ackChan, worker[w].job)
      BY <2>10 DEF SendAck, RefsOK
    <3>2. /\ worker' \in [Workers -> [st : WorkerStates, job : Chunks]]
          /\ \A x \in Workers : worker'[x].st \in {"write", "count", "ack"} => ValidChunk(worker'[x].job)
      BY <2>2, <2>3, <2>10 DEF SendAck, WorkerStates
    <3>3. ackChan' \in Seq(Chunks) /\ \A i \in 1 .. Len(ackChan') : ValidChunk(ackChan'[i])
      BY <2>2, <3>1, AppendFacts DEF TypeOK, RefsOK
    <3>4. TypeOK'
      BY <2>1, <2>10, <3>2, <3>3 DEF SendAck, TypeOK
    <3>5. RefsOK'
      BY <1>3, <2>1, <2>10, <3>2, <3>3 DEF SendAck, RefsOK
    <3> QED BY <3>4, <3>5
  <2>11. CASE CountRows(w)
    <3>1. ValidChunk(worker[w].job)
      BY <2>11 DEF CountRows, RefsOK
    <3>2. /\ worker' \in [Workers -> [st : WorkerStates, job : Chunks]]
          /\ \A x \in Workers : worker'[x].st \in {"write", "count", "ack"} => ValidChunk(worker'[x].job)
      BY <2>2, <2>3, <2>11, <3>1 DEF CountRows, WorkerStates
    <3>3. Cardinality(Rows(worker[w].job)) \in Nat
      BY RowsFinite DEF Rows
    <3>4. totalWritten' \in Nat
      BY <2>11, <3>3 DEF CountRows, TypeOK
    <3>5. TypeOK'
      BY <2>1, <2>11, <3>2, <3>4 DEF CountRows, TypeOK
    <3>6. RefsOK'
      BY <1>3, <2>1, <2>11, <3>2 DEF CountRows, RefsOK
    <3> QED BY <3>5, <3>6
  <2> QED BY <1>10, <2>5, <2>6, <2>7, <2>8, <2>9, <2>10, <2>11 DEF WorkerStep
<1>11. CASE ReceiveAck
  <2>1. UNCHANGED <<ranges, cuts>> /\ Readers' = Readers
    BY <1>3, <1>11 DEF ReceiveAck
  <2>2. ackChan # <<>> /\ ackChan' = Tail(ackChan) /\ ackChan \in Seq(Chunks)
    BY <1>11 DEF ReceiveAck, TypeOK
  <2> DEFINE ack == Head(ackChan)
  <2>3. ack \in Chunks /\ ValidChunk(ack) /\ ackChan' \in Seq(Chunks)
    BY <2>2, TailFacts DEF RefsOK
  <2>4. \A i \in 1 .. Len(ackChan') : ValidChunk(ackChan'[i])
    BY <2>2, TailFacts DEF RefsOK
  <2>5. /\ ck' \in [Readers -> CkState] /\ draining' \in Readers \cup {0}
        /\ completedChunks' \in Nat /\ saved' \in Checkpoint \cup {NoCheckpoint}
        /\ \A r \in Readers : \A q \in ck'[r].pending : q < Len(cuts[r])
        /\ draining' # 0 => ck'[draining'].nextSeq \in ck'[draining'].pending
    <3>1. CASE OnAckRound(ack)
      BY <2>1, <2>3, <3>1, OnAckRoundType DEF RefsOK
    <3>2. CASE OnEarlyAck(ack)
      <4>1. ack.reader \in Readers /\ ack.seq \in Nat /\ ack.seq < Len(cuts[ack.reader])
        BY <2>3, ChunkFacts DEF ValidChunk
      <4>2. ck' = [ck EXCEPT ![ack.reader].pending = @ \cup {ack.seq}] /\ ck \in [Readers -> CkState]
        BY <3>2 DEF OnEarlyAck, TypeOK
      <4>3. ck' \in [Readers -> CkState]
        BY <4>1, <4>2 DEF CkState
      <4>4. \A r \in Readers : ck'[r].pending \subseteq ck[r].pending \cup
                                  (IF r = ack.reader THEN {ack.seq} ELSE {})
        BY <4>1, <4>2 DEF CkState
      <4>5. draining' = 0
        BY <1>11, <3>2 DEF OnEarlyAck, ReceiveAck
      <4>6. \A r \in Readers : \A q \in ck'[r].pending : q < Len(cuts[r])
        BY <4>1, <4>4 DEF RefsOK
      <4> QED BY <3>2, <4>3, <4>5, <4>6 DEF OnEarlyAck, TypeOK
    <3> QED BY <1>11, <3>1, <3>2 DEF ReceiveAck
  <2>6. TypeOK'
    BY <1>11, <2>1, <2>3, <2>5 DEF ReceiveAck, TypeOK
  <2>7. RefsOK'
    BY <1>3, <1>11, <2>1, <2>4, <2>5 DEF ReceiveAck, RefsOK
  <2> QED BY <2>6, <2>7
<1>12. CASE DrainPending
  <2>1. UNCHANGED <<ranges, cuts>> /\ Readers' = Readers
    BY <1>3, <1>12 DEF DrainPending
  <2> DEFINE ack == [reader |-> draining, seq |-> ck[draining].nextSeq]
  <2>2. draining \in Readers /\ ck[draining].nextSeq \in Nat
    BY <1>12 DEF DrainPending, TypeOK, CkState
  <2>3. ack \in Chunks /\ ValidChunk(ack)
    BY <1>12, <2>2 DEF DrainPending, RefsOK, Chunks, ValidChunk, Readers
  <2>4. OnAckRound(ack)
    BY <1>12 DEF DrainPending
  <2> HIDE DEF ack
  <2>5. /\ ck' \in [Readers -> CkState] /\ draining' \in Readers \cup {0}
        /\ completedChunks' \in Nat /\ saved' \in Checkpoint \cup {NoCheckpoint}
        /\ \A r \in Readers : \A q \in ck'[r].pending : q < Len(cuts[r])
        /\ draining' # 0 => ck'[draining'].nextSeq \in ck'[draining'].pending
    BY <2>1, <2>3, <2>4, OnAckRoundType DEF RefsOK
  <2>6. TypeOK'
    BY <1>12, <2>1, <2>5 DEF DrainPending, TypeOK
  <2>7. RefsOK'
    BY <1>3, <1>12, <2>1, <2>5 DEF DrainPending, RefsOK
  <2> QED BY <2>6, <2>7
<1>13. CASE Cancel
  <2>1. TypeOK'
    BY <1>13 DEF Cancel, TypeOK, Readers
  <2>2. RefsOK'
    BY <1>3, <1>13 DEF Cancel, RefsOK
  <2> QED BY <2>1, <2>2
<1>14. CASE Crash
  <2>1. target' \subseteq SourcePKs
    BY <1>14 DEF Crash, Torn, Rows, TypeOK
  <2>2. <<>> \in Seq(PKRangeRec) /\ ResetAttempt(<<>>, "exited") /\ pc' = "crashed"
    BY <1>14 DEF Crash
  <2> QED BY <1>14, <2>1, <2>2, ResetFacts DEF Crash, TypeOK, WorkerStates, Stopped
<1>15. CASE UNCHANGED vars
  <2>1. TypeOK'
    BY <1>15 DEF vars, TypeOK, Readers
  <2>2. RefsOK'
    BY <1>3, <1>15 DEF vars, RefsOK
  <2> QED BY <2>1, <2>2
<1> QED BY <1>1, <1>2, <1>4, <1>5, <1>6, <1>7, <1>8, <1>9, <1>10, <1>11, <1>12, <1>13, <1>14, <1>15
        DEF Next, ReaderStep, ConsumerStep, AckStep, Terminated

\* Every state that is reached has the types that KeysetTransfer declares.
THEOREM TypeCorrect == Spec => []TypeOK
<1>1. Spec => []TypeInv
  BY TypeInit, TypeStep, PTL DEF Spec
<1>2. TypeInv => TypeOK
  BY DEF TypeInv
<1> QED BY <1>1, <1>2, PTL

-----------------------------------------------------------------------------
(***************************************************************************)
(* The checkpoint never claims a row that is not in the target.            *)
(***************************************************************************)

\* A row up to the coordinator's key lies before the first range, or was read by a
\* reader before its own key, once some chunk has been read.
LEMMA SafeKeyCovered ==
  ASSUME TypeOK, RangesAdjacent, CutsOrdered, NEW x \in Readers, cuts[x] # <<>>,
         NEW c \in [Readers -> CkState],
         \A r \in Readers : c[r].complete => c[r].lastPK >= ranges[r].maxPK,
         NEW p \in JobRows, p <= SafeCheckpoint(c)
  PROVE  /\ ranges # <<>> /\ ~(Len(ranges) = 1 /\ ranges[1].minPK >= ranges[1].maxPK)
         /\ p <= ranges[1].minPK \/ \E r \in Readers : ranges[r].minPK < p /\ p <= c[r].lastPK
<1> DEFINE i == SafeReader(Len(ranges), c)
           T == {j \in 1 .. i : p <= c[j].lastPK}
<1>1. /\ i \in Readers /\ \A j \in 1 .. i - 1 : c[j].complete
      /\ Len(ranges) \in Nat \ {0} /\ Readers = 1 .. Len(ranges)
  BY ReadersFacts, SafeReaderFacts DEF TypeOK
<1>2. ranges # <<>>
  BY <1>1 DEF TypeOK
<1>3. p \in Int /\ \A r \in Readers : /\ c[r].lastPK \in Int
                                      /\ ranges[r].minPK \in Int /\ ranges[r].maxPK \in Int
  BY KeysAreIntegers, RangeFacts DEF CkState
<1>4. ~(Len(ranges) = 1 /\ ranges[1].minPK >= ranges[1].maxPK)
  <2> SUFFICES ASSUME Len(ranges) = 1, ranges[1].minPK >= ranges[1].maxPK
               PROVE  FALSE
    OBVIOUS
  <2>1. x = 1 /\ 1 \in 1 .. Len(cuts[x]) /\ cuts[x] \in Seq(SourcePKs)
    BY <1>1 DEF TypeOK
  <2>2. Cut(1, 0) < Cut(1, 1) /\ Cut(1, 1) <= ranges[1].maxPK
    BY <2>1 DEF CutsOrdered
  <2>3. Cut(1, 0) = ranges[1].minPK /\ Cut(1, 1) \in Int
    BY <2>1, RangeFacts, KeysAreIntegers
  <2> QED BY <1>1, <1>3, <2>2, <2>3
<1>5. T \subseteq Nat /\ i \in T
  BY <1>1 DEF SafeCheckpoint
<1> HIDE DEF T
<1>6. PICK m \in T : \A j \in T : m <= j
  BY <1>5, LeastNat
<1>7. m \in Readers /\ p <= c[m].lastPK /\ m \in 1 .. i
  BY <1>1, <1>6 DEF T
<1>8. CASE m = 1
  BY <1>2, <1>3, <1>4, <1>7, <1>8
<1>9. CASE m # 1
  <2>1. m - 1 \in 1 .. i - 1 /\ m - 1 \in Readers /\ m - 1 \in 1 .. Len(ranges) - 1
    BY <1>1, <1>7, <1>9
  <2>2. m - 1 \in 1 .. i /\ m - 1 \notin T
    BY <1>1, <1>5, <1>6, <2>1
  <2>3. p > c[m - 1].lastPK
    BY <1>3, <2>1, <2>2 DEF T
  <2>4. c[m - 1].lastPK >= ranges[m - 1].maxPK
    BY <1>1, <2>1
  <2>5. ranges[(m - 1) + 1].minPK = ranges[m - 1].maxPK
    BY <1>2, <2>1 DEF RangesAdjacent
  <2>6. ranges[m].minPK < p
    BY <1>3, <1>7, <2>1, <2>3, <2>4, <2>5
  <2> QED BY <1>2, <1>4, <1>7, <2>6
<1> QED BY <1>8, <1>9

\* The coordinator's key is safe: every reader before its own has finished its
\* range, the ranges leave no gap, and what a reader's prefix covers is written.
LEMMA SafeKey ==
  ASSUME TypeOK, BaseWritten, CutsOrdered, NEW x \in Readers, cuts[x] # <<>>,
         NEW c \in [Readers -> CkState],
         \A r \in Readers : c[r].complete => c[r].lastPK >= ranges[r].maxPK,
         \A r \in Readers : \A p \in JobRows :
           ranges[r].minPK < p /\ p <= c[r].lastPK => p \in target,
         NEW p \in JobRows, p <= SafeCheckpoint(c)
  PROVE  p \in target
<1>1. RangesAdjacent
  BY DEF RangesAdjacent, BaseWritten
<1>2. /\ ranges # <<>> /\ ~(Len(ranges) = 1 /\ ranges[1].minPK >= ranges[1].maxPK)
      /\ p <= ranges[1].minPK \/ \E r \in Readers : ranges[r].minPK < p /\ p <= c[r].lastPK
  BY <1>1, SafeKeyCovered
<1> QED BY <1>2 DEF BaseWritten

\* Saving such a key keeps the checkpoint safe.
LEMMA SaveSafe ==
  ASSUME TypeOK, BaseWritten, CutsOrdered, CheckpointSafe,
         NEW x \in Readers, cuts[x] # <<>>, NEW c \in [Readers -> CkState],
         \A r \in Readers : c[r].complete => c[r].lastPK >= ranges[r].maxPK,
         \A r \in Readers : \A p \in JobRows :
           ranges[r].minPK < p /\ p <= c[r].lastPK => p \in target,
         SaveProgress(SafeCheckpoint(c)), target' = target
  PROVE  CheckpointSafe'
<1>1. CASE saved' = saved
  BY <1>1 DEF CheckpointSafe, JobRows
<1>2. CASE saved' = [lastPK |-> SafeCheckpoint(c), rowsDone |-> resumeRowsDone + totalWritten]
  <2>1. \A p \in JobRows : p <= SafeCheckpoint(c) => p \in target
    BY SafeKey
  <2> QED BY <1>2, <2>1 DEF CheckpointSafe, JobRows
<1> QED BY <1>1, <1>2 DEF SaveProgress

\* One round of onAck, for the chunk that its reader is due, which is written.
LEMMA OnAckRoundSafe ==
  ASSUME SafeInv, NEW ack \in Chunks, ValidChunk(ack), Written(ack),
         ack.seq = ck[ack.reader].nextSeq, OnAckRound(ack),
         UNCHANGED <<ranges, cuts, target>>
  PROVE  PrefixWritten' /\ CheckpointSafe'
<1> DEFINE r == ack.reader
           applied == ApplyAck(ack)
<1> USE DEF SafeInv
<1>1. /\ r \in Readers /\ ack.seq \in Nat /\ ack.seq + 1 \in 1 .. Len(cuts[r])
      /\ LastPK(ack) \in Int /\ PrevPK(ack) \in Int /\ LastPK(ack) \in Int64
  BY ChunkFacts, KeysAreIntegers
<1>2. ck \in [Readers -> CkState] /\ Readers' = Readers
  BY DEF TypeOK, Readers
<1>3. PrevPK(ack) = ck[r].lastPK /\ PrevPK(ack) < LastPK(ack)
  <2>1. Cut(r, (ack.seq + 1) - 1) < Cut(r, ack.seq + 1)
    BY <1>1 DEF CutsOrdered
  <2>2. (ack.seq + 1) - 1 = ack.seq
    BY <1>1
  <2> QED BY <1>1, <2>1, <2>2 DEF PrefixWritten, PrevPK, LastPK
<1>4. /\ applied \in [Readers -> CkState]
      /\ applied[r].lastPK = LastPK(ack)
      /\ applied[r].complete = (ck[r].complete \/ LastPK(ack) >= ranges[r].maxPK)
      /\ \A x \in Readers \ {r} : applied[x] = ck[x]
  BY <1>1, <1>2, ApplyAckFacts
<1> HIDE DEF applied
<1>5. ranges[r].maxPK \in Int /\ ranges[r].minPK \in Int
  BY <1>1, RangeFacts, KeysAreIntegers
<1>6. \A x \in Readers : applied[x].complete => applied[x].lastPK >= ranges[x].maxPK
  <2>1. ck[r].complete => LastPK(ack) >= ranges[r].maxPK
    BY <1>1, <1>3, <1>5 DEF PrefixWritten
  <2>2. applied[r].complete => applied[r].lastPK >= ranges[r].maxPK
    BY <1>4, <2>1
  <2> QED BY <1>4, <2>2 DEF PrefixWritten
<1>7. \A x \in Readers : \A p \in JobRows :
        ranges[x].minPK < p /\ p <= applied[x].lastPK => p \in target
  <2>1. ASSUME NEW p \in JobRows, ranges[r].minPK < p, p <= LastPK(ack)
        PROVE  p \in target
    <3>1. p \in Int /\ p \in SourcePKs
      BY KeysAreIntegers
    <3>2. CASE p <= PrevPK(ack)
      BY <1>1, <1>3, <2>1, <3>2 DEF PrefixWritten
    <3>3. CASE PrevPK(ack) < p
      BY <2>1, <3>1, <3>3 DEF Written, Rows
    <3> QED BY <1>1, <3>1, <3>2, <3>3
  <2> QED BY <1>4, <2>1 DEF PrefixWritten
<1>8. CheckpointSafe'
  <2>1. cuts[r] # <<>>
    BY <1>1
  <2>2. SaveProgress(SafeCheckpoint(applied)) \/ saved' = saved
    BY DEF OnAckRound, applied
  <2>3. CASE SaveProgress(SafeCheckpoint(applied))
    BY <1>1, <1>4, <1>6, <1>7, <2>1, <2>3, SaveSafe
  <2>4. CASE saved' = saved
    BY <2>4 DEF CheckpointSafe, JobRows
  <2> QED BY <2>2, <2>3, <2>4
<1>9. ck' = [applied EXCEPT ![r].nextSeq = ack.seq + 1, ![r].pending = @ \ {ack.seq}]
  BY DEF OnAckRound, applied
<1>10. /\ ck'[r] = [applied[r] EXCEPT !.nextSeq = ack.seq + 1, !.pending = @ \ {ack.seq}]
       /\ \A x \in Readers \ {r} : ck'[x] = ck[x]
  BY <1>1, <1>4, <1>9
<1>11. applied[r] \in CkState
  BY <1>1, <1>4
<1>12. /\ ck'[r].nextSeq = ack.seq + 1 /\ ck'[r].lastPK = applied[r].lastPK
       /\ ck'[r].complete = applied[r].complete
  BY <1>10, <1>11 DEF CkState
<1>13. \A x \in Readers :
         /\ ck'[x].lastPK = applied[x].lastPK /\ ck'[x].complete = applied[x].complete
         /\ ck'[x].nextSeq = IF x = r THEN ack.seq + 1 ELSE ck[x].nextSeq
  BY <1>4, <1>10, <1>12
<1>14. \A x \in Readers : /\ ck'[x].nextSeq <= Len(cuts[x])
                          /\ ck'[x].lastPK = Cut(x, ck'[x].nextSeq)
  <2>1. ASSUME NEW x \in Readers, x = r
        PROVE  ck'[x].nextSeq <= Len(cuts[x]) /\ ck'[x].lastPK = Cut(x, ck'[x].nextSeq)
    BY <1>1, <1>4, <1>13, <2>1 DEF LastPK
  <2>2. ASSUME NEW x \in Readers, x # r
        PROVE  ck'[x].nextSeq <= Len(cuts[x]) /\ ck'[x].lastPK = Cut(x, ck'[x].nextSeq)
    BY <1>4, <1>13, <2>2 DEF PrefixWritten
  <2> QED BY <2>1, <2>2
<1>15. \A x \in Readers : \A k : Cut(x, k)' = Cut(x, k)
  BY DEF Cut
<1>16. PrefixWritten'
  BY <1>2, <1>6, <1>7, <1>13, <1>14, <1>15 DEF PrefixWritten, JobRows
<1> QED BY <1>8, <1>16

\* What is written stays written while the chunks stay and the target grows.
LEMMA SafeStable ==
  ASSUME SafeInv, UNCHANGED <<ranges, cuts>>, target \subseteq target'
  PROVE  /\ Readers' = Readers /\ CutsOrdered' /\ BaseWritten'
         /\ \A c : Written(c) => Written(c)'
         /\ ck' = ck => PrefixWritten'
         /\ saved' = saved => CheckpointSafe'
<1>1. Readers' = Readers /\ JobRows' = JobRows
  BY DEF Readers, JobRows
<1>2. \A x, k : Cut(x, k)' = Cut(x, k)
  BY DEF Cut
<1>3. CutsOrdered'
  BY <1>1, <1>2 DEF SafeInv, CutsOrdered
<1>4. BaseWritten'
  BY <1>1 DEF SafeInv, BaseWritten
<1>5. \A c : Rows(c)' = Rows(c)
  BY <1>2 DEF Rows, PrevPK, LastPK
<1>6. \A c : Written(c) => Written(c)'
  BY <1>5 DEF Written
<1>7. ck' = ck => PrefixWritten'
  BY <1>1, <1>2 DEF SafeInv, PrefixWritten
<1>8. saved' = saved => CheckpointSafe'
  BY <1>1 DEF SafeInv, CheckpointSafe
<1> QED BY <1>1, <1>3, <1>4, <1>6, <1>7, <1>8

LEMMA AcksStable ==
  ASSUME UNCHANGED <<ranges, cuts>>,
         \A w \in Workers : worker'[w].st \in {"count", "ack"} => Rows(worker'[w].job) \subseteq target',
         \A i \in 1 .. Len(ackChan') : Rows(ackChan'[i]) \subseteq target',
         \A r \in Readers : \A q \in ck'[r].pending :
           Rows([reader |-> r, seq |-> q]) \subseteq target'
  PROVE  AcksWritten'
<1>1. Readers' = Readers /\ \A c : Rows(c)' = Rows(c)
  <2>1. \A x, k : Cut(x, k)' = Cut(x, k)
    BY DEF Cut
  <2> QED BY <2>1 DEF Readers, Rows, PrevPK, LastPK
<1> QED BY <1>1 DEF AcksWritten, Written

\* A new attempt has acknowledged nothing.
LEMMA SafeReset ==
  ASSUME NEW rs \in Seq(PKRangeRec), NEW st, st \notin {"count", "ack"}, ResetAttempt(rs, st)
  PROVE  AcksWritten' /\ CutsOrdered' /\ PrefixWritten'
<1>1. Readers' = 1 .. Len(rs) /\ ranges' = rs
  BY DEF ResetAttempt, Readers
<1>2. \A r \in 1 .. Len(rs) : rs[r].minPK \in Int
  <2>1. \A r \in 1 .. Len(rs) : rs[r] \in PKRangeRec
    OBVIOUS
  <2> QED BY <2>1, KeysAreIntegers DEF PKRangeRec
<1>3. \A r \in 1 .. Len(rs) :
        /\ ck'[r].pending = {} /\ ck'[r].nextSeq = 0 /\ ck'[r].lastPK = rs[r].minPK
        /\ ck'[r].complete = (rs[r].minPK >= rs[r].maxPK)
        /\ cuts'[r] = <<>> /\ Len(cuts'[r]) = 0
  BY DEF ResetAttempt, InitialCk
<1>4. AcksWritten'
  BY <1>1, <1>3 DEF ResetAttempt, AcksWritten
<1>5. CutsOrdered'
  BY <1>1, <1>3 DEF CutsOrdered
<1>6. PrefixWritten'
  <2> SUFFICES ASSUME NEW r \in 1 .. Len(rs)
               PROVE  /\ ck'[r].nextSeq <= Len(cuts'[r])
                      /\ ck'[r].lastPK = Cut(r, ck[r].nextSeq)'
                      /\ ck'[r].complete => ck'[r].lastPK >= rs[r].maxPK
                      /\ \A p \in JobRows : rs[r].minPK < p /\ p <= ck'[r].lastPK => p \in target'
    BY <1>1 DEF PrefixWritten, JobRows
  <2>1. ck'[r].lastPK = Cut(r, ck[r].nextSeq)'
    BY <1>1, <1>3 DEF Cut
  <2>2. ASSUME NEW p \in JobRows, rs[r].minPK < p, p <= ck'[r].lastPK
        PROVE  FALSE
    BY <1>2, <1>3, <2>2, KeysAreIntegers
  <2>3. ck'[r].complete => ck'[r].lastPK >= rs[r].maxPK
    BY <1>3
  <2>4. ck'[r].nextSeq <= Len(cuts'[r])
    BY <1>3
  <2>5. \A p \in JobRows : rs[r].minPK < p /\ p <= ck'[r].lastPK => p \in target'
    BY <2>2
  <2> QED BY <2>1, <2>3, <2>4, <2>5
<1> QED BY <1>4, <1>5, <1>6

LEMMA SafeInit == Init => SafeInv
<1> SUFFICES ASSUME Init PROVE SafeInv
  OBVIOUS
<1>1. TypeOK /\ RefsOK
  BY TypeInit DEF TypeInv
<1>2. Readers = {}
  BY DEF Init, Readers
<1>3. AcksWritten /\ CutsOrdered /\ PrefixWritten
  BY <1>2 DEF Init, AcksWritten, CutsOrdered, PrefixWritten
<1>4. BaseWritten /\ CheckpointSafe
  BY DEF Init, BaseWritten, CheckpointSafe
<1> QED BY <1>1, <1>3, <1>4 DEF SafeInv

LEMMA SafeStep ==
  ASSUME "load" \notin Faults, SafeInv, [Next]_vars
  PROVE  SafeInv'
<1> USE DEF durable, execVars, readVars, consVars, ackVars, poolVars
<1>1. TypeOK' /\ RefsOK'
  BY TypeStep DEF TypeInv, SafeInv
<1>2. CASE Execute
  <2>1. PICK ckpt \in {saved} \cup (IF "load" \in Faults THEN {NoCheckpoint} ELSE {}) :
          /\ target' = CleanTarget(ckpt) \/ target' = target
          /\ \/ ResetAttempt(JobRanges(ckpt), "idle")
             \/ ResetAttempt(<<>>, "exited")
    BY <1>2 DEF Execute
  <2>2. ckpt = saved /\ saved \in Checkpoint \cup {NoCheckpoint} /\ saved' = saved
    BY <1>2 DEF Execute, SafeInv, TypeOK
  <2>3. saved # NoCheckpoint => \A p \in target : p <= saved.lastPK => p \in target'
    BY <2>1, <2>2 DEF CleanTarget
  <2>4. CheckpointSafe'
    BY <2>2, <2>3 DEF CheckpointSafe, SafeInv, JobRows
  <2>5. CASE ResetAttempt(<<>>, "exited")
    <3>1. <<>> \in Seq(PKRangeRec) /\ ranges' = <<>>
      BY <2>5 DEF ResetAttempt
    <3>2. BaseWritten'
      BY <3>1 DEF BaseWritten
    <3> QED BY <1>1, <2>4, <2>5, <3>1, <3>2, SafeReset DEF SafeInv
  <2>6. CASE ResetAttempt(JobRanges(ckpt), "idle")
    <3>1. ranges' = JobRanges(saved) /\ JobRanges(saved) \in Seq(PKRangeRec)
      BY <2>2, <2>6, JobRangesFacts DEF ResetAttempt
    <3>2. ranges'[Len(ranges')].maxPK = MaxPK
          /\ \A i \in 1 .. Len(ranges') - 1 : ranges'[i + 1].minPK = ranges'[i].maxPK
      BY <2>2, <3>1, JobRangesFacts
    <3>3. \/ \A p \in JobRows : p <= ranges'[1].minPK => p \in target'
          \/ Len(ranges') = 1 /\ ranges'[1].minPK >= ranges'[1].maxPK
      <4>1. CASE saved = NoCheckpoint /\ ranges'[1].minPK = MinPK - 1
        <5>1. \A p \in JobRows : ~(p <= MinPK - 1)
          BY KeysAreIntegers DEF JobRows
        <5> QED BY <4>1, <5>1
      <4>2. CASE Len(ranges') = 1 /\ ranges'[1].minPK = ranges'[1].maxPK
        <5>1. ranges'[1] \in PKRangeRec
          BY <3>1, <4>2
        <5>2. ranges'[1].minPK \in Int
          BY <5>1, KeysAreIntegers DEF PKRangeRec
        <5> QED BY <4>2, <5>2
      <4>3. CASE saved # NoCheckpoint /\ ranges'[1].minPK = saved.lastPK
        BY <2>3, <4>3 DEF SafeInv, CheckpointSafe
      <4> QED BY <2>2, <3>1, <4>1, <4>2, <4>3, JobRangesFacts
    <3>5. BaseWritten'
      BY <3>2, <3>3 DEF BaseWritten, JobRows
    <3> QED BY <1>1, <2>2, <2>4, <2>6, <3>1, <3>5, SafeReset DEF SafeInv
  <2> QED BY <2>1, <2>5, <2>6
<1>3. ASSUME NEW r \in Readers, ReadChunk(r)
      PROVE  SafeInv'
  <2>1. PICK last \in Remaining(r) : cuts' = [cuts EXCEPT ![r] = Append(@, last)]
    BY <1>3 DEF ReadChunk
  <2>2. /\ Readers' = Readers /\ JobRows' = JobRows
        /\ UNCHANGED <<ranges, target, saved, ck, ackChan, worker>>
    BY <1>3 DEF ReadChunk, Readers, JobRows
  <2>3. /\ last \in SourcePKs /\ ReaderPos(r) < last /\ last <= ranges[r].maxPK
        /\ cuts[r] \in Seq(SourcePKs) /\ cuts \in [Readers -> Seq(SourcePKs)]
    BY DEF Remaining, Scanned, SafeInv, TypeOK
  <2>4. /\ cuts'[r] = Append(cuts[r], last)
        /\ \A x \in Readers \ {r} : cuts'[x] = cuts[x]
    BY <2>1, <2>3
  <2>5. \A x \in Readers : /\ Len(cuts'[x]) >= Len(cuts[x]) /\ Len(cuts[x]) \in Nat
                           /\ \A k \in 0 .. Len(cuts[x]) : Cut(x, k)' = Cut(x, k)
    <3> SUFFICES ASSUME NEW x \in Readers
                 PROVE  /\ Len(cuts'[x]) >= Len(cuts[x]) /\ Len(cuts[x]) \in Nat
                        /\ \A k \in 0 .. Len(cuts[x]) : Cut(x, k)' = Cut(x, k)
      OBVIOUS
    <3>1. cuts[x] \in Seq(SourcePKs)
      BY <2>3
    <3>2. /\ Len(cuts'[x]) >= Len(cuts[x]) /\ Len(cuts[x]) \in Nat
          /\ \A k \in 1 .. Len(cuts[x]) : cuts'[x][k] = cuts[x][k]
      BY <2>3, <2>4, <3>1
    <3>3. \A k \in 0 .. Len(cuts[x]) : k = 0 \/ k \in 1 .. Len(cuts[x])
      BY <3>2
    <3> QED BY <2>2, <3>2, <3>3 DEF Cut
  <2>6. ASSUME NEW c \in Chunks, ValidChunk(c), Written(c)
        PROVE  Written(c)'
    <3>1. c.reader \in Readers /\ c.seq + 1 \in 1 .. Len(cuts[c.reader]) /\ c.seq \in Nat
      BY <2>6, ChunkFacts DEF SafeInv
    <3>2. c.seq \in 0 .. Len(cuts[c.reader]) /\ c.seq + 1 \in 0 .. Len(cuts[c.reader])
      BY <2>5, <3>1
    <3>3. LastPK(c)' = LastPK(c) /\ PrevPK(c)' = PrevPK(c)
      BY <2>5, <3>1, <3>2 DEF LastPK, PrevPK
    <3> QED BY <2>2, <2>6, <3>3 DEF Written, Rows
  <2>7. CutsOrdered'
    <3> SUFFICES ASSUME NEW x \in Readers, NEW k \in 1 .. Len(cuts'[x])
                 PROVE  Cut(x, k - 1)' < Cut(x, k)' /\ Cut(x, k)' <= ranges[x].maxPK
      BY <2>2 DEF CutsOrdered
    <3>1. CASE k \in 1 .. Len(cuts[x])
      <4>1. k \in 0 .. Len(cuts[x]) /\ k - 1 \in 0 .. Len(cuts[x])
        BY <2>5, <3>1
      <4> QED BY <2>5, <3>1, <4>1 DEF SafeInv, CutsOrdered
    <3>2. CASE k \notin 1 .. Len(cuts[x])
      <4>1. x = r
        BY <2>4, <3>2
      <4>2. k = Len(cuts[r]) + 1 /\ cuts'[r][k] = last
        BY <2>3, <2>4, <3>2, <4>1, AppendFacts
      <4>3. Cut(x, k)' = last /\ k - 1 = Len(cuts[r]) /\ k # 0
        BY <2>5, <4>1, <4>2 DEF Cut
      <4>4. Cut(x, k - 1)' = ReaderPos(r)
        BY <2>5, <4>1, <4>3 DEF ReaderPos
      <4> QED BY <2>3, <4>1, <4>3, <4>4
    <3> QED BY <3>1, <3>2
  <2>8. AcksWritten'
    <3>1. \A w \in Workers : worker[w].st \in {"count", "ack"} => Written(worker[w].job)'
      BY <2>2, <2>6 DEF SafeInv, AcksWritten, RefsOK, TypeOK
    <3>2. \A j \in 1 .. Len(ackChan) : Written(ackChan[j])'
      BY <2>2, <2>6 DEF SafeInv, AcksWritten, RefsOK, TypeOK
    <3>3. ASSUME NEW x \in Readers, NEW q \in ck[x].pending
          PROVE  Written([reader |-> x, seq |-> q])'
      <4>1. x \in Nat /\ q \in Nat /\ q < Len(cuts[x])
        <5>1. ck \in [Readers -> CkState] /\ Readers \subseteq Nat
          BY DEF SafeInv, TypeOK, Readers
        <5>2. ck[x].pending \subseteq Nat
          BY <5>1 DEF CkState
        <5> QED BY <3>3, <5>1, <5>2 DEF SafeInv, RefsOK
      <4> QED BY <2>6, <4>1 DEF SafeInv, AcksWritten, ValidChunk, Chunks
    <3> QED BY <2>2, <3>1, <3>2, <3>3 DEF AcksWritten
  <2>9. PrefixWritten'
    <3>1. \A x \in Readers : ck[x].nextSeq \in 0 .. Len(cuts[x])
      BY <2>5 DEF SafeInv, PrefixWritten, TypeOK, CkState
    <3>2. \A x \in Readers : /\ ck[x].nextSeq <= Len(cuts'[x])
                             /\ ck[x].lastPK = Cut(x, ck[x].nextSeq)'
      <4> SUFFICES ASSUME NEW x \in Readers
                   PROVE  ck[x].nextSeq <= Len(cuts'[x]) /\ ck[x].lastPK = Cut(x, ck[x].nextSeq)'
        OBVIOUS
      <4>1. Len(cuts'[x]) \in Nat
        BY <2>3, <2>4
      <4>2. ck[x].lastPK = Cut(x, ck[x].nextSeq)
        BY DEF SafeInv, PrefixWritten
      <4>3. ck[x].nextSeq <= Len(cuts'[x])
        BY <2>5, <3>1, <4>1
      <4>4. \A k \in 0 .. Len(cuts[x]) : Cut(x, k)' = Cut(x, k)
        BY <2>5
      <4> QED BY <2>2, <3>1, <4>2, <4>3, <4>4 DEF Cut
    <3> QED BY <2>2, <3>2 DEF SafeInv, PrefixWritten
  <2>10. BaseWritten' /\ CheckpointSafe'
    BY <2>2 DEF SafeInv, BaseWritten, CheckpointSafe
  <2> QED BY <1>1, <2>7, <2>8, <2>9, <2>10 DEF SafeInv
<1>4. ASSUME UNCHANGED <<ranges, cuts, target, saved, ck, worker, ackChan>>
      PROVE  SafeInv'
  <2>1. AcksWritten'
    BY <1>4, SafeStable DEF AcksWritten, SafeInv
  <2> QED BY <1>1, <1>4, <2>1, SafeStable DEF SafeInv
<1>5. ASSUME NEW r \in Readers, ReadNothing(r) \/ ReadFails(r) \/ SendChunk(r) \/ SendError(r)
      PROVE  SafeInv'
  BY <1>4, <1>5 DEF ReadNothing, ReadFails, SendChunk, SendError
<1>6. CASE ReceiveChunk \/ ReceiveError \/ ChunksClosed \/ Submit \/ SubmitCancelled \/ Fail \/ Cancel
  BY <1>4, <1>6 DEF ReceiveChunk, ReceiveError, ChunksClosed, Submit, SubmitCancelled, Fail, Cancel
<1>7. CASE UNCHANGED vars
  BY <1>4, <1>7 DEF vars
<1>8. CASE Succeed
  <2>1. UNCHANGED <<ranges, cuts, target, ck, worker, ackChan>>
    BY <1>8 DEF Succeed
  <2>2. CheckpointSafe'
    <3>1. CASE ~gotChunk
      BY <1>8, <2>1, <3>1, SafeStable DEF Succeed
    <3>2. CASE gotChunk
      <4>1. PICK x \in Readers : cuts[x] # <<>>
        BY <3>2 DEF SafeInv, RefsOK
      <4>2. SaveProgress(SafeCheckpoint(ck)) /\ ck \in [Readers -> CkState]
        BY <1>8, <3>2 DEF Succeed, SafeInv, TypeOK
      <4>3. /\ \A r \in Readers : ck[r].complete => ck[r].lastPK >= ranges[r].maxPK
            /\ \A r \in Readers : \A p \in JobRows :
                 ranges[r].minPK < p /\ p <= ck[r].lastPK => p \in target
        BY DEF SafeInv, PrefixWritten
      <4> QED BY <2>1, <4>1, <4>2, <4>3, SaveSafe DEF SafeInv
    <3> QED BY <3>1, <3>2 DEF SafeInv, TypeOK
  <2>3. AcksWritten'
    BY <2>1, SafeStable DEF AcksWritten, SafeInv
  <2> QED BY <1>1, <2>1, <2>2, <2>3, SafeStable DEF SafeInv
<1>9. ASSUME NEW w \in Workers, WorkerStep(w)
      PROVE  SafeInv'
  <2>1. UNCHANGED <<ranges, cuts, saved, ck>> /\ target \subseteq target'
    BY <1>9 DEF WorkerStep, TakeJob, DropJob, JobsClosed, Write, WriteFails, CountRows,
                SendAck, SkipAck, AckCancelled
  <2>2. worker \in [Workers -> [st : WorkerStates, job : Chunks]] /\ ackChan \in Seq(Chunks)
    BY DEF SafeInv, TypeOK
  <2>3. /\ \A x \in Workers : worker[x].st \in {"count", "ack"} => Rows(worker[x].job) \subseteq target'
        /\ \A j \in 1 .. Len(ackChan) : Rows(ackChan[j]) \subseteq target'
        /\ \A x \in Readers : \A q \in ck'[x].pending :
             Rows([reader |-> x, seq |-> q]) \subseteq target'
    BY <2>1 DEF SafeInv, AcksWritten, Written
  <2>4. /\ \A x \in Workers : worker'[x].st \in {"count", "ack"} => Rows(worker'[x].job) \subseteq target'
        /\ \A j \in 1 .. Len(ackChan') : Rows(ackChan'[j]) \subseteq target'
    <3>1. CASE Write(w)
      <4>1. /\ worker'[w].job = worker[w].job
            /\ \A x \in Workers \ {w} : worker'[x] = worker[x]
        BY <2>2, <3>1 DEF Write, SetWorker
      <4>2. Rows(worker[w].job) \subseteq target'
        BY <3>1 DEF Write
      <4> QED BY <2>3, <3>1, <4>1, <4>2 DEF Write
    <3>2. CASE SendAck(w)
      <4>1. /\ worker'[w].st = "idle"
            /\ \A x \in Workers \ {w} : worker'[x] = worker[x]
        BY <2>2, <3>2 DEF SendAck, SetWorker
      <4>2. worker[w].st = "ack" /\ ackChan' = Append(ackChan, worker[w].job)
            /\ worker[w].job \in Chunks
        BY <2>2, <3>2 DEF SendAck
      <4>3. \A j \in 1 .. Len(ackChan') : Rows(ackChan'[j]) \subseteq target'
        BY <2>2, <2>3, <4>2, AppendFacts
      <4> QED BY <2>3, <4>1, <4>3
    <3>3. CASE TakeJob(w) \/ DropJob(w) \/ JobsClosed(w) \/ WriteFails(w) \/ SkipAck(w) \/ AckCancelled(w)
      <4>1. /\ worker'[w].st \notin {"count", "ack"} /\ ackChan' = ackChan
            /\ \A x \in Workers \ {w} : worker'[x] = worker[x]
        BY <2>2, <3>3 DEF TakeJob, DropJob, JobsClosed, WriteFails, SkipAck, AckCancelled, SetWorker
      <4> QED BY <2>3, <4>1
    <3>4. CASE CountRows(w)
      <4>1. /\ worker[w].st = "count" /\ worker'[w].job = worker[w].job /\ ackChan' = ackChan
            /\ \A x \in Workers \ {w} : worker'[x] = worker[x]
        BY <2>2, <3>4 DEF CountRows, SetWorker
      <4> QED BY <2>3, <4>1
    <3> QED BY <1>9, <3>1, <3>2, <3>3, <3>4 DEF WorkerStep
  <2>5. AcksWritten'
    BY <2>1, <2>3, <2>4, AcksStable
  <2> QED BY <1>1, <2>1, <2>5, SafeStable DEF SafeInv
<1>10. CASE ReceiveAck
  <2>1. UNCHANGED <<ranges, cuts, target, worker>> /\ Readers' = Readers
    BY <1>10 DEF ReceiveAck, Readers
  <2>2. ackChan # <<>> /\ ackChan' = Tail(ackChan) /\ ackChan \in Seq(Chunks)
    BY <1>10 DEF ReceiveAck, SafeInv, TypeOK
  <2> DEFINE ack == Head(ackChan)
  <2>3. ack \in Chunks /\ ValidChunk(ack) /\ Written(ack)
    BY <2>2, TailFacts DEF SafeInv, RefsOK, AcksWritten
  <2>4. /\ \A w \in Workers : worker'[w].st \in {"count", "ack"} => Written(worker[w].job)'
        /\ \A j \in 1 .. Len(ackChan') : Written(ackChan[j])'
    <3>1. \A j \in 1 .. Len(ackChan') : Written(ackChan'[j])
      BY <2>2, TailFacts DEF SafeInv, AcksWritten
    <3> QED BY <2>1, <3>1, SafeStable DEF SafeInv, AcksWritten, Written, Rows, PrevPK, LastPK, Cut
  <2>5. CASE ack.seq = ck[ack.reader].nextSeq /\ OnAckRound(ack)
    <3>1. PrefixWritten' /\ CheckpointSafe'
      BY <2>1, <2>3, <2>5, OnAckRoundSafe
    <3>2. \A r \in Readers : ck'[r].pending \subseteq ck[r].pending
      BY <2>1, <2>3, <2>5, OnAckRoundType DEF SafeInv, TypeInv
    <3>3. AcksWritten'
      BY <2>1, <2>4, <3>2, SafeStable DEF AcksWritten, SafeInv
    <3> QED BY <1>1, <2>1, <3>1, <3>3, SafeStable DEF SafeInv
  <2>6. CASE OnEarlyAck(ack)
    <3>1. /\ ack.reader \in Readers /\ ck \in [Readers -> CkState]
          /\ ck' = [ck EXCEPT ![ack.reader].pending = @ \cup {ack.seq}] /\ saved' = saved
      BY <2>3, <2>6, ChunkFacts DEF OnEarlyAck, SafeInv, TypeOK
    <3>2. \A x \in Readers :
            /\ ck'[x].lastPK = ck[x].lastPK /\ ck'[x].nextSeq = ck[x].nextSeq
            /\ ck'[x].complete = ck[x].complete
            /\ ck'[x].pending \subseteq ck[x].pending \cup (IF x = ack.reader THEN {ack.seq} ELSE {})
      BY <3>1 DEF CkState
    <3>3. \A x, k : Cut(x, k)' = Cut(x, k)
      BY <2>1 DEF Cut
    <3>4. PrefixWritten'
      BY <2>1, <3>2, <3>3 DEF SafeInv, PrefixWritten, JobRows
    <3>5. [reader |-> ack.reader, seq |-> ack.seq] = ack
      BY <2>3 DEF Chunks
    <3>6. \A x \in Readers : \A q \in ck'[x].pending : Written([reader |-> x, seq |-> q])
      BY <2>3, <3>2, <3>5 DEF SafeInv, AcksWritten
    <3>7. \A x \in Readers' : \A q \in ck'[x].pending : Written([reader |-> x, seq |-> q])'
      BY <2>1, <3>6, SafeStable
    <3>8. AcksWritten'
      BY <2>1, <2>4, <3>7 DEF AcksWritten
    <3> QED BY <1>1, <2>1, <3>1, <3>4, <3>8, SafeStable DEF SafeInv
  <2> QED BY <1>10, <2>5, <2>6 DEF ReceiveAck
<1>11. CASE DrainPending
  <2> DEFINE ack == [reader |-> draining, seq |-> ck[draining].nextSeq]
  <2>1. UNCHANGED <<ranges, cuts, target, worker, ackChan>> /\ Readers' = Readers
    BY <1>11 DEF DrainPending, Readers
  <2>2. draining \in Readers /\ ck[draining].nextSeq \in ck[draining].pending
    BY <1>11 DEF DrainPending, SafeInv, TypeOK, RefsOK
  <2>3. ack \in Chunks /\ ValidChunk(ack) /\ Written(ack)
    BY <2>2 DEF SafeInv, RefsOK, AcksWritten, Chunks, ValidChunk, TypeOK, CkState, Readers
  <2>4. OnAckRound(ack) /\ ack.seq = ck[ack.reader].nextSeq
    BY <1>11 DEF DrainPending
  <2> HIDE DEF ack
  <2>5. PrefixWritten' /\ CheckpointSafe'
    BY <2>1, <2>3, <2>4, OnAckRoundSafe
  <2>6. \A r \in Readers : ck'[r].pending \subseteq ck[r].pending
    BY <2>1, <2>3, <2>4, OnAckRoundType DEF SafeInv, TypeInv
  <2>7. AcksWritten'
    BY <2>1, <2>6, SafeStable DEF AcksWritten, SafeInv
  <2> QED BY <1>1, <2>1, <2>5, <2>7, SafeStable DEF SafeInv
<1>12. CASE Crash
  <2>1. ResetAttempt(<<>>, "exited") /\ target \subseteq target' /\ saved' = saved
    BY <1>12 DEF Crash
  <2>2. <<>> \in Seq(PKRangeRec) /\ ranges' = <<>>
    BY <2>1 DEF ResetAttempt
  <2>3. BaseWritten'
    BY <2>2 DEF BaseWritten
  <2>4. CheckpointSafe'
    BY <2>1 DEF SafeInv, CheckpointSafe, JobRows
  <2> QED BY <1>1, <2>1, <2>2, <2>3, <2>4, SafeReset DEF SafeInv
<1> QED BY <1>2, <1>3, <1>5, <1>6, <1>7, <1>8, <1>9, <1>10, <1>11, <1>12
        DEF Next, ReaderStep, ConsumerStep, AckStep, Terminated

\* As long as Execute finds the checkpoint it saved, every row of the job up to the
\* saved key is in the target, after any crashes, write errors and lost acknowledgements.
THEOREM CheckpointSafety ==
  ASSUME "load" \notin Faults
  PROVE  Spec => []CheckpointSafe
<1>1. Init => SafeInv
  BY SafeInit
<1>2. SafeInv /\ [Next]_vars => SafeInv'
  BY SafeStep
<1>3. SafeInv => CheckpointSafe
  BY DEF SafeInv
<1> QED BY <1>1, <1>2, <1>3, PTL DEF Spec

-----------------------------------------------------------------------------
(* Facts about the operators of the model. *)

\* What was in a queue is still in it after something was added or removed.
LEMMA InTail ==
  ASSUME NEW S, NEW q \in Seq(S), q # <<>>, NEW i \in 1 .. Len(q), q[i] # Head(q)
  PROVE  \E j \in 1 .. Len(Tail(q)) : Tail(q)[j] = q[i]
<1>1. i # 1 /\ i - 1 \in 1 .. Len(Tail(q)) /\ (i - 1) + 1 = i
  BY TailFacts
<1>2. Tail(q)[i - 1] = q[i]
  BY <1>1, TailFacts
<1> QED BY <1>1, <1>2

LEMMA InAppend ==
  ASSUME NEW S, NEW q \in Seq(S), NEW x \in S
  PROVE  /\ \A i \in 1 .. Len(q) : \E j \in 1 .. Len(Append(q, x)) : Append(q, x)[j] = q[i]
         /\ \E j \in 1 .. Len(Append(q, x)) : Append(q, x)[j] = x
<1>1. \A i \in 1 .. Len(q) : i \in 1 .. Len(Append(q, x)) /\ Append(q, x)[i] = q[i]
  BY AppendFacts
<1>2. Len(q) + 1 \in 1 .. Len(Append(q, x)) /\ Append(q, x)[Len(q) + 1] = x
  BY AppendFacts
<1> QED BY <1>1, <1>2

\* A reader's chunks follow each other, so that a later one starts at a larger key.
LEMMA CutsMonotone ==
  ASSUME TypeOK, CutsOrdered, NEW r \in Readers
  PROVE  /\ Len(cuts[r]) \in Nat
         /\ \A k \in 0 .. Len(cuts[r]) : Cut(r, k) \in Int
         /\ \A j, k \in 0 .. Len(cuts[r]) : j <= k => Cut(r, j) <= Cut(r, k)
<1> DEFINE n == Len(cuts[r])
<1>1. n \in Nat /\ \A k \in 0 .. n : Cut(r, k) \in Int
  <2>1. cuts[r] \in Seq(SourcePKs) /\ \A k \in 0 .. n : Cut(r, k) \in Int64
    BY RangeFacts
  <2>2. n \in Nat
    BY <2>1
  <2>3. Int64 \subseteq Int
    BY KeysAreIntegers
  <2> QED BY <2>1, <2>2, <2>3
<1> DEFINE f == [k \in 0 .. n |-> Cut(r, k)]
<1>2. \A k \in 0 .. n : f[k] \in Int /\ f[k] = Cut(r, k)
  BY <1>1
<1>3. ASSUME NEW k \in 1 .. n PROVE f[k - 1] <= f[k]
  <2>1. Cut(r, k - 1) < Cut(r, k)
    BY DEF CutsOrdered
  <2>2. k \in 0 .. n /\ k - 1 \in 0 .. n
    BY <1>1
  <2> QED BY <1>1, <1>2, <2>1, <2>2
<1> HIDE DEF f
<1>4. \A j, k \in 0 .. n : j <= k => f[j] <= f[k]
  BY <1>1, <1>2, <1>3, StepwiseMonotone
<1> QED BY <1>1, <1>2, <1>4

\* The ranges of an attempt lie in the job, each after those before it.
LEMMA JobRangesOrdered ==
  ASSUME NEW ckpt \in Checkpoint \cup {NoCheckpoint},
         ckpt # NoCheckpoint => MinPK - 1 <= ckpt.lastPK
  PROVE  LET R == JobRanges(ckpt)
         IN /\ \A r \in 1 .. Len(R) : MinPK - 1 <= R[r].minPK /\ R[r].maxPK <= MaxPK
            /\ \A i, j \in 1 .. Len(R) : i < j =>
                 R[i].minPK <= R[i].maxPK /\ R[i].maxPK <= R[j].minPK
<1> DEFINE lo == [isInt |-> ckpt = NoCheckpoint,
                  val |-> IF ckpt = NoCheckpoint THEN MinPK ELSE ckpt.lastPK]
           hi == [isInt |-> TRUE, val |-> MaxPK]
           R == JobRanges(ckpt)
<1>1. lo \in PKValue /\ hi \in PKValue /\ lo.val \in Int /\ MaxPK \in Int /\ MinPK \in Int
  BY KeysAreIntegers, RowsAssumption DEF PKValue, Checkpoint
<1>2. R = SplitPKRange(lo, hi, ParallelReaders) /\ ParallelReaders \in Nat \ {0}
  BY ConfigAssumption DEF JobRanges
<1>3. ASSUME R = << [minPK |-> lo.val, maxPK |-> MaxPK] >>, MinPK - 1 <= lo.val
      PROVE  /\ \A r \in 1 .. Len(R) : MinPK - 1 <= R[r].minPK /\ R[r].maxPK <= MaxPK
             /\ \A i, j \in 1 .. Len(R) : ~(i < j)
  <2>1. Len(R) = 1 /\ R[1].minPK = lo.val /\ R[1].maxPK = MaxPK
    BY <1>3
  <2> HIDE DEF R, lo
  <2> QED BY <1>1, <1>3, <2>1
<1>4. CASE ckpt # NoCheckpoint
  <2>1. R = << [minPK |-> lo.val, maxPK |-> MaxPK] >>
    BY <1>1, <1>2, <1>4, SplitOther
  <2>2. MinPK - 1 <= lo.val
    BY <1>4
  <2> QED BY <1>3, <2>1, <2>2
<1>5. CASE ckpt = NoCheckpoint /\ ParallelReaders > 1 /\ MinPK = MaxPK
  <2>1. R = << [minPK |-> lo.val, maxPK |-> MaxPK] >>
    BY <1>1, <1>2, <1>5, SplitSingle
  <2>2. MinPK - 1 <= lo.val
    BY <1>1, <1>5
  <2> QED BY <1>3, <2>1, <2>2
<1>6. CASE ckpt = NoCheckpoint /\ (ParallelReaders = 1 \/ MinPK # MaxPK)
  <2>1. MinPK - 1 \in Int64
    BY WrapInt64, KeysAreIntegers, RowsAssumption
  <2>2. lo.val = MinPK /\ hi.val = MaxPK /\ lo.isInt /\ hi.isInt
    BY <1>6
  <2>3. MinPK <= MaxPK /\ MaxPK - MinPK < HalfWidth
    BY RowsAssumption
  <2>4. ParallelReaders = 1 \/ MinPK < MaxPK
    BY <1>6, <2>3, KeysAreIntegers
  <2> HIDE DEF lo, hi, R
  <2>5. R \in Seq(PKRangeRec) /\ Consecutive(R, MinPK - 1, MaxPK)
    BY <1>1, <1>2, <2>1, <2>2, <2>3, <2>4, SplitConsecutive
  <2>6. /\ \A r \in 1 .. Len(R) : MinPK - 1 <= R[r].minPK /\ R[r].maxPK <= MaxPK
        /\ \A i, j \in 1 .. Len(R) : i < j =>
             R[i].minPK <= R[i].maxPK /\ R[i].maxPK <= R[j].minPK
    BY <2>5, ConsecutiveOrdered
  <2> QED BY <2>6 DEF R
<1> QED BY <1>4, <1>5, <1>6, ConfigAssumption

\* As readers advance and finish, the coordinator's key moves forwards.
LEMMA SafeForward ==
  ASSUME ranges \in Seq(PKRangeRec), Readers # {}, RangesOrdered,
         NEW c \in [Readers -> CkState], NEW d \in [Readers -> CkState],
         \A r \in Readers :
           /\ c[r].complete => d[r].complete
           /\ c[r].lastPK <= d[r].lastPK
           /\ ranges[r].minPK <= d[r].lastPK
           /\ r < Len(ranges) => c[r].lastPK <= ranges[r].maxPK
  PROVE  SafeCheckpoint(c) <= SafeCheckpoint(d)
<1> DEFINE i == SafeReader(Len(ranges), c)
           j == SafeReader(Len(ranges), d)
<1>1. /\ Len(ranges) \in Nat \ {0} /\ Readers = 1 .. Len(ranges)
      /\ i \in Readers /\ j \in Readers
      /\ i = Len(ranges) \/ ~c[i].complete
      /\ j = Len(ranges) \/ ~d[j].complete
      /\ \A k \in 1 .. i - 1 : c[k].complete
  BY ReadersFacts, SafeReaderFacts
<1>2. \A r \in Readers :
        /\ c[r].lastPK \in Int /\ d[r].lastPK \in Int
        /\ ranges[r].minPK \in Int /\ ranges[r].maxPK \in Int
  <2>1. \A r \in Readers : ranges[r] \in PKRangeRec
    BY <1>1
  <2> QED BY <2>1, KeysAreIntegers DEF CkState, PKRangeRec
<1> HIDE DEF i, j
<1>3. i <= j
  <2> SUFFICES ASSUME j < i PROVE FALSE
    BY <1>1
  <2>1. j \in 1 .. i - 1 /\ j # Len(ranges)
    BY <1>1
  <2> QED BY <1>1, <2>1
<1>4. c[i].lastPK <= d[j].lastPK
  <2>1. CASE i = j
    BY <1>1, <2>1
  <2>2. CASE i < j
    <3>1. i < Len(ranges)
      BY <1>1, <2>2
    <3>2. c[i].lastPK <= ranges[i].maxPK /\ ranges[i].maxPK <= ranges[j].minPK
      BY <1>1, <2>2, <3>1 DEF RangesOrdered
    <3>3. ranges[j].minPK <= d[j].lastPK
      BY <1>1
    <3> QED BY <1>1, <1>2, <3>2, <3>3
  <2> QED BY <1>1, <1>3, <2>1, <2>2
<1> QED BY <1>4 DEF SafeCheckpoint, i, j

\* The keys of the readers lie in their ranges.
LEMMA ReaderKeys ==
  ASSUME SafeInv, RangesOrdered, NEW r \in Readers
  PROVE  /\ ck[r].lastPK \in Int /\ ranges[r].minPK \in Int /\ ranges[r].maxPK \in Int
         /\ ranges[r].minPK <= ck[r].lastPK
         /\ r < Len(ranges) => ck[r].lastPK <= ranges[r].maxPK
<1> DEFINE k == ck[r].nextSeq
<1>1. /\ k \in 0 .. Len(cuts[r]) /\ Len(cuts[r]) \in Nat
      /\ ck[r].lastPK = Cut(r, k) /\ ck[r].lastPK \in Int
  <2>1. cuts[r] \in Seq(SourcePKs) /\ ck[r] \in CkState
    BY DEF SafeInv, TypeOK
  <2>2. Len(cuts[r]) \in Nat
    BY <2>1
  <2>3. ck[r].lastPK \in Int64 /\ k \in Nat
    BY <2>1 DEF CkState
  <2>4. ck[r].lastPK \in Int
    BY <2>3, KeysAreIntegers
  <2>5. k <= Len(cuts[r]) /\ ck[r].lastPK = Cut(r, k)
    BY DEF SafeInv, PrefixWritten
  <2> QED BY <2>2, <2>3, <2>4, <2>5
<1>2. ranges[r].minPK \in Int /\ ranges[r].maxPK \in Int /\ Cut(r, 0) = ranges[r].minPK
  BY RangeFacts, KeysAreIntegers DEF SafeInv
<1>3. Cut(r, 0) <= Cut(r, k)
  BY <1>1, CutsMonotone DEF SafeInv
<1>4. ASSUME r < Len(ranges) PROVE ck[r].lastPK <= ranges[r].maxPK
  <2>1. CASE k = 0
    <3>1. r + 1 \in Readers /\ r < r + 1
      BY <1>4 DEF Readers, SafeInv, TypeOK
    <3> QED BY <1>1, <1>2, <2>1, <3>1 DEF RangesOrdered
  <2>2. CASE k # 0
    <3>1. k \in 1 .. Len(cuts[r])
      BY <1>1, <2>2
    <3> QED BY <1>1, <3>1 DEF SafeInv, CutsOrdered
  <2> QED BY <2>1, <2>2
<1> QED BY <1>1, <1>2, <1>3, <1>4

\* One round of onAck takes the coordinator's key, and a key that it saves, forwards.
LEMMA RoundForward ==
  ASSUME OrderInv, NEW ack \in Chunks, ValidChunk(ack), ack.seq = ck[ack.reader].nextSeq,
         OnAckRound(ack), UNCHANGED <<ranges, cuts>>
  PROVE  /\ SafeCheckpoint(ck) <= SafeCheckpoint(ck)' /\ SafeCheckpoint(ck)' \in Int
         /\ SafeCheckpoint(ck) \in Int /\ MinPK - 1 <= SafeCheckpoint(ck)
         /\ \/ saved' = saved
            \/ /\ saved' # NoCheckpoint /\ saved'.lastPK \in Int
               /\ SafeCheckpoint(ck) <= saved'.lastPK /\ saved'.lastPK <= SafeCheckpoint(ck)'
<1> DEFINE r == ack.reader
           applied == ApplyAck(ack)
<1> USE DEF OrderInv
<1>1. /\ r \in Readers /\ ack.seq \in Nat /\ ack.seq + 1 \in 1 .. Len(cuts[r])
      /\ LastPK(ack) \in Int64 /\ LastPK(ack) \in Int
  BY ChunkFacts, KeysAreIntegers DEF SafeInv
<1>2. ck \in [Readers -> CkState] /\ ranges \in Seq(PKRangeRec) /\ Readers # {}
  BY <1>1 DEF SafeInv, TypeOK
<1>3. /\ applied \in [Readers -> CkState]
      /\ applied[r].lastPK = LastPK(ack)
      /\ applied[r].complete = (ck[r].complete \/ LastPK(ack) >= ranges[r].maxPK)
      /\ \A x \in Readers \ {r} : applied[x] = ck[x]
  BY <1>1, <1>2, ApplyAckFacts
<1> HIDE DEF applied
<1>4. ck[r].lastPK <= LastPK(ack) /\ LastPK(ack) <= ranges[r].maxPK
  <2>1. /\ Cut(r, (ack.seq + 1) - 1) < Cut(r, ack.seq + 1)
        /\ Cut(r, ack.seq + 1) <= ranges[r].maxPK
    BY <1>1 DEF SafeInv, CutsOrdered
  <2>2. (ack.seq + 1) - 1 = ack.seq /\ ck[r].lastPK = Cut(r, ack.seq)
    BY <1>1 DEF SafeInv, PrefixWritten
  <2>3. ck[r].lastPK \in Int
    BY <1>1, ReaderKeys
  <2> QED BY <1>1, <2>1, <2>2, <2>3 DEF LastPK
<1>5. \A x \in Readers :
        /\ applied[x].lastPK \in Int /\ ck[x].lastPK \in Int /\ ranges[x].minPK \in Int
        /\ ck[x].lastPK <= applied[x].lastPK
        /\ ck[x].complete => applied[x].complete
        /\ ranges[x].minPK <= applied[x].lastPK
        /\ x < Len(ranges) => /\ ck[x].lastPK <= ranges[x].maxPK
                              /\ applied[x].lastPK <= ranges[x].maxPK
  <2> SUFFICES ASSUME NEW x \in Readers
               PROVE  /\ applied[x].lastPK \in Int /\ ck[x].lastPK \in Int /\ ranges[x].minPK \in Int
                      /\ ck[x].lastPK <= applied[x].lastPK
                      /\ ck[x].complete => applied[x].complete
                      /\ ranges[x].minPK <= applied[x].lastPK
                      /\ x < Len(ranges) => /\ ck[x].lastPK <= ranges[x].maxPK
                                            /\ applied[x].lastPK <= ranges[x].maxPK
    OBVIOUS
  <2>1. /\ ck[x].lastPK \in Int /\ ranges[x].minPK \in Int /\ ranges[x].minPK <= ck[x].lastPK
        /\ x < Len(ranges) => ck[x].lastPK <= ranges[x].maxPK
    BY ReaderKeys
  <2>2. CASE x = r
    <3>1. ck[r].complete => applied[r].complete
      BY <1>3
    <3>2. applied[r].lastPK = LastPK(ack) /\ ranges[r].maxPK \in Int
      BY <1>1, <1>3, ReaderKeys
    <3>3. /\ ck[r].lastPK <= LastPK(ack) /\ ranges[r].minPK <= LastPK(ack)
          /\ r < Len(ranges) => LastPK(ack) <= ranges[r].maxPK
      BY <1>1, <1>4, <2>1, <2>2, <3>2
    <3> QED BY <1>1, <2>1, <2>2, <3>1, <3>2, <3>3
  <2>3. CASE x # r
    BY <1>3, <2>1, <2>3
  <2> QED BY <2>2, <2>3
<1>6. /\ ck' \in [Readers -> CkState]
      /\ \A x \in Readers : /\ ck'[x].lastPK = applied[x].lastPK
                            /\ ck'[x].complete = applied[x].complete
  <2>1. ck' = [applied EXCEPT ![r].nextSeq = ack.seq + 1, ![r].pending = @ \ {ack.seq}]
    BY DEF OnAckRound, applied
  <2>2. applied[r] \in CkState
    BY <1>1, <1>3
  <2>3. /\ ck'[r] = [applied[r] EXCEPT !.nextSeq = ack.seq + 1, !.pending = @ \ {ack.seq}]
        /\ \A x \in Readers \ {r} : ck'[x] = applied[x]
    BY <1>1, <1>3, <2>1
  <2>4. ck'[r].lastPK = applied[r].lastPK /\ ck'[r].complete = applied[r].complete
    BY <2>2, <2>3 DEF CkState
  <2>5. ck' \in [Readers -> CkState]
    BY OnAckRoundType DEF SafeInv, TypeInv
  <2> QED BY <2>3, <2>4, <2>5
<1>7. SafeCheckpoint(ck) <= SafeCheckpoint(applied)
  BY <1>2, <1>3, <1>5, SafeForward
<1>8. SafeCheckpoint(applied) <= SafeCheckpoint(ck')
  <2>1. \A x \in Readers :
          /\ applied[x].complete => ck'[x].complete
          /\ applied[x].lastPK <= ck'[x].lastPK
          /\ ranges[x].minPK <= ck'[x].lastPK
          /\ x < Len(ranges) => applied[x].lastPK <= ranges[x].maxPK
    BY <1>5, <1>6
  <2> QED BY <1>2, <1>3, <1>6, <2>1, SafeForward
<1>9. SafeCheckpoint(ck)' = SafeCheckpoint(ck')
  BY DEF SafeCheckpoint, SafeReader, Readers
<1>10. /\ SafeCheckpoint(ck) \in Int /\ SafeCheckpoint(applied) \in Int /\ SafeCheckpoint(ck') \in Int
       /\ MinPK - 1 <= SafeCheckpoint(ck)
  <2>1. SafeReader(Len(ranges), ck) \in Readers /\ SafeReader(Len(ranges), applied) \in Readers /\ SafeReader(Len(ranges), ck') \in Readers
    BY <1>2, ReadersFacts, SafeReaderFacts
  <2>2. \A x \in Readers : ck[x].lastPK \in Int /\ MinPK - 1 <= ck[x].lastPK
    BY ReaderKeys, KeysAreIntegers DEF RangesOrdered
  <2> QED BY <1>5, <1>6, <2>1, <2>2 DEF SafeCheckpoint
<1>11. SaveProgress(SafeCheckpoint(applied)) \/ saved' = saved
  BY DEF OnAckRound, applied
<1>12. ASSUME saved' = [lastPK |-> SafeCheckpoint(applied), rowsDone |-> resumeRowsDone + totalWritten]
       PROVE  saved' # NoCheckpoint /\ saved'.lastPK = SafeCheckpoint(applied)
  <2>1. saved' \in Checkpoint
    <3>1. SafeReader(Len(ranges), applied) \in Readers
      BY <1>2, ReadersFacts, SafeReaderFacts
    <3>2. SafeCheckpoint(applied) \in Int64
      BY <1>3, <3>1 DEF SafeCheckpoint, CkState
    <3>3. resumeRowsDone + totalWritten \in Nat
      BY DEF SafeInv, TypeOK
    <3> QED BY <1>12, <3>2, <3>3 DEF Checkpoint
  <2> QED BY <1>12, <2>1, ConfigAssumption
<1> QED BY <1>7, <1>8, <1>9, <1>10, <1>11, <1>12 DEF SaveProgress

\* The rows that such a round saves keep the saved key behind the coordinator's.
LEMMA RoundSaves ==
  ASSUME OrderInv, NEW ack \in Chunks, ValidChunk(ack), ack.seq = ck[ack.reader].nextSeq,
         OnAckRound(ack), UNCHANGED <<ranges, cuts>>
  PROVE  /\ RangesOrdered' /\ SavedBehind'
         /\ \/ saved' = saved
            \/ /\ saved' # NoCheckpoint /\ saved'.lastPK \in Int
               /\ saved # NoCheckpoint => saved.lastPK <= saved'.lastPK
<1>1. RangesOrdered'
  BY DEF OrderInv, RangesOrdered, Readers
<1>2. /\ SafeCheckpoint(ck) <= SafeCheckpoint(ck)' /\ SafeCheckpoint(ck)' \in Int
      /\ SafeCheckpoint(ck) \in Int /\ MinPK - 1 <= SafeCheckpoint(ck)
      /\ \/ saved' = saved
         \/ /\ saved' # NoCheckpoint /\ saved'.lastPK \in Int
            /\ SafeCheckpoint(ck) <= saved'.lastPK /\ saved'.lastPK <= SafeCheckpoint(ck)'
  BY RoundForward
<1>3. ranges # <<>>
  <2>1. ack.reader \in Readers
    BY DEF ValidChunk
  <2> QED BY <2>1, ReadersFacts DEF OrderInv, SafeInv, TypeOK
<1>4. saved # NoCheckpoint => saved.lastPK \in Int
  BY KeysAreIntegers DEF OrderInv, SafeInv, TypeOK, Checkpoint
<1>5. saved # NoCheckpoint => MinPK - 1 <= saved.lastPK /\ saved.lastPK <= SafeCheckpoint(ck)
  BY <1>3 DEF OrderInv, SavedBehind
<1>6. SavedBehind'
  BY <1>2, <1>4, <1>5, KeysAreIntegers DEF SavedBehind
<1> QED BY <1>1, <1>2, <1>4, <1>5, <1>6

\* The same of the save that ends a successful attempt.
LEMMA SucceedSaves ==
  ASSUME OrderInv, Succeed
  PROVE  /\ SavedBehind'
         /\ \/ saved' = saved
            \/ /\ saved' # NoCheckpoint /\ saved'.lastPK \in Int
               /\ saved # NoCheckpoint => saved.lastPK <= saved'.lastPK
<1> USE DEF OrderInv
<1>1. UNCHANGED <<ranges, ck>>
  BY DEF Succeed, execVars, ackVars
<1>2. SafeCheckpoint(ck)' = SafeCheckpoint(ck)
  BY <1>1 DEF SafeCheckpoint
<1>3. CASE saved' = saved
  BY <1>1, <1>2, <1>3 DEF SavedBehind
<1>4. CASE gotChunk /\ saved' = [lastPK |-> SafeCheckpoint(ck), rowsDone |-> resumeRowsDone + totalWritten]
  <2>1. Readers # {} /\ ranges \in Seq(PKRangeRec)
    BY <1>4 DEF SafeInv, RefsOK, TypeOK
  <2>2. SafeReader(Len(ranges), ck) \in Readers /\ ranges # <<>>
    BY <2>1, ReadersFacts, SafeReaderFacts
  <2>3. /\ SafeCheckpoint(ck) \in Int /\ SafeCheckpoint(ck) \in Int64
        /\ MinPK - 1 <= SafeCheckpoint(ck)
    <3>1. \A x \in Readers : ck[x].lastPK \in Int64 /\ ck[x].lastPK \in Int
      BY ReaderKeys DEF SafeInv, TypeOK, CkState
    <3>2. \A x \in Readers : MinPK - 1 <= ck[x].lastPK
      BY ReaderKeys, KeysAreIntegers DEF RangesOrdered
    <3> QED BY <2>2, <3>1, <3>2 DEF SafeCheckpoint
  <2>4. resumeRowsDone + totalWritten \in Nat
    BY DEF SafeInv, TypeOK
  <2>5. saved' \in Checkpoint /\ saved'.lastPK = SafeCheckpoint(ck)
    BY <1>4, <2>3, <2>4 DEF Checkpoint
  <2>6. saved' # NoCheckpoint
    BY <2>5, ConfigAssumption
  <2>7. saved # NoCheckpoint => saved.lastPK <= SafeCheckpoint(ck)
    BY <2>2 DEF SavedBehind
  <2>8. SavedBehind'
    BY <1>1, <1>2, <2>3, <2>5 DEF SavedBehind
  <2> QED BY <2>3, <2>5, <2>6, <2>7, <2>8
<1> QED BY <1>3, <1>4 DEF Succeed, SaveProgress

\* An attempt begins at the saved key, if there is one, and otherwise before MinPK.
LEMMA OrderReset ==
  ASSUME TypeOK, SavedBehind, "load" \notin Faults, Execute
  PROVE  RangesOrdered' /\ SavedBehind' /\ StoppedQuiet'
<1>1. PICK ckpt \in {saved} :
        \/ pc' = "loop" /\ ResetAttempt(JobRanges(ckpt), "idle")
        \/ pc' = "ok" /\ ResetAttempt(<<>>, "exited")
  BY DEF Execute
<1>2. /\ ckpt = saved /\ saved' = saved /\ saved \in Checkpoint \cup {NoCheckpoint}
      /\ saved # NoCheckpoint => MinPK - 1 <= saved.lastPK
  BY DEF Execute, TypeOK, SavedBehind
<1>3. CASE pc' = "ok" /\ ResetAttempt(<<>>, "exited")
  <2>1. ranges' = <<>> /\ Readers' = {}
    BY <1>3 DEF ResetAttempt, Readers
  <2>2. StoppedQuiet'
    BY <1>3 DEF ResetAttempt, StoppedQuiet
  <2>3. RangesOrdered'
    BY <2>1 DEF RangesOrdered
  <2> QED BY <1>2, <2>1, <2>2, <2>3 DEF SavedBehind
<1>4. CASE pc' = "loop" /\ ResetAttempt(JobRanges(saved), "idle")
  <2> DEFINE rs == JobRanges(saved)
             i == SafeReader(Len(rs), ck')
  <2>1. /\ rs \in Seq(PKRangeRec) /\ Len(rs) \in Nat \ {0}
        /\ saved # NoCheckpoint => rs[1].minPK = saved.lastPK
    BY <1>2, JobRangesFacts
  <2>2. /\ \A r \in 1 .. Len(rs) : MinPK - 1 <= rs[r].minPK /\ rs[r].maxPK <= MaxPK
        /\ \A j, k \in 1 .. Len(rs) : j < k =>
             rs[j].minPK <= rs[j].maxPK /\ rs[j].maxPK <= rs[k].minPK
    BY <1>2, JobRangesOrdered
  <2>3. ranges' = rs /\ Readers' = 1 .. Len(rs) /\ ck' = InitialCk(rs)
    BY <1>4 DEF ResetAttempt, Readers
  <2> HIDE DEF rs
  <2>4. RangesOrdered'
    BY <2>2, <2>3 DEF RangesOrdered
  <2>5. StoppedQuiet'
    BY <1>4 DEF StoppedQuiet, Stopped
  <2>6. i \in 1 .. Len(rs)
    BY <2>1, SafeReaderFacts
  <2>7. SafeCheckpoint(ck)' = rs[i].minPK
    BY <2>3, <2>6 DEF SafeCheckpoint, InitialCk
  <2>8. \A r \in 1 .. Len(rs) : rs[r].minPK \in Int /\ rs[r].maxPK \in Int
    <3>1. \A r \in 1 .. Len(rs) : rs[r] \in PKRangeRec
      BY <2>1
    <3> QED BY <3>1, KeysAreIntegers DEF PKRangeRec
  <2>9. rs[1].minPK <= rs[i].minPK
    <3>1. CASE i = 1
      BY <2>1, <2>8, <3>1
    <3>2. CASE i # 1
      <4>1. 1 \in 1 .. Len(rs) /\ 1 < i
        BY <2>6, <3>2
      <4> QED BY <2>2, <2>6, <2>8, <4>1
    <3> QED BY <3>1, <3>2
  <2>10. SavedBehind'
    BY <1>2, <2>1, <2>7, <2>9 DEF SavedBehind
  <2> QED BY <2>4, <2>5, <2>10
<1> QED BY <1>1, <1>2, <1>3, <1>4

LEMMA OrderInit == Init => OrderInv
<1> SUFFICES ASSUME Init PROVE OrderInv
  OBVIOUS
<1>1. SafeInv
  BY SafeInit
<1>2. Readers = {}
  BY DEF Init, Readers
<1>3. RangesOrdered /\ SavedBehind /\ StoppedQuiet
  BY <1>2 DEF Init, RangesOrdered, SavedBehind, StoppedQuiet
<1> QED BY <1>1, <1>3 DEF OrderInv

\* Every step keeps the order of the ranges and the keys, and moves the saved key
\* forwards, if at all.
LEMMA OrderStep ==
  ASSUME "load" \notin Faults, OrderInv, [Next]_vars
  PROVE  /\ OrderInv'
         /\ \/ saved' = saved
            \/ /\ pc \in Running /\ saved' # NoCheckpoint /\ saved'.lastPK \in Int
               /\ saved # NoCheckpoint => saved.lastPK <= saved'.lastPK
<1> DEFINE Goal == /\ RangesOrdered' /\ SavedBehind' /\ StoppedQuiet'
                   /\ \/ saved' = saved
                      \/ /\ pc \in Running /\ saved' # NoCheckpoint /\ saved'.lastPK \in Int
                         /\ saved # NoCheckpoint => saved.lastPK <= saved'.lastPK
<1> USE DEF OrderInv, durable, execVars, readVars, consVars, ackVars, poolVars
<1>1. SafeInv'
  BY SafeStep
<1> SUFFICES Goal
  BY <1>1
<1>2. pc \in Running \cup Stopped /\ \A x \in Running : x \notin Stopped
  BY DEF SafeInv, TypeOK, Running, Stopped
<1>3. ASSUME UNCHANGED <<ranges, ck, saved>>, StoppedQuiet'
      PROVE  Goal
  BY <1>3 DEF RangesOrdered, SavedBehind, SafeCheckpoint, Readers
<1>4. CASE Execute
  BY <1>4, OrderReset DEF Execute, SafeInv
<1>5. ASSUME NEW r \in Readers, ReaderStep(r)
      PROVE  Goal
  BY <1>3, <1>5 DEF ReaderStep, ReadChunk, ReadNothing, ReadFails, SendChunk, SendError, StoppedQuiet
<1>6. CASE ReceiveChunk \/ ReceiveError \/ ChunksClosed \/ Submit \/ SubmitCancelled \/ Fail \/ Cancel
  <2>1. StoppedQuiet'
    BY <1>6 DEF ReceiveChunk, ReceiveError, ChunksClosed, Submit, SubmitCancelled, Fail, Cancel,
                PoolDrained, StoppedQuiet, Stopped
  <2> QED BY <1>3, <1>6, <2>1
          DEF ReceiveChunk, ReceiveError, ChunksClosed, Submit, SubmitCancelled, Fail, Cancel
<1>7. CASE Succeed
  <2>1. StoppedQuiet' /\ pc \in Running /\ ranges' = ranges
    BY <1>7 DEF Succeed, PoolDrained, StoppedQuiet, Running
  <2>2. RangesOrdered'
    BY <2>1 DEF RangesOrdered, Readers
  <2> QED BY <1>7, <2>1, <2>2, SucceedSaves
<1>8. ASSUME NEW w \in Workers, WorkerStep(w)
      PROVE  Goal
  <2>1. worker[w].st # "exited" /\ pc' = pc /\ UNCHANGED <<ranges, ck, saved>>
    BY <1>8 DEF WorkerStep, TakeJob, DropJob, JobsClosed, Write, WriteFails, CountRows,
                SendAck, SkipAck, AckCancelled
  <2>2. StoppedQuiet'
    BY <2>1 DEF StoppedQuiet
  <2> QED BY <1>3, <2>1, <2>2
<1>9. CASE ReceiveAck
  <2>1. /\ UNCHANGED <<ranges, cuts, pc>> /\ ackChan # <<>> /\ ackChan \in Seq(Chunks)
        /\ ranges \in Seq(PKRangeRec)
    BY <1>9 DEF ReceiveAck, SafeInv, TypeOK
  <2>2. pc \in Running /\ StoppedQuiet'
    BY <1>2, <2>1 DEF StoppedQuiet
  <2> DEFINE ack == Head(ackChan)
  <2>3. ack \in Chunks /\ ValidChunk(ack)
    BY <2>1, TailFacts DEF SafeInv, RefsOK
  <2>4. CASE ack.seq = ck[ack.reader].nextSeq /\ OnAckRound(ack)
    <3> HIDE DEF ack
    <3> QED BY <2>1, <2>2, <2>3, <2>4, RoundSaves
  <2>5. CASE OnEarlyAck(ack)
    <3>1. /\ ack.reader \in Readers /\ ck \in [Readers -> CkState] /\ Readers # {}
          /\ ck' = [ck EXCEPT ![ack.reader].pending = @ \cup {ack.seq}] /\ saved' = saved
      BY <2>3, <2>5, ChunkFacts DEF OnEarlyAck, SafeInv, TypeOK
    <3>2. ck' \in [Readers -> CkState]
      BY <1>1, <2>1 DEF SafeInv, TypeOK, Readers
    <3>3. \A x \in Readers : ck'[x].lastPK = ck[x].lastPK /\ ck'[x].complete = ck[x].complete
      BY <3>1 DEF CkState
    <3>4. \A x \in Readers :
            /\ ck[x].complete => ck'[x].complete
            /\ ck[x].lastPK <= ck'[x].lastPK
            /\ ranges[x].minPK <= ck'[x].lastPK
            /\ x < Len(ranges) => ck[x].lastPK <= ranges[x].maxPK
      BY <3>3, ReaderKeys
    <3>5. SafeCheckpoint(ck) <= SafeCheckpoint(ck')
      BY <2>1, <3>1, <3>2, <3>4, SafeForward
    <3>6. /\ SafeReader(Len(ranges), ck) \in Readers
          /\ SafeReader(Len(ranges), ck') \in Readers /\ ranges # <<>>
      BY <2>1, <3>1, ReadersFacts, SafeReaderFacts
    <3>7. SafeCheckpoint(ck) \in Int /\ SafeCheckpoint(ck') \in Int
      BY <3>3, <3>6, ReaderKeys DEF SafeCheckpoint
    <3>8. saved # NoCheckpoint => saved.lastPK \in Int
      BY KeysAreIntegers DEF SafeInv, TypeOK, Checkpoint
    <3>9. SafeCheckpoint(ck)' = SafeCheckpoint(ck')
      BY <2>1 DEF SafeCheckpoint
    <3>10. SavedBehind' /\ RangesOrdered'
      BY <2>1, <3>1, <3>5, <3>6, <3>7, <3>8, <3>9 DEF SavedBehind, RangesOrdered, Readers
    <3> QED BY <2>2, <3>1, <3>10
  <2> QED BY <1>9, <2>4, <2>5 DEF ReceiveAck
<1>10. CASE DrainPending
  <2> DEFINE ack == [reader |-> draining, seq |-> ck[draining].nextSeq]
  <2>1. UNCHANGED <<ranges, cuts, pc>> /\ draining # 0 /\ draining \in Readers
    BY <1>10 DEF DrainPending, SafeInv, TypeOK
  <2>2. pc \in Running /\ StoppedQuiet'
    BY <1>2, <2>1 DEF StoppedQuiet
  <2>3. ack \in Chunks /\ ValidChunk(ack)
    BY <2>1 DEF SafeInv, RefsOK, Chunks, ValidChunk, TypeOK, CkState, Readers
  <2>4. OnAckRound(ack) /\ ack.seq = ck[ack.reader].nextSeq
    BY <1>10 DEF DrainPending
  <2> HIDE DEF ack
  <2> QED BY <2>1, <2>2, <2>3, <2>4, RoundSaves
<1>11. CASE Crash
  <2>1. ranges' = <<>> /\ Readers' = {} /\ saved' = saved
    BY <1>11 DEF Crash, ResetAttempt, Readers
  <2>2. StoppedQuiet'
    BY <1>11 DEF Crash, ResetAttempt, StoppedQuiet
  <2> QED BY <2>1, <2>2 DEF SavedBehind, RangesOrdered
<1>12. CASE UNCHANGED vars
  <2>1. StoppedQuiet'
    BY <1>12 DEF vars, StoppedQuiet
  <2> QED BY <1>3, <1>12, <2>1 DEF vars
<1> HIDE DEF Goal
<1> QED
  BY <1>4, <1>5, <1>6, <1>7, <1>8, <1>9, <1>10, <1>11, <1>12
     DEF Next, ConsumerStep, AckStep, Terminated

\* As long as Execute finds the checkpoint it saved, no attempt moves it back: what
\* an earlier attempt has transferred and saved, a later one never gives up.
THEOREM CheckpointForwardOnly ==
  ASSUME "load" \notin Faults
  PROVE  Spec => CheckpointNeverRegresses
<1>1. Init => OrderInv
  BY OrderInit
<1>2. OrderInv /\ [Next]_vars => OrderInv'
  BY OrderStep
<1>3. OrderInv /\ [Next]_vars => [saved # NoCheckpoint => saved'.lastPK >= saved.lastPK]_vars
  <2> SUFFICES ASSUME OrderInv, [Next]_vars, saved # NoCheckpoint
               PROVE  saved'.lastPK >= saved.lastPK
    OBVIOUS
  <2>1. saved.lastPK \in Int
    BY KeysAreIntegers DEF OrderInv, SafeInv, TypeOK, Checkpoint
  <2>2. saved' = saved \/ (saved'.lastPK \in Int /\ saved.lastPK <= saved'.lastPK)
    BY OrderStep
  <2> QED BY <2>1, <2>2
<1> QED BY <1>1, <1>2, <1>3, PTL DEF Spec, CheckpointNeverRegresses

-----------------------------------------------------------------------------
(***************************************************************************)
(* The other partitions, under every fault.                                *)
(***************************************************************************)

\* A saved key, like those of the readers, does not lie before the job.
LEMMA SavedInJob ==
  ASSUME TypeOK, Readers # {}, NEW c \in [Readers -> CkState],
         \A r \in Readers : MinPK - 1 <= c[r].lastPK,
         KeysInJob, SaveProgress(SafeCheckpoint(c))
  PROVE  saved' # NoCheckpoint => MinPK - 1 <= saved'.lastPK
<1>1. SafeReader(Len(ranges), c) \in Readers
  BY ReadersFacts, SafeReaderFacts DEF TypeOK
<1>2. MinPK - 1 <= SafeCheckpoint(c)
  BY <1>1 DEF SafeCheckpoint
<1> QED BY <1>2 DEF SaveProgress, KeysInJob

LEMMA RoundInJob ==
  ASSUME TypeInv, KeysInJob, NEW ack \in Chunks, ValidChunk(ack),
         OnAckRound(ack), UNCHANGED <<ranges, cuts>>
  PROVE  KeysInJob'
<1> DEFINE r == ack.reader
           applied == ApplyAck(ack)
<1>1. /\ r \in Readers /\ ack.seq \in Nat /\ ack.seq + 1 \in 1 .. Len(cuts[r])
      /\ LastPK(ack) \in Int64 /\ LastPK(ack) = cuts[r][ack.seq + 1]
  <2>1. /\ r \in Readers /\ ack.seq \in Nat /\ ack.seq + 1 \in 1 .. Len(cuts[r])
        /\ LastPK(ack) \in Int64
    BY ChunkFacts DEF TypeInv
  <2> QED BY <2>1 DEF LastPK, Cut
<1>2. MinPK - 1 <= LastPK(ack) /\ ck \in [Readers -> CkState] /\ Readers' = Readers
  BY <1>1 DEF KeysInJob, TypeInv, TypeOK, Readers
<1>3. /\ applied \in [Readers -> CkState] /\ applied[r].lastPK = LastPK(ack)
      /\ \A x \in Readers \ {r} : applied[x] = ck[x]
  BY <1>1, <1>2, ApplyAckFacts
<1> HIDE DEF applied
<1>4. \A x \in Readers : MinPK - 1 <= applied[x].lastPK
  BY <1>2, <1>3 DEF KeysInJob
<1>5. \A x \in Readers : ck'[x].lastPK = applied[x].lastPK
  <2>1. ck' = [applied EXCEPT ![r].nextSeq = ack.seq + 1, ![r].pending = @ \ {ack.seq}]
    BY DEF OnAckRound, applied
  <2>2. /\ ck'[r] = [applied[r] EXCEPT !.nextSeq = ack.seq + 1, !.pending = @ \ {ack.seq}]
        /\ \A x \in Readers \ {r} : ck'[x] = applied[x]
    BY <1>1, <1>3, <2>1
  <2>3. ck'[r].lastPK = applied[r].lastPK
    BY <1>1, <1>3, <2>2 DEF CkState
  <2> QED BY <2>2, <2>3
<1>6. SaveProgress(SafeCheckpoint(applied)) \/ saved' = saved
  BY DEF OnAckRound, applied
<1>7. saved' # NoCheckpoint => MinPK - 1 <= saved'.lastPK
  BY <1>1, <1>3, <1>4, <1>6, SavedInJob DEF TypeInv, KeysInJob
<1> QED BY <1>2, <1>4, <1>5, <1>7 DEF KeysInJob

LEMMA InJobStep ==
  ASSUME TypeInv, KeysInJob, [Next]_vars
  PROVE  KeysInJob'
<1> USE DEF durable, execVars, readVars, consVars, ackVars, poolVars
<1>1. ASSUME UNCHANGED <<ranges, cuts, ck, saved>>
      PROVE  KeysInJob'
  BY <1>1 DEF KeysInJob, Readers
<1>2. ASSUME NEW rs, saved' = saved, ranges' = rs, cuts' = [r \in 1 .. Len(rs) |-> <<>>],
             ck' = InitialCk(rs), \A r \in 1 .. Len(rs) : MinPK - 1 <= rs[r].minPK
      PROVE  KeysInJob'
  <2>1. Readers' = 1 .. Len(rs)
    BY <1>2 DEF Readers
  <2>2. \A r \in 1 .. Len(rs) : ck'[r].lastPK = rs[r].minPK /\ 1 .. Len(cuts'[r]) = {}
    BY <1>2 DEF InitialCk
  <2> QED BY <1>2, <2>1, <2>2 DEF KeysInJob
<1>3. CASE Execute
  <2>1. PICK ckpt \in {saved} \cup (IF "load" \in Faults THEN {NoCheckpoint} ELSE {}) :
          ResetAttempt(JobRanges(ckpt), "idle") \/ ResetAttempt(<<>>, "exited")
    BY <1>3 DEF Execute
  <2>2. /\ ckpt \in Checkpoint \cup {NoCheckpoint} /\ saved' = saved
        /\ ckpt # NoCheckpoint => MinPK - 1 <= ckpt.lastPK
    BY <1>3 DEF Execute, TypeInv, TypeOK, KeysInJob
  <2>3. \A r \in 1 .. Len(JobRanges(ckpt)) : MinPK - 1 <= JobRanges(ckpt)[r].minPK
    BY <2>2, JobRangesOrdered
  <2>4. CASE ResetAttempt(<<>>, "exited")
    <3>1. 1 .. Len(<<>>) = {}
      OBVIOUS
    <3> QED BY <1>2, <2>2, <2>4, <3>1 DEF ResetAttempt
  <2>5. CASE ResetAttempt(JobRanges(ckpt), "idle")
    BY <1>2, <2>2, <2>3, <2>5 DEF ResetAttempt
  <2> QED BY <2>1, <2>4, <2>5
<1>4. ASSUME NEW r \in Readers, ReadChunk(r)
      PROVE  KeysInJob'
  <2>1. PICK last \in Remaining(r) : cuts' = [cuts EXCEPT ![r] = Append(@, last)]
    BY <1>4 DEF ReadChunk
  <2>2. Readers' = Readers /\ UNCHANGED <<ranges, saved, ck>>
    BY <1>4 DEF ReadChunk, Readers
  <2>3. /\ last \in SourcePKs /\ ReaderPos(r) < last
        /\ cuts[r] \in Seq(SourcePKs) /\ cuts \in [Readers -> Seq(SourcePKs)]
    BY DEF Remaining, Scanned, TypeInv, TypeOK
  <2>4. MinPK - 1 <= ReaderPos(r) /\ ReaderPos(r) \in Int
    <3>1. Len(cuts[r]) = 0 \/ Len(cuts[r]) \in 1 .. Len(cuts[r])
      BY <2>3
    <3>2. Len(cuts[r]) \in 0 .. Len(cuts[r])
      BY <2>3
    <3>3. ReaderPos(r) \in Int64
      BY <3>2, RangeFacts DEF ReaderPos, TypeInv
    <3>4. MinPK - 1 <= ReaderPos(r)
      BY <3>1 DEF ReaderPos, Cut, KeysInJob
    <3> QED BY <3>3, <3>4, KeysAreIntegers
  <2>5. MinPK - 1 <= last
    BY <2>3, <2>4, KeysAreIntegers
  <2>6. /\ cuts'[r] = Append(cuts[r], last)
        /\ \A x \in Readers \ {r} : cuts'[x] = cuts[x]
    BY <2>1, <2>3
  <2>7. \A k \in 1 .. Len(cuts'[r]) : MinPK - 1 <= cuts'[r][k]
    BY <2>3, <2>5, <2>6, AppendFacts DEF KeysInJob
  <2> QED BY <2>2, <2>6, <2>7 DEF KeysInJob
<1>5. ASSUME NEW r \in Readers, ReadNothing(r) \/ ReadFails(r) \/ SendChunk(r) \/ SendError(r)
      PROVE  KeysInJob'
  BY <1>1, <1>5 DEF ReadNothing, ReadFails, SendChunk, SendError
<1>6. CASE ReceiveChunk \/ ReceiveError \/ ChunksClosed \/ Submit \/ SubmitCancelled \/ Fail \/ Cancel
  BY <1>1, <1>6 DEF ReceiveChunk, ReceiveError, ChunksClosed, Submit, SubmitCancelled, Fail, Cancel
<1>7. CASE UNCHANGED vars
  BY <1>1, <1>7 DEF vars
<1>8. CASE Succeed
  <2>1. CASE ~gotChunk
    BY <1>1, <1>8, <2>1 DEF Succeed
  <2>2. CASE gotChunk
    <3>1. /\ Readers # {} /\ SaveProgress(SafeCheckpoint(ck)) /\ UNCHANGED <<ranges, cuts, ck>>
          /\ ck \in [Readers -> CkState]
      BY <1>8, <2>2 DEF Succeed, TypeInv, RefsOK, TypeOK
    <3>2. saved' # NoCheckpoint => MinPK - 1 <= saved'.lastPK
      BY <3>1, SavedInJob DEF TypeInv, KeysInJob
    <3> QED BY <3>1, <3>2 DEF KeysInJob, Readers
  <2> QED BY <2>1, <2>2 DEF TypeInv, TypeOK
<1>9. ASSUME NEW w \in Workers, WorkerStep(w)
      PROVE  KeysInJob'
  <2>1. UNCHANGED <<ranges, cuts, ck, saved>>
    BY <1>9 DEF WorkerStep, TakeJob, DropJob, JobsClosed, Write, WriteFails, CountRows,
                SendAck, SkipAck, AckCancelled
  <2> QED BY <1>1, <2>1
<1>10. CASE ReceiveAck
  <2> DEFINE ack == Head(ackChan)
  <2>1. UNCHANGED <<ranges, cuts>> /\ ackChan # <<>> /\ ackChan \in Seq(Chunks)
    BY <1>10 DEF ReceiveAck, TypeInv, TypeOK
  <2>2. ack \in Chunks /\ ValidChunk(ack)
    BY <2>1, TailFacts DEF TypeInv, RefsOK
  <2>3. CASE OnAckRound(ack)
    <3> HIDE DEF ack
    <3> QED BY <2>1, <2>2, <2>3, RoundInJob
  <2>4. CASE OnEarlyAck(ack)
    <3>1. /\ ack.reader \in Readers /\ ck \in [Readers -> CkState]
          /\ ck' = [ck EXCEPT ![ack.reader].pending = @ \cup {ack.seq}] /\ saved' = saved
      BY <2>2, <2>4, ChunkFacts DEF OnEarlyAck, TypeInv, TypeOK
    <3>2. \A x \in Readers : ck'[x].lastPK = ck[x].lastPK
      BY <3>1 DEF CkState
    <3> QED BY <2>1, <3>1, <3>2 DEF KeysInJob, Readers
  <2> QED BY <1>10, <2>3, <2>4 DEF ReceiveAck
<1>11. CASE DrainPending
  <2> DEFINE ack == [reader |-> draining, seq |-> ck[draining].nextSeq]
  <2>1. UNCHANGED <<ranges, cuts>> /\ draining # 0 /\ draining \in Readers /\ OnAckRound(ack)
    BY <1>11 DEF DrainPending, TypeInv, TypeOK
  <2>2. ack \in Chunks /\ ValidChunk(ack)
    BY <2>1 DEF TypeInv, RefsOK, Chunks, ValidChunk, TypeOK, CkState, Readers
  <2> HIDE DEF ack
  <2> QED BY <2>1, <2>2, RoundInJob
<1>12. CASE Crash
  <2>1. 1 .. Len(<<>>) = {}
    OBVIOUS
  <2> QED BY <1>2, <1>12, <2>1 DEF Crash, ResetAttempt
<1> QED BY <1>3, <1>4, <1>5, <1>6, <1>7, <1>8, <1>9, <1>10, <1>11, <1>12
        DEF Next, ReaderStep, ConsumerStep, AckStep, Terminated

\* What Execute removes before it reads belongs to the job.
LEMMA CleanKeepsOthers ==
  ASSUME TypeOK, NEW ckpt \in Checkpoint \cup {NoCheckpoint},
         ckpt # NoCheckpoint => MinPK - 1 <= ckpt.lastPK
  PROVE  target \ JobRows \subseteq CleanTarget(ckpt)
<1> SUFFICES ASSUME NEW p \in target, p \notin JobRows
             PROVE  p \in CleanTarget(ckpt)
  OBVIOUS
<1>1. p \in SourcePKs /\ p \in Int
  BY KeysAreIntegers DEF TypeOK
<1>2. Partitioned /\ (p < MinPK \/ p > MaxPK)
  BY <1>1, KeysAreIntegers, RowsAssumption DEF JobRows
<1>3. CASE ckpt = NoCheckpoint
  BY <1>2, <1>3, ConfigAssumption DEF CleanTarget
<1>4. CASE ckpt # NoCheckpoint
  <2>1. ckpt.lastPK \in Int /\ MinPK - 1 <= ckpt.lastPK
    BY <1>4, KeysAreIntegers DEF Checkpoint
  <2>2. p <= ckpt.lastPK \/ p > MaxPK
    BY <1>1, <1>2, <2>1, KeysAreIntegers
  <2> QED BY <1>2, <1>4, <2>2, ConfigAssumption DEF CleanTarget
<1> QED BY <1>3, <1>4

\* Only Execute removes rows.
LEMMA TargetGrows ==
  ASSUME [Next]_vars, ~Execute
  PROVE  target \subseteq target'
<1> USE DEF durable
<1>1. CASE \E r \in Readers : ReaderStep(r)
  BY <1>1 DEF ReaderStep, ReadChunk, ReadNothing, ReadFails, SendChunk, SendError
<1>2. CASE ConsumerStep \/ Cancel
  BY <1>2 DEF ConsumerStep, ReceiveChunk, ReceiveError, ChunksClosed, Submit,
              SubmitCancelled, Fail, Succeed, Cancel
<1>3. CASE \E w \in Workers : WorkerStep(w)
  BY <1>3 DEF WorkerStep, TakeJob, DropJob, JobsClosed, Write, WriteFails, CountRows,
              SendAck, SkipAck, AckCancelled
<1>4. CASE AckStep
  BY <1>4 DEF AckStep, ReceiveAck, DrainPending
<1>5. CASE Crash
  BY <1>5 DEF Crash
<1>6. CASE UNCHANGED vars
  BY <1>6 DEF vars
<1> QED BY <1>1, <1>2, <1>3, <1>4, <1>5, <1>6 DEF Next, Terminated

\* Whatever fails, a job of one partition leaves the rows of the others alone: those
\* it deletes, on a first attempt or a resume, and those it writes, are its own.
THEOREM PartitionsKept == Spec => OtherPartitionsKept
<1> DEFINE Inv == TypeInv /\ KeysInJob
<1>1. Init => Inv
  <2> SUFFICES ASSUME Init PROVE KeysInJob
    BY TypeInit
  <2>1. Readers = {}
    BY DEF Init, Readers
  <2> QED BY <2>1 DEF Init, KeysInJob
<1>2. Inv /\ [Next]_vars => Inv'
  BY TypeStep, InJobStep
<1>3. Inv /\ [Next]_vars => [target \ JobRows \subseteq target']_vars
  <2> SUFFICES ASSUME Inv, Next
               PROVE  target \ JobRows \subseteq target'
    OBVIOUS
  <2> USE DEF durable
  <2>1. CASE Execute
    <3>1. PICK ckpt \in {saved} \cup (IF "load" \in Faults THEN {NoCheckpoint} ELSE {}) :
            target' = CleanTarget(ckpt) \/ target' = target
      BY <2>1 DEF Execute
    <3>2. /\ ckpt \in Checkpoint \cup {NoCheckpoint}
          /\ ckpt # NoCheckpoint => MinPK - 1 <= ckpt.lastPK
      BY DEF TypeInv, TypeOK, KeysInJob
    <3> QED BY <3>1, <3>2, CleanKeepsOthers DEF TypeInv
  <2> QED BY <2>1, TargetGrows
<1> QED BY <1>1, <1>2, <1>3, PTL DEF Spec, OtherPartitionsKept

-----------------------------------------------------------------------------
(***************************************************************************)
(* Success.                                                                *)
(***************************************************************************)

\* A first attempt starts before the smallest key, when there is something to split.
LEMMA FirstRange ==
  ASSUME ParallelReaders = 1 \/ MinPK # MaxPK
  PROVE  JobRanges(NoCheckpoint)[1].minPK = MinPK - 1
<1> DEFINE lo == [isInt |-> TRUE, val |-> MinPK]
           hi == [isInt |-> TRUE, val |-> MaxPK]
<1>1. lo \in PKValue /\ hi \in PKValue
  BY KeysAreIntegers, RowsAssumption DEF PKValue
<1>2. JobRanges(NoCheckpoint) = SplitPKRange(lo, hi, ParallelReaders) /\ ParallelReaders \in Nat \ {0}
  BY ConfigAssumption DEF JobRanges
<1>3. MinPK - 1 \in Int64
  BY WrapInt64, KeysAreIntegers, RowsAssumption
<1>4. lo.val = MinPK /\ hi.val = MaxPK /\ lo.isInt /\ hi.isInt
  OBVIOUS
<1>5. MinPK <= MaxPK /\ MaxPK - MinPK < HalfWidth /\ (ParallelReaders = 1 \/ MinPK < MaxPK)
  BY RowsAssumption, KeysAreIntegers
<1> HIDE DEF lo, hi
<1>6. Consecutive(SplitPKRange(lo, hi, ParallelReaders), MinPK - 1, MaxPK)
  BY <1>1, <1>2, <1>3, <1>4, <1>5, SplitConsecutive
<1> QED BY <1>2, <1>6 DEF Consecutive

\* When no reader has anything left, every row of the job is in a chunk, or before them.
LEMMA RowInChunk ==
  ASSUME TypeOK, BaseWritten, ranges # <<>>, \A r \in Readers : Remaining(r) = {},
         NEW p \in JobRows, ~(p <= ranges[1].minPK)
  PROVE  \E r \in Readers : \E q \in 0 .. Len(cuts[r]) - 1 : p \in Rows([reader |-> r, seq |-> q])
<1>1. Readers = 1 .. Len(ranges) /\ Len(ranges) \in Nat \ {0}
  BY DEF Readers, TypeOK
<1>2. /\ p \in Int /\ p \in SourcePKs /\ p <= MaxPK
      /\ \A r \in Readers : ranges[r].minPK \in Int /\ ranges[r].maxPK \in Int
  BY KeysAreIntegers, RangeFacts DEF JobRows
<1> DEFINE T == {r \in Readers : p <= ranges[r].maxPK}
<1>3. T \subseteq Nat /\ Len(ranges) \in T
  BY <1>1, <1>2 DEF BaseWritten
<1> HIDE DEF T
<1>4. PICK m \in T : \A k \in T : m <= k
  BY <1>3, LeastNat
<1>5. m \in Readers /\ p <= ranges[m].maxPK
  BY <1>4 DEF T
<1>6. ranges[m].minPK < p
  <2>1. CASE m = 1
    BY <1>2, <1>5, <2>1
  <2>2. CASE m # 1
    <3>1. m - 1 \in Readers /\ m - 1 \in 1 .. Len(ranges) - 1 /\ ~(m <= m - 1) /\ (m - 1) + 1 = m
      BY <1>1, <1>5, <2>2
    <3>2. ~(p <= ranges[m - 1].maxPK)
      BY <1>4, <3>1 DEF T
    <3>3. ranges[m].minPK = ranges[m - 1].maxPK
      BY <3>1 DEF BaseWritten
    <3> QED BY <1>2, <1>5, <3>1, <3>2, <3>3
  <2> QED BY <2>1, <2>2
<1> DEFINE n == Len(cuts[m])
           U == {k \in 0 .. n : p <= Cut(m, k)}
<1>7. n \in Nat /\ Cut(m, 0) = ranges[m].minPK /\ \A k \in 0 .. n : Cut(m, k) \in Int
  <2>1. cuts[m] \in Seq(SourcePKs) /\ Cut(m, 0) = ranges[m].minPK
    BY <1>5, RangeFacts
  <2>2. \A k \in 0 .. n : Cut(m, k) \in Int64
    BY <1>5, RangeFacts
  <2>3. n \in Nat
    BY <2>1
  <2>4. Int64 \subseteq Int
    BY KeysAreIntegers
  <2> QED BY <2>1, <2>2, <2>3, <2>4
<1>8. p <= ReaderPos(m)
  <2>1. p \notin Remaining(m)
    BY <1>5
  <2>2. ~(ReaderPos(m) < p)
    BY <1>2, <1>5, <2>1 DEF Remaining, Scanned
  <2>3. ReaderPos(m) \in Int
    BY <1>7 DEF ReaderPos
  <2> QED BY <1>2, <2>2, <2>3
<1>9. U \subseteq Nat /\ n \in U
  BY <1>7, <1>8 DEF ReaderPos
<1> HIDE DEF U
<1>10. PICK k \in U : \A j \in U : k <= j
  BY <1>9, LeastNat
<1>11. k \in 0 .. n /\ p <= Cut(m, k)
  BY <1>10 DEF U
<1>12. k # 0
  BY <1>2, <1>5, <1>6, <1>7, <1>11
<1>13. k - 1 \in 0 .. n /\ ~(k <= k - 1) /\ (k - 1) + 1 = k /\ k - 1 \in 0 .. n - 1
  BY <1>7, <1>11, <1>12
<1>14. Cut(m, k - 1) < p
  <2>1. ~(p <= Cut(m, k - 1))
    BY <1>10, <1>13 DEF U
  <2> QED BY <1>2, <1>7, <1>13, <2>1
<1>15. p \in Rows([reader |-> m, seq |-> k - 1])
  BY <1>2, <1>11, <1>13, <1>14 DEF Rows, PrevPK, LastPK
<1> QED BY <1>5, <1>13, <1>15

LEMMA CompleteInit == Init => CompleteInv
<1> SUFFICES ASSUME Init PROVE CompleteInv
  OBVIOUS
<1>1. OrderInv
  BY OrderInit
<1>2. Readers = {} /\ pc = "idle" /\ ranges = <<>>
  BY DEF Init, Readers
<1>3. NoneLost /\ ReadersFinish
  BY <1>2 DEF Init, NoneLost, ReadersFinish, Running
<1>4. ErrorsKept /\ BaseCovered /\ SuccessMeansAllWritten
  BY <1>2 DEF Init, ErrorsKept, BaseCovered, SuccessMeansAllWritten, Running
<1> QED BY <1>1, <1>3, <1>4 DEF CompleteInv

\* How a completable job begins an attempt.
LEMMA ExecuteCompletable ==
  ASSUME Completable, OrderInv, Execute
  PROVE  /\ pc' = "loop" /\ ResetAttempt(JobRanges(saved), "idle")
         /\ JobRanges(saved) # <<>>
         /\ \A p \in JobRows : p <= JobRanges(saved)[1].minPK => p \in target'
<1>1. "minmax" \notin Faults /\ "load" \notin Faults /\ (ParallelReaders = 1 \/ MinPK # MaxPK)
  BY DEF Completable
<1>2. /\ target' = CleanTarget(saved) \/ target' = target
      /\ pc' = "loop" /\ ResetAttempt(JobRanges(saved), "idle")
  BY <1>1 DEF Execute
<1>3. saved \in Checkpoint \cup {NoCheckpoint} /\ JobRanges(saved) # <<>>
  <2>1. saved \in Checkpoint \cup {NoCheckpoint}
    BY DEF OrderInv, SafeInv, TypeOK
  <2>2. Len(JobRanges(saved)) \in Nat \ {0}
    BY <2>1, JobRangesFacts
  <2> QED BY <2>1, <2>2
<1>4. ASSUME saved = NoCheckpoint, NEW p \in JobRows, p <= JobRanges(saved)[1].minPK
      PROVE  FALSE
  BY <1>1, <1>4, FirstRange, KeysAreIntegers DEF JobRows
<1>5. ASSUME saved # NoCheckpoint, NEW p \in JobRows, p <= JobRanges(saved)[1].minPK
      PROVE  p \in target'
  <2>1. JobRanges(saved)[1].minPK = saved.lastPK
    BY <1>3, <1>5, JobRangesFacts
  <2>2. p \in target
    BY <1>5, <2>1 DEF OrderInv, SafeInv, CheckpointSafe
  <2> QED BY <1>2, <1>5, <2>1, <2>2 DEF CleanTarget
<1> QED BY <1>2, <1>3, <1>4, <1>5

\* An attempt's first range begins where the target is complete, and Execute learns
\* of whatever makes the pool give up.
LEMMA BaseStep ==
  ASSUME Completable, CompleteInv, [Next]_vars
  PROVE  BaseCovered' /\ ErrorsKept'
<1> USE DEF CompleteInv, durable, execVars, readVars, consVars, ackVars, poolVars
<1>1. CASE Execute
  <2>1. /\ pc' = "loop" /\ ResetAttempt(JobRanges(saved), "idle")
        /\ JobRanges(saved) # <<>>
        /\ \A p \in JobRows : p <= JobRanges(saved)[1].minPK => p \in target'
    BY <1>1, ExecuteCompletable
  <2> QED BY <2>1 DEF ResetAttempt, BaseCovered, ErrorsKept, JobRows
<1>2. CASE Crash
  BY <1>2 DEF Crash, ResetAttempt, BaseCovered, ErrorsKept, Running
<1>3. ASSUME ~Execute, ranges' = ranges, pc' \in Running => pc \in Running
      PROVE  BaseCovered'
  BY <1>3, TargetGrows DEF BaseCovered, JobRows
<1>4. ASSUME NEW r \in Readers, ReaderStep(r)
      PROVE  BaseCovered' /\ ErrorsKept'
  <2>1. UNCHANGED <<ranges, pc, target, loopErr, writeErr, wpCancelled, ctxDone>>
    BY <1>4 DEF ReaderStep, ReadChunk, ReadNothing, ReadFails, SendChunk, SendError
  <2> QED BY <2>1 DEF BaseCovered, ErrorsKept, JobRows
<1>5. CASE ReceiveChunk \/ ReceiveError \/ ChunksClosed \/ Submit \/ SubmitCancelled
  <2>1. ranges' = ranges /\ pc \in Running /\ ~Execute
    BY <1>5 DEF ReceiveChunk, ReceiveError, ChunksClosed, Submit, SubmitCancelled, Execute,
                Running, Stopped
  <2>2. ErrorsKept'
    BY <1>5 DEF ReceiveChunk, ReceiveError, ChunksClosed, Submit, SubmitCancelled, ErrorsKept, WpDone
  <2> QED BY <1>3, <2>1, <2>2
<1>6. CASE Fail \/ Succeed
  <2>1. ranges' = ranges /\ pc \in Running /\ ~Execute
    BY <1>6 DEF Fail, Succeed, PoolDrained, Execute, Running, Stopped
  <2>2. ErrorsKept'
    BY <1>6 DEF Fail, Succeed, ErrorsKept
  <2> QED BY <1>3, <2>1, <2>2
<1>7. ASSUME NEW w \in Workers, WorkerStep(w)
      PROVE  BaseCovered' /\ ErrorsKept'
  <2>1. /\ ranges' = ranges /\ pc' = pc /\ loopErr' = loopErr /\ ctxDone' = ctxDone
        /\ wpCancelled' = wpCancelled \/ writeErr'
        /\ writeErr => writeErr'
    BY <1>7 DEF WorkerStep, TakeJob, DropJob, JobsClosed, Write, WriteFails, CountRows,
                SendAck, SkipAck, AckCancelled
  <2>2. ErrorsKept'
    BY <2>1 DEF ErrorsKept
  <2>3. target \subseteq target'
    BY <1>7 DEF WorkerStep, TakeJob, DropJob, JobsClosed, Write, WriteFails, CountRows,
                SendAck, SkipAck, AckCancelled
  <2> QED BY <2>1, <2>2, <2>3 DEF BaseCovered, JobRows
<1>8. CASE AckStep
  BY <1>8 DEF AckStep, ReceiveAck, DrainPending, BaseCovered, ErrorsKept, JobRows
<1>9. CASE Cancel
  BY <1>9 DEF Cancel, Completable
<1>10. CASE UNCHANGED vars
  BY <1>10 DEF vars, BaseCovered, ErrorsKept, JobRows
<1> QED BY <1>1, <1>2, <1>4, <1>5, <1>6, <1>7, <1>8, <1>9, <1>10
        DEF Next, ConsumerStep, Terminated

\* A step that reads nothing leaves the chunks and what is left to read as they are.
LEMMA ChunksStable ==
  ASSUME UNCHANGED <<ranges, cuts>>
  PROVE  /\ Readers' = Readers
         /\ \A r : Remaining(r)' = Remaining(r)
         /\ \A c : Rows(c)' = Rows(c) /\ (ValidChunk(c)' <=> ValidChunk(c))
BY DEF Readers, Remaining, ReaderPos, Rows, PrevPK, LastPK, Cut, ValidChunk

\* What a reader has just read: the rows from its position up to the page's last.
LEMMA ReadFacts ==
  ASSUME TypeOK, NEW r \in Readers, ReadChunk(r), NEW n, n = Len(cuts[r])
  PROVE  /\ Readers' = Readers
         /\ n \in Nat /\ Len(cuts'[r]) = n + 1
         /\ \A x \in Readers \ {r} : cuts'[x] = cuts[x]
         /\ \A x \in Readers : \A k \in 0 .. Len(cuts[x]) : Cut(x, k)' = Cut(x, k)
         /\ Cut(r, n)' < Cut(r, n + 1)' /\ Cut(r, n + 1)' <= ranges[r].maxPK
         /\ LET c == [reader |-> r, seq |-> n]
            IN /\ Cardinality(Rows(c)') < ChunkSize => Remaining(r)' = {}
               /\ Rows(c)' \subseteq Remaining(r)
<1>1. PICK last \in Remaining(r) :
        LET page == {p \in Remaining(r) : p <= last}
        IN /\ Cardinality(page) = ChunkSize \/ page = Remaining(r)
           /\ cuts' = [cuts EXCEPT ![r] = Append(@, last)]
  BY DEF ReadChunk
<1>2. Readers' = Readers /\ ranges' = ranges
  BY DEF ReadChunk, Readers, execVars
<1>3. /\ last \in SourcePKs /\ ReaderPos(r) < last /\ last <= ranges[r].maxPK
      /\ cuts[r] \in Seq(SourcePKs) /\ cuts \in [Readers -> Seq(SourcePKs)]
  BY DEF Remaining, Scanned, TypeOK
<1>4. /\ cuts'[r] = Append(cuts[r], last)
      /\ \A x \in Readers \ {r} : cuts'[x] = cuts[x]
  BY <1>1, <1>3
<1>5. /\ n \in Nat /\ Len(cuts'[r]) = n + 1 /\ cuts'[r][n + 1] = last
      /\ \A k \in 1 .. n : cuts'[r][k] = cuts[r][k]
  BY <1>3, <1>4, AppendFacts
<1>6. ASSUME NEW x \in Readers, NEW k \in 0 .. Len(cuts[x])
      PROVE  Cut(x, k)' = Cut(x, k)
  <2>1. Len(cuts[x]) \in Nat
    <3>1. cuts[x] \in Seq(SourcePKs)
      BY <1>3
    <3> QED BY <3>1
  <2>2. k = 0 \/ k \in 1 .. Len(cuts[x])
    BY <2>1
  <2>3. k # 0 => cuts'[x][k] = cuts[x][k]
    BY <1>4, <1>5, <2>2
  <2> QED BY <1>2, <2>3 DEF Cut
<1> DEFINE c == [reader |-> r, seq |-> n]
<1>7. /\ PrevPK(c)' = ReaderPos(r) /\ LastPK(c)' = last
      /\ ReaderPos(r)' = last /\ Cut(r, n)' = ReaderPos(r) /\ Cut(r, n + 1)' = last
  <2>1. n \in 0 .. Len(cuts[r]) /\ n + 1 # 0
    BY <1>5
  <2>2. Cut(r, n)' = ReaderPos(r)
    BY <1>6, <2>1 DEF ReaderPos
  <2>3. Cut(r, n + 1)' = last
    BY <1>5, <2>1 DEF Cut
  <2>4. ReaderPos(r)' = last
    BY <1>5, <2>1 DEF ReaderPos, Cut
  <2> QED BY <2>2, <2>3, <2>4 DEF PrevPK, LastPK
<1>8. Rows(c)' = {p \in SourcePKs : ReaderPos(r) < p /\ p <= last}
  BY <1>7 DEF Rows
<1>9. Remaining(r)' = {p \in SourcePKs : last < p /\ p <= ranges[r].maxPK}
  BY <1>2, <1>7 DEF Remaining, Scanned
<1>10. SourcePKs \subseteq Int /\ last \in Int /\ ranges[r].maxPK \in Int /\ ReaderPos(r) \in Int
  <2>1. ranges[r].maxPK \in Int64 /\ ReaderPos(r) \in Int64
    BY <1>5, RangeFacts DEF ReaderPos
  <2> QED BY <1>3, <2>1, KeysAreIntegers
<1>11. Rows(c)' = {p \in Remaining(r) : p <= last}
  <2>1. Remaining(r) = {p \in SourcePKs : ReaderPos(r) < p /\ p <= ranges[r].maxPK}
    BY DEF Remaining, Scanned
  <2>2. last <= ranges[r].maxPK
    BY <1>3, <2>1
  <2> HIDE DEF c
  <2>3. ASSUME NEW p \in SourcePKs
        PROVE  ReaderPos(r) < p /\ p <= last
               <=> (ReaderPos(r) < p /\ p <= ranges[r].maxPK) /\ p <= last
    BY <1>10, <2>2
  <2> QED BY <1>8, <2>1, <2>3
<1>12. ASSUME Cardinality(Rows(c)') < ChunkSize PROVE Remaining(r)' = {}
  <2>1. ChunkSize \in Nat
    BY ConfigAssumption
  <2>2. {p \in Remaining(r) : p <= last} = Remaining(r)
    <3> DEFINE page == {p \in Remaining(r) : p <= last}
    <3>1. Cardinality(page) = ChunkSize \/ page = Remaining(r)
      BY <1>1
    <3>2. Cardinality(page) < ChunkSize
      BY <1>11, <1>12
    <3> HIDE DEF page
    <3>3. page = Remaining(r)
      BY <2>1, <3>1, <3>2
    <3> QED BY <3>3 DEF page
  <2>3. Remaining(r) = {p \in SourcePKs : ReaderPos(r) < p /\ p <= ranges[r].maxPK}
    BY DEF Remaining, Scanned
  <2>4. ASSUME NEW p \in SourcePKs, last < p, p <= ranges[r].maxPK
        PROVE  FALSE
    <3>1. p \in Remaining(r)
      BY <1>3, <1>10, <2>3, <2>4
    <3> QED BY <1>10, <2>2, <2>4, <3>1
  <2> QED BY <1>9, <2>4
<1>13. Cut(r, n)' < Cut(r, n + 1)' /\ Cut(r, n + 1)' <= ranges[r].maxPK
  BY <1>3, <1>7
<1> QED BY <1>2, <1>4, <1>5, <1>6, <1>11, <1>12, <1>13

\* A reader is done only when its range is read, or after an error that Execute sees.
LEMMA FinishStep ==
  ASSUME Completable, CompleteInv, [Next]_vars
  PROVE  ReadersFinish'
<1> DEFINE Short(x) == Cardinality(Rows([reader |-> x, seq |-> Len(cuts[x]) - 1])) < ChunkSize
           Ends(x) == /\ reader[x] = "send" /\ Short(x) => Remaining(x) = {}
                      /\ reader[x] = "done" => Remaining(x) = {} \/ ErrorInFlight \/ loopErr
           AllDone == chunkChan = <<>> /\ \A r \in Readers : reader[r] = "done"
<1> USE DEF CompleteInv, execVars, readVars, consVars, ackVars, poolVars
<1>1. /\ TypeOK /\ \A x \in Readers : Ends(x)
      /\ pc = "wait" /\ ~WpDone => AllDone
  BY DEF OrderInv, SafeInv, ReadersFinish
<1>2. ASSUME \A x \in Readers' : Ends(x)', pc' = "wait" /\ ~WpDone' => AllDone'
      PROVE  ReadersFinish'
  BY <1>2 DEF ReadersFinish
<1>3. CASE Execute
  <2>1. pc' = "loop" /\ \A x \in Readers' : reader'[x] = "read"
    BY <1>3, ExecuteCompletable DEF ResetAttempt, Readers
  <2> QED BY <1>2, <2>1
<1>4. CASE Crash
  <2>1. pc' = "crashed" /\ Readers' = {}
    BY <1>4 DEF Crash, ResetAttempt, Readers
  <2> QED BY <1>2, <2>1
<1>6. ASSUME NEW r \in Readers, ReadChunk(r)
      PROVE  ReadersFinish'
  <2>1. /\ reader[r] = "read" /\ reader' = [reader EXCEPT ![r] = "send"]
        /\ UNCHANGED <<ranges, chunkChan, loopErr, pc, wpCancelled, ctxDone>>
    BY <1>6 DEF ReadChunk
  <2>2. /\ Readers' = Readers /\ reader'[r] = "send"
        /\ \A x \in Readers \ {r} : reader'[x] = reader[x] /\ cuts'[x] = cuts[x]
    BY <1>1, <1>6, <2>1, ReadFacts DEF TypeOK
  <2>3. Ends(r)'
    <3>1. PICK n : n = Len(cuts[r])
      OBVIOUS
    <3>2. /\ n \in Nat /\ Len(cuts'[r]) = n + 1
          /\ Cardinality(Rows([reader |-> r, seq |-> n])') < ChunkSize => Remaining(r)' = {}
      BY <1>1, <1>6, <3>1, ReadFacts
    <3>3. Len(cuts'[r]) - 1 = n
      BY <3>2
    <3> QED BY <2>2, <3>2, <3>3
  <2>4. ASSUME NEW x \in Readers \ {r} PROVE Ends(x)'
    <3>1. /\ Remaining(x)' = Remaining(x) /\ Len(cuts'[x]) = Len(cuts[x])
          /\ Rows([reader |-> x, seq |-> Len(cuts[x]) - 1])' = Rows([reader |-> x, seq |-> Len(cuts[x]) - 1])
      BY <2>1, <2>2, <2>4 DEF Remaining, ReaderPos, Rows, PrevPK, LastPK, Cut
    <3>2. Ends(x)
      BY <1>1, <2>4
    <3> QED BY <2>1, <2>2, <2>4, <3>1, <3>2 DEF ErrorInFlight
  <2>5. ~(pc = "wait" /\ ~WpDone)
    BY <1>1, <2>1
  <2> QED BY <1>2, <2>1, <2>2, <2>3, <2>4, <2>5 DEF WpDone
<1>7. ASSUME NEW r \in Readers, ReadNothing(r) \/ ReadFails(r)
      PROVE  ReadersFinish'
  <2>1. /\ UNCHANGED <<ranges, cuts, chunkChan, loopErr, pc, wpCancelled, ctxDone>>
        /\ reader[r] = "read"
    BY <1>7 DEF ReadNothing, ReadFails
  <2>2. /\ \A x \in Readers \ {r} : reader'[x] = reader[x]
        /\ reader'[r] = "fail" \/ (reader'[r] = "done" /\ Remaining(r) = {})
    BY <1>1, <1>7 DEF ReadNothing, ReadFails, TypeOK
  <2>3. Readers' = Readers /\ \A x \in Readers : Ends(x)'
    BY <1>1, <2>1, <2>2, ChunksStable DEF ErrorInFlight
  <2> QED BY <1>1, <1>2, <2>1, <2>3 DEF WpDone
<1>8. ASSUME NEW r \in Readers, SendChunk(r) \/ SendError(r)
      PROVE  ReadersFinish'
  <2>1. /\ UNCHANGED <<ranges, cuts, loopErr, pc, wpCancelled, ctxDone>>
        /\ reader[r] \in {"send", "fail"} /\ chunkChan \in Seq(Chunks) /\ NoChunk \in Chunks
    BY <1>1, <1>8 DEF SendChunk, SendError, TypeOK, NoChunk, Chunks
  <2>2. /\ \A x \in Readers \ {r} : reader'[x] = reader[x]
        /\ \/ SendChunk(r) /\ reader'[r] = "read"
           \/ SendChunk(r) /\ reader'[r] = "done" /\ Remaining(r) = {}
           \/ SendError(r) /\ reader'[r] = "done"
    BY <1>1, <1>8 DEF SendChunk, SendError, TypeOK
  <2>3. PICK c \in Chunks : chunkChan' = Append(chunkChan, c) /\ (SendError(r) => c = NoChunk)
    <3>1. CASE SendError(r)
      BY <2>1, <3>1 DEF SendError
    <3>2. CASE ~SendError(r)
      <4>1. cuts[r] # <<>> /\ cuts[r] \in Seq(SourcePKs)
        BY <1>1, <1>8, <3>2 DEF SendChunk, OrderInv, SafeInv, RefsOK, TypeOK
      <4>2. Len(cuts[r]) - 1 \in Nat /\ r \in Nat
        BY <4>1 DEF Readers
      <4> QED BY <1>8, <3>2, <4>2 DEF SendChunk, Chunks
    <3> QED BY <3>1, <3>2
  <2>4. /\ ErrorInFlight => ErrorInFlight'
        /\ SendError(r) => ErrorInFlight'
    <3>1. /\ Len(chunkChan) \in Nat /\ Len(chunkChan') = Len(chunkChan) + 1
          /\ chunkChan'[Len(chunkChan) + 1] = c
          /\ \A i \in 1 .. Len(chunkChan) : chunkChan'[i] = chunkChan[i]
      BY <2>1, <2>3, AppendFacts
    <3> QED BY <2>3, <3>1 DEF ErrorInFlight
  <2>5. Readers' = Readers /\ \A x \in Readers : Ends(x)'
    BY <1>1, <2>1, <2>2, <2>4, ChunksStable
  <2>6. ~(pc = "wait" /\ ~WpDone)
    BY <1>1, <2>1
  <2> QED BY <1>2, <2>1, <2>5, <2>6 DEF WpDone
<1>9. CASE ReceiveChunk \/ ReceiveError
  <2>1. /\ UNCHANGED <<ranges, cuts, reader>> /\ pc = "loop" /\ ~loopErr
        /\ chunkChan # <<>> /\ chunkChan' = Tail(chunkChan) /\ chunkChan \in Seq(Chunks)
    BY <1>1, <1>9 DEF ReceiveChunk, ReceiveError, TypeOK, ErrorsKept
  <2>2. ErrorInFlight => ErrorInFlight' \/ loopErr'
    <3>1. CASE ReceiveError
      BY <3>1 DEF ReceiveError
    <3>2. CASE ReceiveChunk
      <4>1. chunkChan[1] # NoChunk
        BY <2>1, <3>2, TailFacts DEF ReceiveChunk
      <4>2. ASSUME NEW i \in 1 .. Len(chunkChan), chunkChan[i] = NoChunk
            PROVE  i - 1 \in 1 .. Len(chunkChan') /\ chunkChan'[i - 1] = NoChunk
        <5>1. i - 1 \in 1 .. Len(chunkChan')
          BY <2>1, <4>1, <4>2, TailFacts
        <5> QED BY <2>1, <4>2, <5>1, TailFacts
      <4> QED BY <4>2 DEF ErrorInFlight
    <3> QED BY <1>9, <3>1, <3>2
  <2>3. Readers' = Readers /\ \A x \in Readers : Ends(x)'
    BY <1>1, <2>1, <2>2, ChunksStable
  <2>4. pc' = "submit" \/ WpDone'
    BY <1>9 DEF ReceiveChunk, ReceiveError, WpDone
  <2> QED BY <1>2, <2>3, <2>4
<1>10. CASE ChunksClosed \/ Submit \/ SubmitCancelled \/ Fail \/ Succeed
  <2>1. /\ UNCHANGED <<ranges, cuts, reader, chunkChan, wpCancelled, ctxDone>>
        /\ loopErr => loopErr'
    BY <1>10 DEF ChunksClosed, Submit, SubmitCancelled, Fail, Succeed, ErrorsKept
  <2>2. Readers' = Readers /\ \A x \in Readers : Ends(x)'
    BY <1>1, <2>1, ChunksStable DEF ErrorInFlight
  <2>3. pc' # "wait" \/ WpDone' \/ AllDone
    BY <1>10 DEF ChunksClosed, Submit, SubmitCancelled, Fail, Succeed, WpDone
  <2> QED BY <1>2, <2>1, <2>2, <2>3
<1>11. ASSUME NEW w \in Workers, WorkerStep(w)
      PROVE  ReadersFinish'
  <2>1. UNCHANGED <<ranges, cuts, reader, chunkChan, loopErr, pc>>
    BY <1>11 DEF WorkerStep, TakeJob, DropJob, JobsClosed, Write, WriteFails, CountRows,
                 SendAck, SkipAck, AckCancelled
  <2>2. ctxDone' = ctxDone /\ (wpCancelled => wpCancelled')
    BY <1>11 DEF WorkerStep, TakeJob, DropJob, JobsClosed, Write, WriteFails, CountRows,
                 SendAck, SkipAck, AckCancelled
  <2>3. Readers' = Readers /\ \A x \in Readers : Ends(x)'
    BY <1>1, <2>1, ChunksStable DEF ErrorInFlight
  <2> QED BY <1>1, <1>2, <2>1, <2>2, <2>3 DEF WpDone
<1>12. CASE AckStep \/ UNCHANGED vars
  <2>1. UNCHANGED <<ranges, cuts, reader, chunkChan, loopErr, pc, wpCancelled, ctxDone>>
    BY <1>12 DEF AckStep, ReceiveAck, DrainPending, vars
  <2>2. Readers' = Readers /\ \A x \in Readers : Ends(x)'
    BY <1>1, <2>1, ChunksStable DEF ErrorInFlight
  <2> QED BY <1>1, <1>2, <2>1, <2>2 DEF WpDone
<1>13. CASE Cancel
  BY <1>13 DEF Cancel, Completable
<1> QED BY <1>3, <1>4, <1>6, <1>7, <1>8, <1>9, <1>10, <1>11, <1>12, <1>13
        DEF Next, ReaderStep, ConsumerStep, Terminated

\* Unless something is cancelled, a chunk stays under way until it is in the target.
LEMMA LostStep ==
  ASSUME Completable, CompleteInv, [Next]_vars
  PROVE  NoneLost'
<1> DEFINE Queued == \A w \in Workers : worker[w].st = "exited" /\ pc \in Running =>
                       pc = "wait" /\ jobChan = <<>>
<1> USE DEF CompleteInv, execVars, readVars, consVars, ackVars, poolVars
<1>1. /\ TypeOK /\ RefsOK /\ Readers \subseteq Nat
      /\ ~WpDone => Queued
      /\ ~WpDone => \A c \in Chunks : ValidChunk(c) => InFlight(c) \/ Written(c)
  <2>1. TypeOK /\ RefsOK /\ Readers \subseteq Nat
    BY DEF OrderInv, SafeInv, Readers
  <2>2. ASSUME ~WpDone, NEW c \in Chunks, ValidChunk(c)
        PROVE  InFlight(c) \/ Written(c)
    <3>1. c.reader \in Readers /\ c.seq \in 0 .. Len(cuts[c.reader]) - 1
      <4>1. c.reader \in Readers /\ c.seq \in Nat /\ c.seq + 1 \in 1 .. Len(cuts[c.reader])
        BY <2>1, <2>2, ChunkFacts
      <4>2. Len(cuts[c.reader]) \in Nat
        <5>1. cuts[c.reader] \in Seq(SourcePKs)
          BY <2>1, <4>1 DEF TypeOK
        <5> QED BY <5>1
      <4> QED BY <4>1, <4>2
    <3>2. c = [reader |-> c.reader, seq |-> c.seq]
      BY DEF Chunks
    <3> QED BY <2>2, <3>1, <3>2 DEF NoneLost
  <2> QED BY <2>1, <2>2 DEF NoneLost
<1>2. ASSUME ~WpDone' => /\ Queued'
                         /\ \A c \in Chunks : ValidChunk(c)' => InFlight(c)' \/ Written(c)'
      PROVE  NoneLost'
  <2> SUFFICES ASSUME ~WpDone', NEW r \in Readers', NEW q \in 0 .. Len(cuts'[r]) - 1
               PROVE  InFlight([reader |-> r, seq |-> q])' \/ Written([reader |-> r, seq |-> q])'
    BY <1>2 DEF NoneLost
  <2>1. TypeOK'
    BY OrderStep DEF OrderInv, SafeInv, Completable
  <2>2. r \in Nat /\ cuts'[r] \in Seq(SourcePKs)
    <3>1. cuts' \in [Readers' -> Seq(SourcePKs)]
      BY <2>1 DEF TypeOK
    <3>2. r \in Nat
      BY DEF Readers
    <3> QED BY <3>1, <3>2
  <2>3. Len(cuts'[r]) \in Nat
    BY <2>2
  <2>4. q \in Nat /\ q < Len(cuts'[r])
    BY <2>3
  <2>5. [reader |-> r, seq |-> q] \in Chunks /\ ValidChunk([reader |-> r, seq |-> q])'
    BY <2>2, <2>4 DEF Chunks, ValidChunk
  <2> QED BY <1>2, <2>5
<1>3. ASSUME UNCHANGED <<ranges, cuts>>, target \subseteq target',
             ~WpDone' => ~WpDone,
             ~WpDone /\ ~WpDone' =>
               Queued' /\ \A c \in Chunks : ValidChunk(c) /\ InFlight(c) => InFlight(c)' \/ Written(c)'
      PROVE  NoneLost'
  <2>1. \A c : Written(c) => Written(c)'
    BY <1>3, ChunksStable DEF Written
  <2>2. \A c : ValidChunk(c)' <=> ValidChunk(c)
    BY <1>3, ChunksStable
  <2>3. ASSUME ~WpDone', NEW c \in Chunks, ValidChunk(c)'
        PROVE  InFlight(c)' \/ Written(c)'
    <3>1. ~WpDone /\ ValidChunk(c)
      BY <1>3, <2>2, <2>3
    <3>2. InFlight(c) \/ Written(c)
      BY <1>1, <3>1
    <3>3. InFlight(c) => InFlight(c)' \/ Written(c)'
      BY <1>3, <2>3, <3>1
    <3> QED BY <2>1, <3>2, <3>3
  <2> QED BY <1>2, <1>3, <2>3
<1>4. CASE Execute
  <2>1. pc' = "loop" /\ ResetAttempt(JobRanges(saved), "idle")
    BY <1>4, ExecuteCompletable
  <2>2. Queued'
    BY <2>1 DEF ResetAttempt
  <2>3. \A c \in Chunks : ~ValidChunk(c)'
    <3> SUFFICES ASSUME NEW c \in Chunks, c.reader \in Readers', c.seq < Len(cuts'[c.reader])
                 PROVE  FALSE
      BY DEF ValidChunk
    <3>1. cuts'[c.reader] = <<>> /\ c.seq \in Nat
      BY <2>1 DEF ResetAttempt, Readers, Chunks
    <3> QED BY <3>1
  <2> QED BY <1>2, <2>2, <2>3
<1>5. CASE Crash
  <2>1. pc' = "crashed" /\ Readers' = {}
    BY <1>5 DEF Crash, ResetAttempt, Readers
  <2> QED BY <1>2, <2>1 DEF ValidChunk, Running
<1>6. ASSUME NEW r \in Readers, ReadChunk(r)
      PROVE  NoneLost'
  <2>1. /\ reader[r] = "read" /\ reader' = [reader EXCEPT ![r] = "send"]
        /\ UNCHANGED <<ranges, target, chunkChan, pc, inHand, jobChan, worker, wpCancelled, ctxDone>>
    BY <1>6 DEF ReadChunk, durable
  <2>2. PICK n : n = Len(cuts[r])
    OBVIOUS
  <2>3. /\ Readers' = Readers /\ n \in Nat /\ Len(cuts'[r]) = n + 1 /\ reader'[r] = "send"
        /\ \A x \in Readers \ {r} : cuts'[x] = cuts[x] /\ reader'[x] = reader[x]
        /\ \A x \in Readers : \A k \in 0 .. Len(cuts[x]) : Cut(x, k)' = Cut(x, k)
    BY <1>1, <1>6, <2>1, <2>2, ReadFacts DEF TypeOK
  <2>4. ASSUME ~WpDone', NEW c \in Chunks, ValidChunk(c)'
        PROVE  InFlight(c)' \/ Written(c)'
    <3>1. c.reader \in Readers /\ c.seq \in Nat /\ c.seq < Len(cuts'[c.reader])
      BY <2>3, <2>4 DEF ValidChunk, Chunks
    <3>2. CASE ValidChunk(c)
      <4>1. InFlight(c) \/ Written(c)
        BY <1>1, <2>1, <2>4, <3>2 DEF WpDone
      <4>2. ASSUME Written(c) PROVE Written(c)'
        <5>1. c.seq + 1 \in 1 .. Len(cuts[c.reader])
          BY <1>1, <3>2, ChunkFacts
        <5>2. c.seq \in 0 .. Len(cuts[c.reader]) /\ c.seq + 1 \in 0 .. Len(cuts[c.reader])
          BY <3>1, <5>1
        <5>3. PrevPK(c)' = PrevPK(c) /\ LastPK(c)' = LastPK(c)
          BY <2>3, <3>1, <5>2 DEF PrevPK, LastPK
        <5> QED BY <2>1, <4>2, <5>3 DEF Written, Rows
      <4>3. ASSUME InFlight(c) PROVE InFlight(c)'
        <5>1. CASE reader[c.reader] = "send" /\ c.seq = Len(cuts[c.reader]) - 1
          <6>1. c.reader # r
            BY <2>1, <5>1
          <6> QED BY <2>3, <3>1, <5>1, <6>1 DEF InFlight
        <5>2. CASE ~(reader[c.reader] = "send" /\ c.seq = Len(cuts[c.reader]) - 1)
          BY <2>1, <4>3, <5>2 DEF InFlight
        <5> QED BY <5>1, <5>2
      <4> QED BY <4>1, <4>2, <4>3
    <3>3. CASE ~ValidChunk(c)
      <4>1. c.reader = r /\ ~(c.seq < n)
        BY <2>2, <2>3, <3>1, <3>3 DEF ValidChunk
      <4>2. c.seq = Len(cuts'[r]) - 1
        BY <2>3, <3>1, <4>1
      <4> QED BY <2>3, <4>1, <4>2 DEF InFlight
    <3> QED BY <3>2, <3>3
  <2>5. ~WpDone' => Queued'
    BY <1>1, <2>1 DEF WpDone
  <2> QED BY <1>2, <2>4, <2>5
<1>7. ASSUME NEW r \in Readers, ReadNothing(r) \/ ReadFails(r)
      PROVE  NoneLost'
  <2>1. /\ UNCHANGED <<ranges, cuts, target, chunkChan, pc, inHand, jobChan, worker, wpCancelled, ctxDone>>
        /\ reader[r] = "read" /\ \A x \in Readers \ {r} : reader'[x] = reader[x]
    BY <1>1, <1>7 DEF ReadNothing, ReadFails, durable, TypeOK
  <2>2. ASSUME NEW c \in Chunks, ValidChunk(c), InFlight(c) PROVE InFlight(c)'
    <3>1. CASE reader[c.reader] = "send" /\ c.seq = Len(cuts[c.reader]) - 1
      BY <2>1, <2>2, <3>1 DEF InFlight, ValidChunk
    <3>2. CASE ~(reader[c.reader] = "send" /\ c.seq = Len(cuts[c.reader]) - 1)
      BY <2>1, <2>2, <3>2 DEF InFlight
    <3> QED BY <3>1, <3>2
  <2> QED BY <1>1, <1>3, <2>1, <2>2 DEF WpDone
<1>8. ASSUME NEW r \in Readers, SendChunk(r) \/ SendError(r)
      PROVE  NoneLost'
  <2>1. /\ UNCHANGED <<ranges, cuts, target, pc, inHand, jobChan, worker, wpCancelled, ctxDone>>
        /\ \A x \in Readers \ {r} : reader'[x] = reader[x]
        /\ chunkChan \in Seq(Chunks)
    BY <1>1, <1>8 DEF SendChunk, SendError, durable, TypeOK
  <2>2. PICK d \in Chunks : /\ chunkChan' = Append(chunkChan, d)
                            /\ reader[r] = "send" => d = [reader |-> r, seq |-> Len(cuts[r]) - 1]
    <3>1. CASE SendError(r)
      BY <3>1 DEF SendError, NoChunk, Chunks
    <3>2. CASE SendChunk(r)
      <4>1. cuts[r] # <<>> /\ cuts[r] \in Seq(SourcePKs)
        BY <1>1, <3>2 DEF SendChunk, RefsOK, TypeOK
      <4>2. Len(cuts[r]) - 1 \in Nat /\ r \in Nat
        BY <4>1 DEF Readers
      <4> QED BY <3>2, <4>2 DEF SendChunk, Chunks
    <3> QED BY <1>8, <3>1, <3>2
  <2>3. /\ \A i \in 1 .. Len(chunkChan) : \E j \in 1 .. Len(chunkChan') : chunkChan'[j] = chunkChan[i]
        /\ \E j \in 1 .. Len(chunkChan') : chunkChan'[j] = d
    BY <2>1, <2>2, InAppend
  <2>4. ASSUME NEW c \in Chunks, ValidChunk(c), InFlight(c) PROVE InFlight(c)'
    <3>1. CASE reader[c.reader] = "send" /\ c.seq = Len(cuts[c.reader]) - 1 /\ c.reader = r
      <4>1. c = [reader |-> r, seq |-> Len(cuts[r]) - 1]
        BY <3>1 DEF Chunks
      <4> QED BY <2>2, <2>3, <3>1, <4>1 DEF InFlight
    <3>2. CASE reader[c.reader] = "send" /\ c.seq = Len(cuts[c.reader]) - 1 /\ c.reader # r
      BY <2>1, <2>4, <3>2 DEF InFlight, ValidChunk
    <3>3. CASE \E i \in 1 .. Len(chunkChan) : chunkChan[i] = c
      BY <2>3, <3>3 DEF InFlight
    <3>4. CASE \/ pc = "submit" /\ inHand = c
               \/ \E i \in 1 .. Len(jobChan) : jobChan[i] = c
               \/ \E w \in Workers : worker[w].st = "write" /\ worker[w].job = c
      BY <2>1, <3>4 DEF InFlight
    <3> QED BY <2>4, <3>1, <3>2, <3>3, <3>4 DEF InFlight
  <2> QED BY <1>1, <1>3, <2>1, <2>4 DEF WpDone
<1>9. CASE ReceiveChunk
  <2>1. /\ UNCHANGED <<ranges, cuts, target, reader, jobChan, worker, wpCancelled, ctxDone>>
        /\ pc = "loop" /\ pc' = "submit" /\ inHand' = Head(chunkChan)
        /\ chunkChan # <<>> /\ chunkChan \in Seq(Chunks) /\ chunkChan' = Tail(chunkChan)
    BY <1>1, <1>9 DEF ReceiveChunk, durable, TypeOK
  <2>2. ASSUME NEW c \in Chunks, ValidChunk(c), InFlight(c) PROVE InFlight(c)'
    <3>1. CASE \E i \in 1 .. Len(chunkChan) : chunkChan[i] = c
      <4>1. c = Head(chunkChan) \/ \E j \in 1 .. Len(chunkChan') : chunkChan'[j] = c
        BY <2>1, <3>1, InTail
      <4> QED BY <2>1, <4>1 DEF InFlight
    <3>2. CASE ~(\E i \in 1 .. Len(chunkChan) : chunkChan[i] = c)
      BY <2>1, <2>2, <3>2 DEF InFlight
    <3> QED BY <3>1, <3>2
  <2>3. ~WpDone => Queued'
    BY <1>1, <2>1 DEF Running
  <2> QED BY <1>3, <2>1, <2>2, <2>3 DEF WpDone
<1>10. CASE ReceiveError \/ SubmitCancelled
  <2>1. WpDone'
    BY <1>10 DEF ReceiveError, SubmitCancelled, WpDone
  <2> QED BY <1>2, <2>1
<1>11. CASE ChunksClosed \/ Fail \/ Succeed
  <2>1. /\ UNCHANGED <<ranges, cuts, target, reader, inHand, chunkChan, jobChan, worker, wpCancelled, ctxDone>>
        /\ pc # "submit" /\ (pc' \in Running => pc' = "wait" /\ pc = "loop")
    BY <1>11 DEF ChunksClosed, Fail, Succeed, PoolDrained, durable, Running
  <2>2. \A c \in Chunks : InFlight(c) => InFlight(c)'
    BY <2>1 DEF InFlight
  <2>3. ~WpDone => Queued'
    BY <1>1, <2>1 DEF Running
  <2> QED BY <1>3, <2>1, <2>2, <2>3 DEF WpDone
<1>12. CASE Submit
  <2>1. /\ UNCHANGED <<ranges, cuts, target, reader, chunkChan, worker, wpCancelled, ctxDone>>
        /\ pc = "submit" /\ pc' = "loop" /\ inHand \in Chunks
        /\ jobChan \in Seq(Chunks) /\ jobChan' = Append(jobChan, inHand)
    BY <1>1, <1>12 DEF Submit, durable, TypeOK
  <2>2. /\ \A i \in 1 .. Len(jobChan) : \E j \in 1 .. Len(jobChan') : jobChan'[j] = jobChan[i]
        /\ \E j \in 1 .. Len(jobChan') : jobChan'[j] = inHand
    <3>1. PICK d \in Chunks : d = inHand
      BY <2>1
    <3>2. jobChan' = Append(jobChan, d) /\ jobChan \in Seq(Chunks)
      BY <2>1, <3>1
    <3>3. /\ \A i \in 1 .. Len(jobChan) : \E j \in 1 .. Len(jobChan') : jobChan'[j] = jobChan[i]
          /\ \E j \in 1 .. Len(jobChan') : jobChan'[j] = d
      BY <3>2, InAppend
    <3> QED BY <3>1, <3>3
  <2>3. \A c \in Chunks : InFlight(c) => InFlight(c)'
    BY <2>1, <2>2 DEF InFlight
  <2>4. ~WpDone => Queued'
    BY <1>1, <2>1 DEF Running
  <2> QED BY <1>3, <2>1, <2>3, <2>4 DEF WpDone
<1>13. ASSUME NEW w \in Workers, WorkerStep(w)
      PROVE  NoneLost'
  <2>1. /\ UNCHANGED <<ranges, cuts, reader, chunkChan, pc, inHand, ctxDone>>
        /\ target \subseteq target' /\ (wpCancelled => wpCancelled')
        /\ worker \in [Workers -> [st : WorkerStates, job : Chunks]] /\ jobChan \in Seq(Chunks)
    BY <1>1, <1>13 DEF WorkerStep, TakeJob, DropJob, JobsClosed, Write, WriteFails, CountRows,
                       SendAck, SkipAck, AckCancelled, durable, TypeOK
  <2>2. \A x \in Workers \ {w} : worker'[x] = worker[x]
    <3>1. \E st, job : SetWorker(w, st, job)
      BY <1>13 DEF WorkerStep, TakeJob, DropJob, JobsClosed, Write, WriteFails, CountRows,
                   SendAck, SkipAck, AckCancelled
    <3> QED BY <2>1, <3>1 DEF SetWorker
  <2>3. CASE DropJob(w) \/ WriteFails(w) \/ AckCancelled(w)
    <3>1. WpDone'
      BY <2>3 DEF DropJob, WriteFails, AckCancelled, WpDone
    <3> QED BY <1>2, <3>1
  <2>4. CASE TakeJob(w)
    <3>1. /\ worker[w].st = "idle" /\ worker'[w] = [st |-> "write", job |-> Head(jobChan)]
          /\ jobChan # <<>> /\ jobChan' = Tail(jobChan)
      BY <2>1, <2>4 DEF TakeJob, SetWorker
    <3>2. ASSUME NEW c \in Chunks, InFlight(c) PROVE InFlight(c)'
      <4>1. CASE \E i \in 1 .. Len(jobChan) : jobChan[i] = c
        <5>1. c = Head(jobChan) \/ \E j \in 1 .. Len(jobChan') : jobChan'[j] = c
          BY <2>1, <3>1, <4>1, InTail
        <5>2. c = Head(jobChan) => worker'[w].st = "write" /\ worker'[w].job = c
          BY <3>1
        <5> QED BY <5>1, <5>2 DEF InFlight
      <4>2. CASE \E x \in Workers : worker[x].st = "write" /\ worker[x].job = c
        BY <2>2, <3>1, <4>2 DEF InFlight
      <4>3. CASE \/ reader[c.reader] = "send" /\ c.seq = Len(cuts[c.reader]) - 1
                 \/ \E i \in 1 .. Len(chunkChan) : chunkChan[i] = c
                 \/ pc = "submit" /\ inHand = c
        BY <2>1, <4>3 DEF InFlight
      <4> QED BY <3>2, <4>1, <4>2, <4>3 DEF InFlight
    <3>3. ~WpDone => Queued'
      BY <1>1, <2>1, <2>2, <3>1
    <3> QED BY <1>3, <2>1, <3>2, <3>3 DEF WpDone
  <2>5. CASE JobsClosed(w) \/ CountRows(w) \/ SendAck(w) \/ SkipAck(w)
    <3>1. /\ worker[w].st \in {"idle", "count", "ack"} /\ jobChan' = jobChan
          /\ worker'[w].st = "exited" => pc = "wait" /\ jobChan = <<>>
      BY <2>1, <2>5 DEF JobsClosed, CountRows, SendAck, SkipAck, SetWorker
    <3>2. ASSUME NEW c \in Chunks, InFlight(c) PROVE InFlight(c)'
      BY <2>1, <2>2, <3>1, <3>2 DEF InFlight
    <3>3. ~WpDone => Queued'
      BY <1>1, <2>1, <2>2, <3>1
    <3> QED BY <1>3, <2>1, <3>2, <3>3 DEF WpDone
  <2>6. CASE Write(w)
    <3>1. /\ worker[w].st = "write" /\ worker'[w].st = "count" /\ jobChan' = jobChan
          /\ target' = target \cup Rows(worker[w].job)
      BY <2>1, <2>6 DEF Write, SetWorker
    <3>2. ASSUME NEW c \in Chunks, InFlight(c) PROVE InFlight(c)' \/ Written(c)'
      <4>1. CASE worker[w].job = c
        BY <2>1, <3>1, <4>1, ChunksStable DEF Written
      <4>2. CASE worker[w].job # c
        BY <2>1, <2>2, <3>1, <3>2, <4>2 DEF InFlight
      <4> QED BY <4>1, <4>2
    <3>3. ~WpDone => Queued'
      BY <1>1, <2>1, <2>2, <3>1
    <3> QED BY <1>3, <2>1, <3>2, <3>3 DEF WpDone
  <2> QED BY <1>13, <2>3, <2>4, <2>5, <2>6 DEF WorkerStep
<1>14. CASE AckStep \/ UNCHANGED vars
  <2>1. UNCHANGED <<ranges, cuts, target, reader, chunkChan, pc, inHand, jobChan, worker, wpCancelled, ctxDone>>
    BY <1>14 DEF AckStep, ReceiveAck, DrainPending, vars, durable
  <2>2. \A c \in Chunks : InFlight(c) => InFlight(c)'
    BY <2>1 DEF InFlight
  <2> QED BY <1>1, <1>3, <2>1, <2>2 DEF WpDone
<1>15. CASE Cancel
  BY <1>15 DEF Cancel, Completable
<1> QED BY <1>4, <1>5, <1>6, <1>7, <1>8, <1>9, <1>10, <1>11, <1>12, <1>13, <1>14, <1>15
        DEF Next, ReaderStep, ConsumerStep, Terminated

\* Execute returns no error only when the whole job is in the target.
LEMMA SuccessStep ==
  ASSUME Completable, CompleteInv, [Next]_vars
  PROVE  SuccessMeansAllWritten'
<1> USE DEF CompleteInv
<1>1. CASE Execute
  BY <1>1, ExecuteCompletable DEF SuccessMeansAllWritten
<1>2. CASE pc = "ok" /\ ~Execute
  BY <1>2, TargetGrows DEF SuccessMeansAllWritten, JobRows
<1>3. ASSUME ~Execute, pc # "ok", pc' = "ok"
      PROVE  Succeed
  <2> USE DEF consVars
  <2>1. ASSUME NEW r \in Readers, ReaderStep(r) PROVE pc' = pc
    BY <2>1 DEF ReaderStep, ReadChunk, ReadNothing, ReadFails, SendChunk, SendError
  <2>2. ASSUME NEW w \in Workers, WorkerStep(w) PROVE pc' = pc
    BY <2>2 DEF WorkerStep, TakeJob, DropJob, JobsClosed, Write, WriteFails, CountRows,
                SendAck, SkipAck, AckCancelled
  <2>3. CASE AckStep \/ Cancel \/ UNCHANGED vars
    BY <1>3, <2>3 DEF AckStep, ReceiveAck, DrainPending, Cancel, vars
  <2>4. CASE Crash
    BY <1>3, <2>4 DEF Crash
  <2>5. CASE ConsumerStep
    BY <1>3, <2>5 DEF ConsumerStep, ReceiveChunk, ReceiveError, ChunksClosed, Submit,
                      SubmitCancelled, Fail
  <2> QED BY <1>3, <2>1, <2>2, <2>3, <2>4, <2>5 DEF Next, Terminated
<1>4. CASE Succeed
  <2>1. /\ pc = "wait" /\ ~loopErr /\ ~writeErr /\ target' = target
        /\ \A w \in Workers : worker[w].st = "exited"
    BY <1>4 DEF Succeed, PoolDrained
  <2>2. ~WpDone
    BY <2>1 DEF ErrorsKept, WpDone
  <2>3. chunkChan = <<>> /\ \A r \in Readers : reader[r] = "done"
    BY <2>1, <2>2 DEF ReadersFinish
  <2>4. jobChan = <<>>
    <3>1. PICK w \in Workers : TRUE
      BY ConfigAssumption
    <3> QED BY <2>1, <2>2, <3>1 DEF NoneLost, Running
  <2>5. \A r \in Readers : Remaining(r) = {}
    <3>1. ~ErrorInFlight
      <4>1. Len(chunkChan) = 0
        BY <2>3
      <4> QED BY <4>1 DEF ErrorInFlight
    <3> QED BY <2>1, <2>3, <3>1 DEF ReadersFinish
  <2>6. ASSUME NEW r \in Readers, NEW q \in 0 .. Len(cuts[r]) - 1
        PROVE  Rows([reader |-> r, seq |-> q]) \subseteq target
    <3>1. ~InFlight([reader |-> r, seq |-> q])
      BY <2>1, <2>3, <2>4 DEF InFlight
    <3> QED BY <2>2, <3>1 DEF NoneLost, Written
  <2>7. ASSUME NEW p \in JobRows, p \notin target PROVE FALSE
    <3>1. ranges # <<>> /\ ~(p <= ranges[1].minPK)
      BY <2>1, <2>7 DEF BaseCovered, Running
    <3>2. \E r \in Readers : \E q \in 0 .. Len(cuts[r]) - 1 : p \in Rows([reader |-> r, seq |-> q])
      BY <2>5, <3>1, RowInChunk DEF OrderInv, SafeInv
    <3> QED BY <2>6, <2>7, <3>2
  <2> QED BY <2>1, <2>7 DEF SuccessMeansAllWritten, JobRows
<1> QED BY <1>1, <1>2, <1>3, <1>4 DEF SuccessMeansAllWritten

LEMMA CompleteStep ==
  ASSUME Completable, CompleteInv, [Next]_vars
  PROVE  CompleteInv'
<1>1. OrderInv'
  BY OrderStep DEF CompleteInv, Completable
<1> QED BY <1>1, BaseStep, FinishStep, LostStep, SuccessStep DEF CompleteInv

\* Whatever the order of reads, writes, acknowledgements, errors and crashes, and the
\* number of attempts, an attempt that ends without an error leaves every row of the job
\* in the target: provided that the job is completable, which it need not be in dmt.
THEOREM SuccessComplete ==
  ASSUME Completable
  PROVE  Spec => []SuccessMeansAllWritten
<1>1. Init => CompleteInv
  BY CompleteInit
<1>2. CompleteInv /\ [Next]_vars => CompleteInv'
  BY CompleteStep
<1>3. CompleteInv => SuccessMeansAllWritten
  BY DEF CompleteInv
<1> QED BY <1>1, <1>2, <1>3, PTL DEF Spec

-----------------------------------------------------------------------------
(***************************************************************************)
(* The implementation of TransferJob.                                      *)
(***************************************************************************)

\* A chunk has rows of the job only.
LEMMA RowsInJob ==
  ASSUME OrderInv, NEW c \in Chunks, ValidChunk(c)
  PROVE  Rows(c) \subseteq JobRows
<1> USE DEF OrderInv, SafeInv
<1> DEFINE r == c.reader
<1>1. /\ r \in Readers /\ c.seq \in Nat /\ c.seq + 1 \in 1 .. Len(cuts[r])
  BY ChunkFacts
<1>2. /\ Len(cuts[r]) \in Nat
      /\ \A k \in 0 .. Len(cuts[r]) : Cut(r, k) \in Int
      /\ \A j, k \in 0 .. Len(cuts[r]) : j <= k => Cut(r, j) <= Cut(r, k)
  BY <1>1, CutsMonotone
<1>3. /\ ranges[r].minPK \in Int /\ ranges[r].maxPK \in Int /\ Cut(r, 0) = ranges[r].minPK
      /\ MinPK - 1 <= ranges[r].minPK /\ ranges[r].maxPK <= MaxPK
  BY <1>1, RangeFacts, KeysAreIntegers DEF RangesOrdered
<1>4. 0 \in 0 .. Len(cuts[r]) /\ c.seq \in 0 .. Len(cuts[r]) /\ 0 <= c.seq
  BY <1>1, <1>2
<1>5. /\ Cut(r, 0) <= PrevPK(c) /\ PrevPK(c) \in Int
      /\ LastPK(c) \in Int /\ LastPK(c) <= ranges[r].maxPK
  <2>1. Cut(r, c.seq + 1) <= ranges[r].maxPK
    BY <1>1 DEF CutsOrdered
  <2>2. c.seq + 1 \in 0 .. Len(cuts[r])
    BY <1>1
  <2> QED BY <1>2, <1>4, <2>1, <2>2 DEF PrevPK, LastPK
<1> SUFFICES ASSUME NEW p \in Rows(c) PROVE p \in JobRows
  OBVIOUS
<1>6. p \in SourcePKs /\ p \in Int /\ PrevPK(c) < p /\ p <= LastPK(c)
  BY KeysAreIntegers DEF Rows
<1> HIDE DEF r
<1>7. MinPK <= p /\ p <= MaxPK
  BY <1>3, <1>5, <1>6, KeysAreIntegers
<1> QED BY <1>6, <1>7 DEF JobRows

\* What the abstract job sees of a checkpoint.
LEMMA SavedKeyFacts ==
  ASSUME NEW s \in Checkpoint \cup {NoCheckpoint}
  PROVE  /\ s # NoCheckpoint => s.lastPK \in Int /\ s.lastPK # NoCheckpoint
BY KeysAreIntegers, ConfigAssumption DEF Checkpoint

LEMMA JobStep ==
  ASSUME Completable, CompleteInv, [Next]_vars
  PROVE  [Job!Next]_(Job!vars)
<1> USE DEF CompleteInv, OrderInv
<1> DEFINE key == IF saved = NoCheckpoint THEN NoCheckpoint ELSE saved.lastPK
           phase == IF pc \in Running THEN "running" ELSE IF pc = "ok" THEN "ok" ELSE "stopped"
<1>1. /\ TypeOK /\ RefsOK /\ SafeInv' /\ SuccessMeansAllWritten' /\ pc \in Running \cup Stopped
      /\ \A x \in Running : x \notin Stopped
  <2>1. CompleteInv'
    BY CompleteStep
  <2> QED BY <2>1 DEF SafeInv, TypeOK, Running, Stopped
<1>2. ASSUME UNCHANGED <<target, saved, phase>>
      PROVE  UNCHANGED Job!vars
  BY <1>2 DEF Job!vars
<1>3. ASSUME saved' # saved, target' = target
      PROVE  Job!CanSave(key') /\ phase = "running"
  <2>1. /\ pc \in Running /\ saved' # NoCheckpoint /\ saved'.lastPK \in Int
        /\ saved # NoCheckpoint => saved.lastPK <= saved'.lastPK
    BY <1>3, OrderStep DEF Completable
  <2>2. \A p \in JobRows : p <= saved'.lastPK => p \in target
    BY <1>1, <1>3, <2>1 DEF SafeInv, CheckpointSafe, JobRows
  <2>3. saved'.lastPK # NoCheckpoint
    BY <2>1, ConfigAssumption
  <2> QED BY <2>1, <2>2, <2>3 DEF Job!CanSave, Job!Covered
<1>4. CASE Execute
  <2>1. /\ pc \in Stopped /\ pc' = "loop" /\ saved' = saved
        /\ target' = CleanTarget(saved) \/ target' = target
    BY <1>4, ExecuteCompletable DEF Execute, Completable
  <2>2. /\ saved \in Checkpoint \cup {NoCheckpoint}
        /\ saved # NoCheckpoint => MinPK - 1 <= saved.lastPK
    BY <1>1 DEF TypeOK, SavedBehind
  <2>3. target \ JobRows \subseteq target'
    BY <1>1, <2>1, <2>2, CleanKeepsOthers
  <2>4. target' \subseteq target
    BY <2>1 DEF CleanTarget
  <2>5. saved # NoCheckpoint => \A p \in target : p <= saved.lastPK => p \in target'
    BY <2>1 DEF CleanTarget
  <2>6. saved # NoCheckpoint => saved.lastPK # NoCheckpoint
    BY <2>2, SavedKeyFacts
  <2>7. target \ target' \subseteq JobRows \ Job!Covered(key)
    BY <2>3, <2>5, <2>6 DEF Job!Covered
  <2> QED BY <1>1, <2>1, <2>4, <2>7 DEF Job!Next, Job!Start, Running
<1>5. ASSUME NEW r \in Readers, ReaderStep(r)
      PROVE  UNCHANGED Job!vars
  <2>1. UNCHANGED <<target, saved, pc>>
    BY <1>5 DEF ReaderStep, ReadChunk, ReadNothing, ReadFails, SendChunk, SendError, durable, consVars
  <2> QED BY <1>2, <2>1
<1>6. CASE ReceiveChunk \/ ReceiveError \/ ChunksClosed \/ Submit \/ SubmitCancelled \/ Cancel
  <2>1. UNCHANGED <<target, saved>> /\ pc \in Running /\ pc' \in Running
    BY <1>6 DEF ReceiveChunk, ReceiveError, ChunksClosed, Submit, SubmitCancelled, Cancel,
                durable, consVars, Running
  <2> QED BY <1>2, <2>1
<1>7. CASE Fail
  <2>1. UNCHANGED <<target, saved>> /\ pc \in Running /\ pc' = "failed"
    BY <1>7 DEF Fail, PoolDrained, durable, Running
  <2> QED BY <2>1 DEF Job!Next, Job!Stop, Running
<1>8. CASE Succeed
  <2>1. target' = target /\ pc \in Running /\ pc' = "ok"
    BY <1>8 DEF Succeed, PoolDrained, Running
  <2>2. JobRows \subseteq target
    BY <1>1, <2>1 DEF SuccessMeansAllWritten, JobRows
  <2> QED BY <1>3, <2>1, <2>2 DEF Job!Next, Job!Succeed, Running
<1>9. ASSUME NEW w \in Workers, WorkerStep(w)
      PROVE  [Job!Next]_(Job!vars)
  <2>1. UNCHANGED <<saved, pc>> /\ worker[w].st # "exited"
    BY <1>9 DEF WorkerStep, TakeJob, DropJob, JobsClosed, Write, WriteFails, CountRows,
                SendAck, SkipAck, AckCancelled, durable, consVars
  <2>2. pc \in Running
    BY <1>1, <2>1 DEF StoppedQuiet
  <2>3. worker[w].st = "write" => Rows(worker[w].job) \subseteq JobRows
    BY <1>1, RowsInJob DEF RefsOK, TypeOK
  <2>4. target \subseteq target' /\ target' \subseteq target \cup JobRows
    BY <1>9, <2>3 DEF WorkerStep, TakeJob, DropJob, JobsClosed, Write, WriteFails, CountRows,
                      SendAck, SkipAck, AckCancelled, durable, Torn
  <2> QED BY <2>1, <2>2, <2>4 DEF Job!Next, Job!Transfer
<1>10. CASE AckStep
  <2>1. target' = target /\ pc' = pc
    BY <1>10 DEF AckStep, ReceiveAck, DrainPending, consVars
  <2>2. CASE saved' = saved
    BY <1>2, <2>1, <2>2
  <2>3. CASE saved' # saved
    BY <1>3, <2>1, <2>3 DEF Job!Next, Job!Save
  <2> QED BY <2>2, <2>3
<1>11. CASE Crash
  <2>1. saved' = saved /\ pc \in Running /\ pc' = "crashed" /\ target \subseteq target'
    BY <1>11 DEF Crash
  <2>2. ASSUME NEW w \in Workers, worker[w].st = "write", NEW k
        PROVE  Torn(worker[w].job, k) \subseteq JobRows
    BY <1>1, <2>2, RowsInJob DEF RefsOK, TypeOK, Torn
  <2>3. target' \subseteq target \cup JobRows
    BY <1>11, <2>2 DEF Crash
  <2> QED BY <2>1, <2>3 DEF Job!Next, Job!Stop, Running
<1>12. CASE UNCHANGED vars
  <2>1. UNCHANGED <<target, saved, pc>>
    BY <1>12 DEF vars, durable, consVars
  <2> QED BY <1>2, <2>1
<1> QED BY <1>4, <1>5, <1>6, <1>7, <1>8, <1>9, <1>10, <1>11, <1>12
        DEF Next, ConsumerStep, Terminated

\* With all its goroutines, buffers and faults, a completable job behaves like the job
\* of TransferJob that its callers retry and resume.
THEOREM TransferJobImplemented ==
  ASSUME Completable
  PROVE  Spec => ImplementsTransferJob
<1>1. Init => CompleteInv /\ Job!Init
  <2> SUFFICES ASSUME Init PROVE Job!Init
    BY CompleteInit
  <2> QED BY DEF Init, Job!Init, Running
<1>2. CompleteInv /\ [Next]_vars => CompleteInv' /\ [Job!Next]_(Job!vars)
  BY CompleteStep, JobStep
<1> QED BY <1>1, <1>2, PTL DEF Spec, ImplementsTransferJob, Job!Spec

-----------------------------------------------------------------------------
(* Ranges, chunks and the coordinator's keys, whatever fails. *)

\* What Execute does to the goroutines' state.
LEMMA ExecuteFacts ==
  ASSUME TypeOK, KeysInJob, Execute
  PROVE  \E ckpt \in {saved, NoCheckpoint} :
           /\ ckpt \in Checkpoint \cup {NoCheckpoint} /\ saved' = saved
           /\ ckpt # NoCheckpoint => MinPK - 1 <= ckpt.lastPK
           /\ resumeRowsDone' = ResumeRows(ckpt)
           /\ target' = CleanTarget(ckpt) \/ "cleanup" \in Faults
           /\ \/ pc' = "loop" /\ ResetAttempt(JobRanges(ckpt), "idle")
              \/ pc' = "ok" /\ ResetAttempt(<<>>, "exited")
BY DEF Execute, TypeOK, KeysInJob

\* One round of onAck, seen from outside: ck' agrees on keys and completeness with the
\* state c from which a key is saved.
LEMMA RoundCk ==
  ASSUME TypeInv, NEW ack \in Chunks, ValidChunk(ack), OnAckRound(ack),
         UNCHANGED <<ranges, cuts>>
  PROVE  \E c \in [Readers -> CkState] :
           /\ c[ack.reader].lastPK = LastPK(ack)
           /\ c[ack.reader].complete = (ck[ack.reader].complete \/ LastPK(ack) >= ranges[ack.reader].maxPK)
           /\ \A x \in Readers \ {ack.reader} : c[x] = ck[x] /\ ck'[x] = ck[x]
           /\ \A x \in Readers : ck'[x].lastPK = c[x].lastPK /\ ck'[x].complete = c[x].complete
           /\ ck'[ack.reader].nextSeq = ack.seq + 1
           /\ ck'[ack.reader].pending \subseteq ck[ack.reader].pending
           /\ saved' = saved \/ SaveProgress(SafeCheckpoint(c))
<1> DEFINE r == ack.reader
           applied == ApplyAck(ack)
<1>1. r \in Readers /\ LastPK(ack) \in Int64 /\ ck \in [Readers -> CkState]
  BY ChunkFacts DEF TypeInv, TypeOK
<1>2. /\ applied \in [Readers -> CkState] /\ applied[r].lastPK = LastPK(ack)
      /\ applied[r].complete = (ck[r].complete \/ LastPK(ack) >= ranges[r].maxPK)
      /\ applied[r].pending = ck[r].pending
      /\ \A x \in Readers \ {r} : applied[x] = ck[x]
  BY <1>1, ApplyAckFacts
<1>3. ck' = [applied EXCEPT ![r].nextSeq = ack.seq + 1, ![r].pending = @ \ {ack.seq}]
  BY DEF OnAckRound
<1>4. saved' = saved \/ SaveProgress(SafeCheckpoint(applied))
  BY DEF OnAckRound
<1> HIDE DEF applied
<1>5. /\ ck'[r] = [applied[r] EXCEPT !.nextSeq = ack.seq + 1, !.pending = @ \ {ack.seq}]
      /\ \A x \in Readers \ {r} : ck'[x] = applied[x]
  BY <1>1, <1>2, <1>3
<1>6. /\ ck'[r].nextSeq = ack.seq + 1 /\ ck'[r].lastPK = applied[r].lastPK
      /\ ck'[r].complete = applied[r].complete /\ ck'[r].pending \subseteq applied[r].pending
  BY <1>1, <1>2, <1>5 DEF CkState
<1>7. \A x \in Readers : ck'[x].lastPK = applied[x].lastPK /\ ck'[x].complete = applied[x].complete
  BY <1>5, <1>6
<1>8. \A x \in Readers \ {r} : applied[x] = ck[x] /\ ck'[x] = ck[x]
  BY <1>2, <1>5
<1> HIDE DEF r
<1> QED BY <1>2, <1>4, <1>6, <1>7, <1>8 DEF r

\* Such a round starts a chunk further, where the acknowledged one ended.
LEMMA RoundOrdered ==
  ASSUME RowsInv, NEW ack \in Chunks, ValidChunk(ack), ack.seq = ck[ack.reader].nextSeq,
         NEW c \in [Readers -> CkState], c[ack.reader].lastPK = LastPK(ack),
         c[ack.reader].complete = (ck[ack.reader].complete \/ LastPK(ack) >= ranges[ack.reader].maxPK),
         \A x \in Readers \ {ack.reader} : c[x] = ck[x]
  PROVE  /\ \A x \in Readers : c[x].complete => c[x].lastPK >= ranges[x].maxPK
         /\ PrevPK(ack) = ck[ack.reader].lastPK
<1> DEFINE r == ack.reader
<1> USE DEF RowsInv
<1>1. /\ r \in Readers /\ ack.seq \in Nat /\ ack.seq + 1 \in 1 .. Len(cuts[r])
      /\ LastPK(ack) \in Int /\ PrevPK(ack) \in Int
  BY ChunkFacts, KeysAreIntegers
<1>2. ranges[r].maxPK \in Int
  BY <1>1, RangeFacts, KeysAreIntegers
<1>3. PrevPK(ack) = ck[r].lastPK /\ PrevPK(ack) < LastPK(ack)
  <2>1. Cut(r, (ack.seq + 1) - 1) < Cut(r, ack.seq + 1)
    BY <1>1 DEF CutsOrdered
  <2>2. (ack.seq + 1) - 1 = ack.seq
    BY <1>1
  <2> QED BY <1>1, <2>1, <2>2 DEF CoordinatorOrdered, PrevPK, LastPK
<1>4. ck[r].complete => LastPK(ack) >= ranges[r].maxPK
  BY <1>1, <1>2, <1>3 DEF CoordinatorOrdered
<1>5. c[r].complete => c[r].lastPK >= ranges[r].maxPK
  BY <1>4
<1> HIDE DEF r
<1> QED BY <1>1, <1>3, <1>5 DEF r, CoordinatorOrdered

\* After a round the coordinator's keys are again ends of chunks.
LEMMA RoundRows ==
  ASSUME RowsInv, NEW ack \in Chunks, ValidChunk(ack), ack.seq = ck[ack.reader].nextSeq,
         OnAckRound(ack), UNCHANGED <<ranges, cuts>>
  PROVE  CoordinatorOrdered'
<1> DEFINE r == ack.reader
<1> USE DEF RowsInv
<1>1. PICK c \in [Readers -> CkState] :
        /\ c[r].lastPK = LastPK(ack)
        /\ c[r].complete = (ck[r].complete \/ LastPK(ack) >= ranges[r].maxPK)
        /\ \A x \in Readers \ {r} : c[x] = ck[x] /\ ck'[x] = ck[x]
        /\ \A x \in Readers : ck'[x].lastPK = c[x].lastPK /\ ck'[x].complete = c[x].complete
        /\ ck'[r].nextSeq = ack.seq + 1
  BY RoundCk DEF TypeInv
<1>2. \A x \in Readers : c[x].complete => c[x].lastPK >= ranges[x].maxPK
  BY <1>1, RoundOrdered
<1>3. r \in Readers /\ ack.seq + 1 \in 1 .. Len(cuts[r])
  BY ChunkFacts
<1>4. Readers' = Readers /\ \A x, k : Cut(x, k)' = Cut(x, k)
  BY DEF Readers, Cut
<1> SUFFICES ASSUME NEW x \in Readers
             PROVE  /\ ck'[x].nextSeq <= Len(cuts[x]) /\ ck'[x].lastPK = Cut(x, ck'[x].nextSeq)
                    /\ ck'[x].complete => ck'[x].lastPK >= ranges[x].maxPK
  BY <1>4 DEF CoordinatorOrdered
<1>5. ck'[x].complete => ck'[x].lastPK >= ranges[x].maxPK
  BY <1>1, <1>2
<1>6. CASE x = r
  BY <1>1, <1>3, <1>5, <1>6 DEF LastPK
<1>7. CASE x # r
  BY <1>1, <1>5, <1>7 DEF CoordinatorOrdered
<1> QED BY <1>6, <1>7

\* The ranges that an attempt begins with, or none.
LEMMA ResetRows ==
  ASSUME NEW rs, NEW st, ResetAttempt(rs, st),
         rs = <<>> \/ \E ckpt \in Checkpoint \cup {NoCheckpoint} :
                        rs = JobRanges(ckpt) /\ (ckpt # NoCheckpoint => MinPK - 1 <= ckpt.lastPK)
  PROVE  RangesOrdered' /\ RangesAdjacent' /\ CutsOrdered' /\ CoordinatorOrdered'
<1>1. Readers' = 1 .. Len(rs) /\ ranges' = rs
  BY DEF ResetAttempt, Readers
<1>2. rs \in Seq(PKRangeRec)
  <2>1. CASE rs = <<>>
    BY <2>1
  <2>2. CASE rs # <<>>
    BY <2>2, JobRangesFacts
  <2> QED BY <2>1, <2>2
<1>3. /\ \A r \in 1 .. Len(rs) : MinPK - 1 <= rs[r].minPK /\ rs[r].maxPK <= MaxPK
      /\ \A i, j \in 1 .. Len(rs) : i < j =>
           rs[i].minPK <= rs[i].maxPK /\ rs[i].maxPK <= rs[j].minPK
  <2>1. CASE rs = <<>>
    <3>1. 1 .. Len(rs) = {}
      BY <2>1
    <3> QED BY <3>1
  <2>2. CASE rs # <<>>
    BY <2>2, JobRangesOrdered
  <2> QED BY <2>1, <2>2
<1>4. rs # <<>> => /\ rs[Len(rs)].maxPK = MaxPK
                   /\ \A i \in 1 .. Len(rs) - 1 : rs[i + 1].minPK = rs[i].maxPK
  BY JobRangesFacts
<1>5. \A r \in 1 .. Len(rs) : rs[r].minPK \in Int
  <2>1. \A r \in 1 .. Len(rs) : rs[r] \in PKRangeRec
    BY <1>2
  <2> QED BY <2>1, KeysAreIntegers DEF PKRangeRec
<1>6. \A r \in 1 .. Len(rs) : /\ cuts'[r] = <<>> /\ Cut(r, 0)' = rs[r].minPK
                              /\ ck'[r].nextSeq = 0 /\ ck'[r].lastPK = rs[r].minPK
                              /\ ck'[r].complete = (rs[r].minPK >= rs[r].maxPK)
  BY DEF ResetAttempt, InitialCk, Cut
<1>7. RangesOrdered' /\ RangesAdjacent'
  BY <1>1, <1>3, <1>4 DEF RangesOrdered, RangesAdjacent
<1>8. CutsOrdered'
  <2>1. 1 .. Len(<<>>) = {}
    OBVIOUS
  <2> QED BY <1>1, <1>6, <2>1 DEF CutsOrdered
<1>9. CoordinatorOrdered'
  <2> SUFFICES ASSUME NEW r \in 1 .. Len(rs)
               PROVE  /\ ck'[r].nextSeq <= Len(cuts'[r]) /\ ck'[r].lastPK = Cut(r, ck[r].nextSeq)'
                      /\ ck'[r].complete => ck'[r].lastPK >= rs[r].maxPK
    BY <1>1 DEF CoordinatorOrdered
  <2>1. Cut(r, ck[r].nextSeq)' = rs[r].minPK
    BY <1>1, <1>6 DEF Cut
  <2>2. Len(cuts'[r]) = 0
    BY <1>6
  <2>3. ck'[r].nextSeq <= Len(cuts'[r])
    BY <1>6, <2>2
  <2>4. ck'[r].lastPK = Cut(r, ck[r].nextSeq)'
    BY <1>6, <2>1
  <2>5. ck'[r].complete => ck'[r].lastPK >= rs[r].maxPK
    BY <1>6
  <2> QED BY <2>3, <2>4, <2>5
<1> QED BY <1>7, <1>8, <1>9

LEMMA RowsInit == Init => RowsInv
<1> SUFFICES ASSUME Init PROVE RowsInv
  OBVIOUS
<1>1. TypeOK /\ RefsOK
  BY TypeInit DEF TypeInv
<1>2. Readers = {} /\ ranges = <<>> /\ saved = NoCheckpoint
  BY DEF Init, Readers
<1> QED BY <1>1, <1>2
        DEF RowsInv, KeysInJob, RangesOrdered, RangesAdjacent, CutsOrdered, CoordinatorOrdered

\* Every step keeps the order of ranges, chunks and keys, whatever fails.
LEMMA RowsStep ==
  ASSUME RowsInv, [Next]_vars
  PROVE  RowsInv'
<1> USE DEF durable, execVars, readVars, consVars, ackVars, poolVars, RowsInv
<1>1. TypeOK' /\ RefsOK' /\ KeysInJob'
  BY TypeStep, InJobStep DEF TypeInv
<1> SUFFICES RangesOrdered' /\ RangesAdjacent' /\ CutsOrdered' /\ CoordinatorOrdered'
  BY <1>1
<1>2. ASSUME UNCHANGED <<ranges, cuts>>
      PROVE  /\ RangesOrdered' /\ RangesAdjacent' /\ CutsOrdered'
             /\ Readers' = Readers /\ \A x, k : Cut(x, k)' = Cut(x, k)
  BY <1>2 DEF RangesOrdered, RangesAdjacent, CutsOrdered, Readers, Cut
<1>3. ASSUME UNCHANGED <<ranges, cuts, ck>>
      PROVE  RangesOrdered' /\ RangesAdjacent' /\ CutsOrdered' /\ CoordinatorOrdered'
  BY <1>2, <1>3 DEF CoordinatorOrdered
<1>4. CASE Execute
  BY <1>4, ExecuteFacts, ResetRows
<1>5. CASE Crash
  <2>1. ResetAttempt(<<>>, "exited")
    BY <1>5 DEF Crash
  <2> QED BY <2>1, ResetRows
<1>6. ASSUME NEW r \in Readers, ReadChunk(r)
      PROVE  RangesOrdered' /\ RangesAdjacent' /\ CutsOrdered' /\ CoordinatorOrdered'
  <2>1. UNCHANGED <<ranges, ck>> /\ Readers' = Readers
    BY <1>6 DEF ReadChunk, Readers
  <2>2. PICK n : n = Len(cuts[r])
    OBVIOUS
  <2>3. /\ n \in Nat /\ Len(cuts'[r]) = n + 1
        /\ \A x \in Readers \ {r} : cuts'[x] = cuts[x]
        /\ \A x \in Readers : \A k \in 0 .. Len(cuts[x]) : Cut(x, k)' = Cut(x, k)
        /\ Cut(r, n)' < Cut(r, n + 1)' /\ Cut(r, n + 1)' <= ranges[r].maxPK
    BY <1>6, <2>2, ReadFacts
  <2>4. \A x \in Readers : Len(cuts[x]) \in Nat /\ ck[x].nextSeq \in 0 .. Len(cuts[x])
    <3> SUFFICES ASSUME NEW x \in Readers
                 PROVE  Len(cuts[x]) \in Nat /\ ck[x].nextSeq \in 0 .. Len(cuts[x])
      OBVIOUS
    <3>1. cuts[x] \in Seq(SourcePKs) /\ ck[x] \in CkState
      BY DEF TypeOK
    <3>2. Len(cuts[x]) \in Nat /\ ck[x].nextSeq \in Nat
      BY <3>1 DEF CkState
    <3> QED BY <3>2 DEF CoordinatorOrdered
  <2>5. CutsOrdered'
    <3> SUFFICES ASSUME NEW x \in Readers, NEW k \in 1 .. Len(cuts'[x])
                 PROVE  Cut(x, k - 1)' < Cut(x, k)' /\ Cut(x, k)' <= ranges[x].maxPK
      BY <2>1 DEF CutsOrdered
    <3>1. CASE k \in 1 .. Len(cuts[x])
      <4>1. k \in 0 .. Len(cuts[x]) /\ k - 1 \in 0 .. Len(cuts[x])
        BY <2>4, <3>1
      <4> QED BY <2>3, <3>1, <4>1 DEF CutsOrdered
    <3>2. CASE k \notin 1 .. Len(cuts[x])
      <4>1. x = r
        BY <2>3, <3>2
      <4>2. k = n + 1 /\ k - 1 = n
        BY <2>2, <2>3, <3>2, <4>1
      <4> QED BY <2>3, <4>1, <4>2
    <3> QED BY <3>1, <3>2
  <2>6. CoordinatorOrdered'
    <3> SUFFICES ASSUME NEW x \in Readers
                 PROVE  /\ ck[x].nextSeq <= Len(cuts'[x]) /\ ck[x].lastPK = Cut(x, ck[x].nextSeq)'
                        /\ ck[x].complete => ck[x].lastPK >= ranges[x].maxPK
      BY <2>1 DEF CoordinatorOrdered
    <3>1. /\ ck[x].lastPK = Cut(x, ck[x].nextSeq)
          /\ ck[x].complete => ck[x].lastPK >= ranges[x].maxPK
      BY DEF CoordinatorOrdered
    <3>2. ck[x].nextSeq <= Len(cuts'[x])
      BY <2>2, <2>3, <2>4
    <3>3. \A k \in 0 .. Len(cuts[x]) : Cut(x, k)' = Cut(x, k)
      BY <2>3
    <3> QED BY <2>1, <2>4, <3>1, <3>2, <3>3 DEF Cut
  <2> QED BY <2>1, <2>5, <2>6 DEF RangesOrdered, RangesAdjacent
<1>7. ASSUME NEW r \in Readers, ReadNothing(r) \/ ReadFails(r) \/ SendChunk(r) \/ SendError(r)
      PROVE  RangesOrdered' /\ RangesAdjacent' /\ CutsOrdered' /\ CoordinatorOrdered'
  BY <1>3, <1>7 DEF ReadNothing, ReadFails, SendChunk, SendError
<1>8. CASE ConsumerStep \/ Cancel \/ UNCHANGED vars
  BY <1>3, <1>8 DEF ConsumerStep, ReceiveChunk, ReceiveError, ChunksClosed, Submit, SubmitCancelled,
                    Fail, Succeed, Cancel, vars
<1>9. ASSUME NEW w \in Workers, WorkerStep(w)
      PROVE  RangesOrdered' /\ RangesAdjacent' /\ CutsOrdered' /\ CoordinatorOrdered'
  <2>1. UNCHANGED <<ranges, cuts, ck>>
    BY <1>9 DEF WorkerStep, TakeJob, DropJob, JobsClosed, Write, WriteFails, CountRows,
                SendAck, SkipAck, AckCancelled
  <2> QED BY <1>3, <2>1
<1>10. CASE ReceiveAck
  <2> DEFINE ack == Head(ackChan)
  <2>1. UNCHANGED <<ranges, cuts>> /\ ackChan # <<>> /\ ackChan \in Seq(Chunks)
    BY <1>10 DEF ReceiveAck, TypeOK
  <2>2. ack \in Chunks /\ ValidChunk(ack)
    BY <2>1, TailFacts DEF RefsOK
  <2>3. CASE ack.seq = ck[ack.reader].nextSeq /\ OnAckRound(ack)
    <3> HIDE DEF ack
    <3> QED BY <1>2, <2>1, <2>2, <2>3, RoundRows
  <2>4. CASE OnEarlyAck(ack)
    <3>1. /\ ack.reader \in Readers /\ ck \in [Readers -> CkState]
          /\ ck' = [ck EXCEPT ![ack.reader].pending = @ \cup {ack.seq}]
      BY <2>2, <2>4, ChunkFacts DEF OnEarlyAck, TypeOK
    <3>2. \A x \in Readers : /\ ck'[x].lastPK = ck[x].lastPK /\ ck'[x].nextSeq = ck[x].nextSeq
                             /\ ck'[x].complete = ck[x].complete
      BY <3>1 DEF CkState
    <3> QED BY <1>2, <2>1, <3>2 DEF CoordinatorOrdered
  <2> QED BY <1>10, <2>3, <2>4 DEF ReceiveAck
<1>11. CASE DrainPending
  <2> DEFINE ack == [reader |-> draining, seq |-> ck[draining].nextSeq]
  <2>1. UNCHANGED <<ranges, cuts>> /\ draining # 0 /\ draining \in Readers /\ OnAckRound(ack)
    BY <1>11 DEF DrainPending, TypeOK
  <2>2. ack \in Chunks /\ ValidChunk(ack) /\ ack.seq = ck[ack.reader].nextSeq
    BY <2>1 DEF RefsOK, Chunks, ValidChunk, TypeOK, CkState, Readers
  <2> HIDE DEF ack
  <2> QED BY <1>2, <2>1, <2>2, RoundRows
<1> QED BY <1>4, <1>5, <1>6, <1>7, <1>8, <1>9, <1>10, <1>11
        DEF Next, ReaderStep, AckStep, Terminated
-----------------------------------------------------------------------------
(***************************************************************************)
(* The checkpoint claims at least the rows it covers, whatever fails.      *)
(***************************************************************************)

LEMMA JobRowsFinite ==
  ASSUME NEW A, NEW B, A \subseteq JobRows, B \subseteq JobRows
  PROVE  /\ IsFiniteSet(A) /\ IsFiniteSet(B) /\ Cardinality(A) \in Nat /\ Cardinality(B) \in Nat
         /\ A \subseteq B => Cardinality(A) <= Cardinality(B)
         /\ Cardinality(A \cup B) \in Nat
         /\ Cardinality(A \cup B) <= Cardinality(A) + Cardinality(B)
<1>1. \A S : S \subseteq JobRows => IsFiniteSet(S) /\ Cardinality(S) \in Nat
  BY KeysAreIntegers, FS_Subset, FS_CardinalityType, RowsAssumption
<1>2. A \subseteq B => Cardinality(A) <= Cardinality(B)
  BY <1>1, FS_Subset
<1>3. Cardinality(A \cup B) = Cardinality(A) + Cardinality(B) - Cardinality(A \cap B)
  BY <1>1, FS_Union
<1>4. Cardinality(A \cap B) \in Nat /\ Cardinality(A \cup B) \in Nat
  BY <1>1
<1> QED BY <1>1, <1>2, <1>3, <1>4

\* A saved key claims the rows before the first range and those of the chunks that were
\* acknowledged: all it covers are among them.
LEMMA SaveCounted ==
  ASSUME RowsInv, RowsCounted, RowsDoneCoversCheckpoint,
         NEW x \in Readers, cuts[x] # <<>>, NEW c \in [Readers -> CkState],
         \A r \in Readers : c[r].complete => c[r].lastPK >= ranges[r].maxPK,
         \A r \in Readers : \A p \in JobRows :
           ranges[r].minPK < p /\ p <= c[r].lastPK => p \in AckedRows,
         SaveProgress(SafeCheckpoint(c))
  PROVE  RowsDoneCoversCheckpoint'
<1> DEFINE k == SafeCheckpoint(c)
           S == {p \in JobRows : p <= k}
<1>1. CASE saved' = saved
  BY <1>1 DEF RowsDoneCoversCheckpoint, JobRows
<1>2. CASE saved' = [lastPK |-> k, rowsDone |-> resumeRowsDone + totalWritten]
  <2>1. totalWritten \in Nat /\ resumeRowsDone \in Nat
    BY DEF RowsInv, TypeOK
  <2>2. Cardinality(S) <= resumeRowsDone + totalWritten
    <3>1. CASE S = {}
      <4>1. Cardinality(S) = 0
        BY <3>1, FS_EmptySet
      <4> QED BY <2>1, <4>1
    <3>2. CASE S # {}
      <4>1. \A p \in S : /\ ranges # <<>> /\ ~(Len(ranges) = 1 /\ ranges[1].minPK >= ranges[1].maxPK)
                         /\ p \in BaseRows \/ p \in AckedRows
        BY SafeKeyCovered DEF RowsInv, BaseRows
      <4>2. S \subseteq BaseRows \cup AckedRows /\ Cardinality(BaseRows) <= resumeRowsDone
        BY <3>2, <4>1 DEF RowsCounted
      <4>3. AckedRows \subseteq JobRows /\ BaseRows \subseteq JobRows /\ S \subseteq JobRows
        BY DEF AckedRows, BaseRows
      <4> HIDE DEF S
      <4>4. /\ Cardinality(S) \in Nat /\ Cardinality(BaseRows) \in Nat /\ Cardinality(AckedRows) \in Nat
            /\ Cardinality(BaseRows \cup AckedRows) \in Nat
            /\ Cardinality(S) <= Cardinality(BaseRows \cup AckedRows)
            /\ Cardinality(BaseRows \cup AckedRows) <= Cardinality(BaseRows) + Cardinality(AckedRows)
        BY <4>2, <4>3, JobRowsFinite
      <4>5. Cardinality(AckedRows) <= totalWritten
        BY DEF RowsCounted
      <4> QED BY <2>1, <4>2, <4>4, <4>5
    <3> QED BY <3>1, <3>2
  <2>3. JobRows' = JobRows
    BY DEF JobRows
  <2>4. saved'.lastPK = k /\ saved'.rowsDone = resumeRowsDone + totalWritten
    BY <1>2
  <2>5. {p \in JobRows : p <= saved'.lastPK} = S
    BY <2>4
  <2>6. Cardinality(S) \in Nat
    BY JobRowsFinite
  <2> HIDE DEF S, k
  <2> QED BY <2>1, <2>2, <2>3, <2>4, <2>5, <2>6 DEF RowsDoneCoversCheckpoint
<1> QED BY <1>1, <1>2 DEF SaveProgress

\* The acknowledged rows, from each of the places that hold them, and as a bound.
LEMMA AckedFacts ==
  /\ AckedRows \subseteq JobRows
  /\ \A w \in Workers : worker[w].st = "ack" => Rows(worker[w].job) \cap JobRows \subseteq AckedRows
  /\ \A i \in 1 .. Len(ackChan) : Rows(ackChan[i]) \cap JobRows \subseteq AckedRows
  /\ \A r \in Readers : \A q \in ck[r].pending :
       Rows([reader |-> r, seq |-> q]) \cap JobRows \subseteq AckedRows
  /\ \A r \in Readers : \A p \in JobRows :
       ranges[r].minPK < p /\ p <= ck[r].lastPK => p \in AckedRows
BY DEF AckedRows

LEMMA AckedBound ==
  ASSUME UNCHANGED <<ranges, cuts>>, NEW A,
         \A w \in Workers : worker'[w].st = "ack" => Rows(worker'[w].job) \cap JobRows \subseteq A,
         \A i \in 1 .. Len(ackChan') : Rows(ackChan'[i]) \cap JobRows \subseteq A,
         \A r \in Readers : \A q \in ck'[r].pending :
           Rows([reader |-> r, seq |-> q]) \cap JobRows \subseteq A,
         \A r \in Readers : \A p \in JobRows :
           ranges[r].minPK < p /\ p <= ck'[r].lastPK => p \in A
  PROVE  AckedRows' \subseteq A
<1>1. Readers' = Readers /\ \A c : Rows(c)' = Rows(c)
  BY ChunksStable
<1>2. \A w \in Workers : Rows(worker[w].job)' = Rows(worker'[w].job)
  BY DEF Rows, PrevPK, LastPK, Cut
<1>3. \A i : Rows(ackChan[i])' = Rows(ackChan'[i])
  BY DEF Rows, PrevPK, LastPK, Cut
<1> QED BY <1>1, <1>2, <1>3 DEF AckedRows, JobRows

LEMMA CountedStable ==
  ASSUME TypeOK, RowsCounted, AckedRows' \subseteq AckedRows,
         UNCHANGED <<ranges, totalWritten, resumeRowsDone>>
  PROVE  RowsCounted'
<1>1. AckedRows \subseteq JobRows /\ AckedRows' \subseteq JobRows
  BY AckedFacts
<1>2. /\ Cardinality(AckedRows') <= Cardinality(AckedRows)
      /\ Cardinality(AckedRows') \in Nat /\ Cardinality(AckedRows) \in Nat
  BY <1>1, JobRowsFinite
<1>3. Cardinality(AckedRows)' <= totalWritten'
  BY <1>2 DEF RowsCounted, TypeOK
<1>4. BaseRows' = BaseRows
  BY DEF BaseRows, JobRows
<1> QED BY <1>3, <1>4 DEF RowsCounted

\* A new attempt has acknowledged nothing.
LEMMA CountedReset ==
  ASSUME NEW rs, NEW st, st # "ack", ResetAttempt(rs, st),
         \A r \in 1 .. Len(rs) : rs[r].minPK \in Int
  PROVE  Cardinality(AckedRows)' = 0 /\ totalWritten' = 0
<1>1. Readers' = 1 .. Len(rs) /\ ranges' = rs /\ ackChan' = <<>> /\ totalWritten' = 0
  BY DEF ResetAttempt, Readers
<1>2. \A r \in 1 .. Len(rs) : ck'[r].pending = {} /\ ck'[r].lastPK = rs[r].minPK
  BY DEF ResetAttempt, InitialCk
<1>3. \A w \in Workers : worker'[w].st = st
  BY DEF ResetAttempt
<1>4. 1 .. Len(ackChan') = {}
  BY <1>1
<1>5. \A p \in JobRows : \A r \in 1 .. Len(rs) : ~(rs[r].minPK < p /\ p <= rs[r].minPK)
  BY KeysAreIntegers
<1>6. AckedRows' = {}
  BY <1>1, <1>2, <1>3, <1>4, <1>5 DEF AckedRows, JobRows
<1> QED BY <1>1, <1>6, FS_EmptySet
LEMMA RoundCounted ==
  ASSUME CountInv, NEW ack \in Chunks, ValidChunk(ack), ack.seq = ck[ack.reader].nextSeq,
         OnAckRound(ack), Rows(ack) \cap JobRows \subseteq AckedRows,
         UNCHANGED <<ranges, cuts, totalWritten, resumeRowsDone>>
  PROVE  /\ RowsDoneCoversCheckpoint'
         /\ \A r \in Readers : ck'[r].pending \subseteq ck[r].pending
         /\ \A r \in Readers : \A p \in JobRows :
              ranges[r].minPK < p /\ p <= ck'[r].lastPK => p \in AckedRows
<1> DEFINE r == ack.reader
<1> USE DEF CountInv
<1>0. TypeInv
  BY DEF RowsInv, TypeInv
<1>1. PICK c \in [Readers -> CkState] :
        /\ c[r].lastPK = LastPK(ack)
        /\ c[r].complete = (ck[r].complete \/ LastPK(ack) >= ranges[r].maxPK)
        /\ \A x \in Readers \ {r} : c[x] = ck[x] /\ ck'[x] = ck[x]
        /\ \A x \in Readers : ck'[x].lastPK = c[x].lastPK /\ ck'[x].complete = c[x].complete
        /\ ck'[r].pending \subseteq ck[r].pending
        /\ saved' = saved \/ SaveProgress(SafeCheckpoint(c))
  BY <1>0, RoundCk
<1>2. /\ \A x \in Readers : c[x].complete => c[x].lastPK >= ranges[x].maxPK
      /\ PrevPK(ack) = ck[r].lastPK
  BY <1>1, RoundOrdered
<1>3. r \in Readers /\ ack.seq + 1 \in 1 .. Len(cuts[r]) /\ LastPK(ack) \in Int /\ PrevPK(ack) \in Int
  BY ChunkFacts, KeysAreIntegers DEF RowsInv
<1>4. cuts[r] # <<>>
  BY <1>3
<1>5. \A x \in Readers : \A p \in JobRows :
        ranges[x].minPK < p /\ p <= c[x].lastPK => p \in AckedRows
  <2> SUFFICES ASSUME NEW x \in Readers, NEW p \in JobRows, ranges[x].minPK < p, p <= c[x].lastPK
               PROVE  p \in AckedRows
    OBVIOUS
  <2>1. CASE x = r
    <3>1. p \in Int /\ p \in SourcePKs
      BY KeysAreIntegers
    <3>2. CASE p <= PrevPK(ack)
      BY <1>2, <2>1, <3>2, AckedFacts
    <3>3. CASE PrevPK(ack) < p
      <4>1. p \in Rows(ack)
        BY <1>1, <2>1, <3>1, <3>3 DEF Rows
      <4> QED BY <4>1
    <3> QED BY <1>3, <3>1, <3>2, <3>3
  <2>2. CASE x # r
    BY <1>1, <2>2, AckedFacts
  <2> QED BY <2>1, <2>2
<1>6. RowsDoneCoversCheckpoint'
  <2>1. CASE saved' = saved
    BY <2>1 DEF RowsDoneCoversCheckpoint, JobRows
  <2>2. CASE SaveProgress(SafeCheckpoint(c))
    <3> HIDE DEF r
    <3> QED BY <1>2, <1>3, <1>4, <1>5, <2>2, SaveCounted
  <2> QED BY <1>1, <2>1, <2>2
<1>7. \A x \in Readers : ck'[x].pending \subseteq ck[x].pending
  BY <1>1
<1> QED BY <1>1, <1>5, <1>6, <1>7

LEMMA CountInit == Init => CountInv
<1> SUFFICES ASSUME Init PROVE CountInv
  OBVIOUS
<1>1. RowsInv
  BY RowsInit
<1>2. /\ Readers = {} /\ ranges = <<>> /\ saved = NoCheckpoint /\ totalWritten = 0
      /\ 1 .. Len(ackChan) = {} /\ \A w \in Workers : worker[w].st # "ack"
  BY DEF Init, Readers
<1>3. AckedRows = {}
  BY <1>2 DEF AckedRows
<1>4. Cardinality(AckedRows) = 0
  BY <1>3, FS_EmptySet
<1> QED BY <1>1, <1>2, <1>4 DEF CountInv, RowsCounted, RowsDoneCoversCheckpoint

\* A resume begins with the rows that its checkpoint claims, and reads after its key.
LEMMA ExecuteCounted ==
  ASSUME CountInv, Execute
  PROVE  RowsCounted' /\ RowsDoneCoversCheckpoint'
<1> USE DEF CountInv
<1>1. PICK ckpt \in {saved, NoCheckpoint} :
        /\ ckpt \in Checkpoint \cup {NoCheckpoint} /\ saved' = saved
        /\ ckpt # NoCheckpoint => MinPK - 1 <= ckpt.lastPK
        /\ resumeRowsDone' = ResumeRows(ckpt)
        /\ \/ pc' = "loop" /\ ResetAttempt(JobRanges(ckpt), "idle")
           \/ pc' = "ok" /\ ResetAttempt(<<>>, "exited")
  BY ExecuteFacts DEF RowsInv
<1>2. RowsDoneCoversCheckpoint'
  BY <1>1 DEF RowsDoneCoversCheckpoint, JobRows
<1>3. CASE ResetAttempt(<<>>, "exited")
  <2>1. 1 .. Len(<<>>) = {} /\ ranges' = <<>>
    BY <1>3 DEF ResetAttempt
  <2>2. Cardinality(AckedRows)' = 0 /\ totalWritten' = 0
    BY <1>3, <2>1, CountedReset
  <2> QED BY <1>2, <2>1, <2>2 DEF RowsCounted
<1>4. CASE ResetAttempt(JobRanges(ckpt), "idle")
  <2>1. PICK R : R = JobRanges(ckpt) /\ ranges' = R /\ R \in Seq(PKRangeRec) /\ Len(R) \in Nat \ {0}
    BY <1>1, <1>4, JobRangesFacts DEF ResetAttempt
  <2>2. \A r \in 1 .. Len(R) : R[r] \in PKRangeRec /\ R[r].minPK \in Int /\ R[r].maxPK \in Int
    <3>1. \A r \in 1 .. Len(R) : R[r] \in PKRangeRec
      BY <2>1
    <3> QED BY <3>1, KeysAreIntegers DEF PKRangeRec
  <2>3. Cardinality(AckedRows)' = 0 /\ totalWritten' = 0
    BY <1>4, <2>1, <2>2, CountedReset
  <2>4. BaseRows' = {p \in JobRows : p <= R[1].minPK}
    BY <2>1 DEF BaseRows, JobRows
  <2>5. \/ ckpt = NoCheckpoint /\ R[1].minPK = MinPK - 1
        \/ Len(R) = 1 /\ R[1].minPK = R[1].maxPK
        \/ ckpt # NoCheckpoint /\ R[1].minPK = ckpt.lastPK
    BY <1>1, <2>1, JobRangesFacts
  <2>6. CASE ckpt = NoCheckpoint /\ R[1].minPK = MinPK - 1
    <3>1. \A p \in JobRows : ~(p <= MinPK - 1)
      BY KeysAreIntegers DEF JobRows
    <3>2. BaseRows' = {}
      BY <2>4, <2>6, <3>1
    <3>3. Cardinality(BaseRows)' = 0 /\ resumeRowsDone' = 0
      BY <1>1, <2>6, <3>2, FS_EmptySet DEF ResumeRows
    <3> QED BY <1>2, <2>3, <3>3 DEF RowsCounted
  <2>7. CASE Len(R) = 1 /\ R[1].minPK = R[1].maxPK
    BY <1>2, <2>1, <2>2, <2>3, <2>7 DEF RowsCounted
  <2>8. CASE ckpt # NoCheckpoint /\ R[1].minPK = ckpt.lastPK
    <3>1. saved # NoCheckpoint /\ ckpt = saved
      BY <1>1, <2>8
    <3>2. resumeRowsDone' = saved.rowsDone /\ saved.rowsDone \in Nat
      BY <1>1, <3>1 DEF ResumeRows, Checkpoint
    <3>3. BaseRows' = {p \in JobRows : p <= saved.lastPK}
      BY <2>4, <2>8, <3>1
    <3>4. Cardinality(BaseRows') \in Nat
      BY <3>3, JobRowsFinite
    <3>5. Cardinality(BaseRows') <= saved.rowsDone
      BY <3>1, <3>2, <3>3, <3>4 DEF RowsDoneCoversCheckpoint
    <3>6. Cardinality(BaseRows)' <= resumeRowsDone'
      BY <3>2, <3>5
    <3> QED BY <1>2, <2>3, <3>6 DEF RowsCounted
  <2> QED BY <2>5, <2>6, <2>7, <2>8
<1> QED BY <1>1, <1>3, <1>4
\* What a reader reads does not change the chunks that were read before.
LEMMA ReadKeepsRows ==
  ASSUME TypeOK, NEW r \in Readers, ReadChunk(r), NEW c \in Chunks, ValidChunk(c)
  PROVE  Rows(c)' = Rows(c)
<1>1. PICK n : n = Len(cuts[r])
  OBVIOUS
<1>2. \A x \in Readers : \A k \in 0 .. Len(cuts[x]) : Cut(x, k)' = Cut(x, k)
  BY <1>1, ReadFacts
<1>3. /\ c.reader \in Readers /\ c.seq + 1 \in 1 .. Len(cuts[c.reader]) /\ c.seq \in Nat
      /\ Len(cuts[c.reader]) \in Nat
  BY ChunkFacts, RangeFacts
<1>4. c.seq \in 0 .. Len(cuts[c.reader]) /\ c.seq + 1 \in 0 .. Len(cuts[c.reader])
  BY <1>3
<1>5. LastPK(c)' = LastPK(c) /\ PrevPK(c)' = PrevPK(c)
  BY <1>2, <1>3, <1>4 DEF LastPK, PrevPK
<1> QED BY <1>5 DEF Rows

\* Every step keeps the count of the acknowledged rows, and what the checkpoint claims.
LEMMA CountStep ==
  ASSUME CountInv, [Next]_vars
  PROVE  CountInv'
<1> USE DEF durable, execVars, readVars, consVars, ackVars, poolVars
<1>1. RowsInv' /\ TypeOK /\ RefsOK
  BY RowsStep DEF CountInv, RowsInv
<1> SUFFICES RowsCounted' /\ RowsDoneCoversCheckpoint'
  BY <1>1 DEF CountInv
<1>2. ASSUME saved' = saved
      PROVE  RowsDoneCoversCheckpoint'
  BY <1>2 DEF CountInv, RowsDoneCoversCheckpoint, JobRows
<1>3. ASSUME UNCHANGED <<ranges, cuts, totalWritten, resumeRowsDone>>,
             \A w \in Workers : worker'[w].st = "ack" => Rows(worker'[w].job) \cap JobRows \subseteq AckedRows,
             \A i \in 1 .. Len(ackChan') : Rows(ackChan'[i]) \cap JobRows \subseteq AckedRows,
             \A r \in Readers : \A q \in ck'[r].pending :
               Rows([reader |-> r, seq |-> q]) \cap JobRows \subseteq AckedRows,
             \A r \in Readers : \A p \in JobRows :
               ranges[r].minPK < p /\ p <= ck'[r].lastPK => p \in AckedRows
      PROVE  RowsCounted'
  <2>1. AckedRows' \subseteq AckedRows
    BY <1>3, AckedBound
  <2> QED BY <1>1, <1>3, <2>1, CountedStable DEF CountInv
<1>4. ASSUME UNCHANGED <<ranges, cuts, totalWritten, resumeRowsDone, ackChan, ck>>,
             \A w \in Workers : worker'[w].st = "ack" => worker[w].st = "ack" /\ worker'[w].job = worker[w].job
      PROVE  RowsCounted'
  BY <1>3, <1>4, AckedFacts
<1>5. CASE Execute
  BY <1>5, ExecuteCounted
<1>6. CASE Crash
  <2>1. ResetAttempt(<<>>, "exited") /\ saved' = saved /\ 1 .. Len(<<>>) = {}
    BY <1>6 DEF Crash
  <2>2. Cardinality(AckedRows)' = 0 /\ totalWritten' = 0
    BY <2>1, CountedReset
  <2>3. ranges' = <<>>
    BY <2>1 DEF ResetAttempt
  <2> QED BY <1>2, <2>1, <2>2, <2>3 DEF RowsCounted
<1>7. ASSUME NEW r \in Readers, ReadChunk(r)
      PROVE  RowsCounted' /\ RowsDoneCoversCheckpoint'
  <2>1. UNCHANGED <<ranges, ck, worker, ackChan, totalWritten, resumeRowsDone, saved>>
    BY <1>7 DEF ReadChunk
  <2>3. Readers' = Readers
    BY <2>1 DEF Readers
  <2>4. \A c \in Chunks : ValidChunk(c) => Rows(c)' = Rows(c)
    BY <1>1, <1>7, ReadKeepsRows
  <2>5. \A w \in Workers : worker[w].st = "ack" => Rows(worker[w].job)' = Rows(worker[w].job)
    <3>1. \A w \in Workers : worker[w].st = "ack" => worker[w].job \in Chunks /\ ValidChunk(worker[w].job)
      BY <1>1 DEF TypeOK, RefsOK
    <3>2. ASSUME NEW w \in Workers, worker[w].st = "ack"
          PROVE  Rows(worker[w].job)' = Rows(worker[w].job)
      <4>1. PICK c \in Chunks : c = worker[w].job /\ ValidChunk(c)
        BY <3>1, <3>2
      <4>2. Rows(c)' = Rows(c) /\ worker'[w].job = c
        BY <2>1, <2>4, <4>1
      <4> QED BY <4>1, <4>2 DEF Rows, PrevPK, LastPK
    <3> QED BY <3>2
  <2>6. \A i \in 1 .. Len(ackChan) : Rows(ackChan[i])' = Rows(ackChan[i])
    <3> SUFFICES ASSUME NEW i \in 1 .. Len(ackChan)
                 PROVE  Rows(ackChan[i])' = Rows(ackChan[i])
      OBVIOUS
    <3>1. PICK c \in Chunks : c = ackChan[i] /\ ValidChunk(c)
      BY <1>1 DEF TypeOK, RefsOK
    <3>2. Rows(c)' = Rows(c) /\ ackChan'[i] = c
      BY <2>1, <2>4, <3>1
    <3> QED BY <3>1, <3>2 DEF Rows, PrevPK, LastPK
  <2>7. \A x \in Readers : \A q \in ck[x].pending :
          Rows([reader |-> x, seq |-> q])' = Rows([reader |-> x, seq |-> q])
    <3>1. \A x \in Readers : \A q \in ck[x].pending : q \in Nat /\ x \in Nat /\ q < Len(cuts[x])
      <4>1. \A x \in Readers : ck[x] \in CkState
        BY <1>1 DEF TypeOK
      <4>2. \A x \in Readers : ck[x].pending \subseteq Nat
        BY <4>1 DEF CkState
      <4>3. \A x \in Readers : \A q \in ck[x].pending : q < Len(cuts[x])
        BY <1>1 DEF RefsOK
      <4> QED BY <4>2, <4>3 DEF Readers
    <3>2. \A x \in Readers : \A q \in ck[x].pending :
            [reader |-> x, seq |-> q] \in Chunks /\ ValidChunk([reader |-> x, seq |-> q])
      BY <3>1 DEF Chunks, ValidChunk
    <3> QED BY <2>4, <3>2
  <2>8. AckedRows' \subseteq AckedRows
    <3> SUFFICES ASSUME NEW p \in AckedRows'
                 PROVE  p \in AckedRows
      OBVIOUS
    <3>1. /\ p \in JobRows
          /\ \/ \E w \in Workers : worker[w].st = "ack" /\ p \in Rows(worker[w].job)'
             \/ \E i \in 1 .. Len(ackChan) : p \in Rows(ackChan[i])'
             \/ \E x \in Readers : \E q \in ck[x].pending : p \in Rows([reader |-> x, seq |-> q])'
             \/ \E x \in Readers : ranges[x].minPK < p /\ p <= ck[x].lastPK
      BY <2>1, <2>3 DEF AckedRows, JobRows
    <3> QED BY <2>5, <2>6, <2>7, <3>1 DEF AckedRows
  <2> QED BY <1>1, <1>2, <2>1, <2>8, CountedStable DEF CountInv
<1>8. ASSUME NEW r \in Readers, ReadNothing(r) \/ ReadFails(r) \/ SendChunk(r) \/ SendError(r)
      PROVE  RowsCounted' /\ RowsDoneCoversCheckpoint'
  <2>1. UNCHANGED <<ranges, cuts, totalWritten, resumeRowsDone, ackChan, ck, worker, saved>>
    BY <1>8 DEF ReadNothing, ReadFails, SendChunk, SendError
  <2> QED BY <1>2, <1>4, <2>1
<1>9. CASE ReceiveChunk \/ ReceiveError \/ ChunksClosed \/ Submit \/ SubmitCancelled \/ Fail
           \/ Cancel \/ UNCHANGED vars
  <2>1. UNCHANGED <<ranges, cuts, totalWritten, resumeRowsDone, ackChan, ck, worker, saved>>
    BY <1>9 DEF ReceiveChunk, ReceiveError, ChunksClosed, Submit, SubmitCancelled, Fail, Cancel, vars
  <2> QED BY <1>2, <1>4, <2>1
<1>10. CASE Succeed
  <2>1. UNCHANGED <<ranges, cuts, totalWritten, resumeRowsDone, ackChan, ck, worker>>
    BY <1>10 DEF Succeed
  <2>2. RowsCounted'
    BY <1>4, <2>1
  <2>3. saved' = saved \/ (gotChunk /\ SaveProgress(SafeCheckpoint(ck)))
    BY <1>10 DEF Succeed
  <2>4. ASSUME gotChunk, SaveProgress(SafeCheckpoint(ck))
        PROVE  RowsDoneCoversCheckpoint'
    <3>1. PICK x \in Readers : cuts[x] # <<>>
      BY <1>1, <2>4 DEF RefsOK
    <3>2. /\ ck \in [Readers -> CkState]
          /\ \A r \in Readers : ck[r].complete => ck[r].lastPK >= ranges[r].maxPK
      BY <1>1 DEF TypeOK, CountInv, RowsInv, CoordinatorOrdered
    <3> QED BY <2>4, <3>1, <3>2, AckedFacts, SaveCounted DEF CountInv
  <2> QED BY <1>2, <2>2, <2>3, <2>4
<1>11. ASSUME NEW w \in Workers, WorkerStep(w)
       PROVE  RowsCounted' /\ RowsDoneCoversCheckpoint'
  <2>1. UNCHANGED <<ranges, cuts, ck, resumeRowsDone, saved>>
    BY <1>11 DEF WorkerStep, TakeJob, DropJob, JobsClosed, Write, WriteFails, CountRows,
                 SendAck, SkipAck, AckCancelled
  <2>2. \A v \in Workers \ {w} : worker'[v] = worker[v]
    <3>1. \E st, job : SetWorker(w, st, job)
      BY <1>11 DEF WorkerStep, TakeJob, DropJob, JobsClosed, Write, WriteFails, CountRows,
                   SendAck, SkipAck, AckCancelled
    <3>2. worker \in [Workers -> [st : WorkerStates, job : Chunks]]
      BY <1>1 DEF TypeOK
    <3> QED BY <3>1, <3>2 DEF SetWorker
  <2>3. worker \in [Workers -> [st : WorkerStates, job : Chunks]]
    BY <1>1 DEF TypeOK
  <2>4. CASE CountRows(w)
    <3> DEFINE job == worker[w].job
               added == Rows(job) \cap JobRows
    <3>1. /\ totalWritten' = totalWritten + Cardinality(Rows(job)) /\ UNCHANGED ackChan
          /\ SetWorker(w, "ack", job)
      BY <2>4 DEF CountRows
    <3>2. worker'[w].st = "ack" /\ worker'[w].job = job
      BY <2>3, <3>1 DEF SetWorker
    <3>3. AckedRows' \subseteq AckedRows \cup added
      <4>1. \A v \in Workers : worker'[v].st = "ack" =>
              Rows(worker'[v].job) \cap JobRows \subseteq AckedRows \cup added
        <5> SUFFICES ASSUME NEW v \in Workers, worker'[v].st = "ack"
                     PROVE  Rows(worker'[v].job) \cap JobRows \subseteq AckedRows \cup added
          OBVIOUS
        <5>1. CASE v = w
          BY <3>2, <5>1
        <5>2. CASE v # w
          BY <2>2, <5>2, AckedFacts
        <5> QED BY <5>1, <5>2
      <4>2. /\ \A i \in 1 .. Len(ackChan') : Rows(ackChan'[i]) \cap JobRows \subseteq AckedRows \cup added
            /\ \A r \in Readers : \A q \in ck'[r].pending :
                 Rows([reader |-> r, seq |-> q]) \cap JobRows \subseteq AckedRows \cup added
            /\ \A r \in Readers : \A p \in JobRows :
                 ranges[r].minPK < p /\ p <= ck'[r].lastPK => p \in AckedRows \cup added
        BY <2>1, <3>1, AckedFacts
      <4> HIDE DEF added
      <4> QED BY <2>1, <4>1, <4>2, AckedBound
    <3>4. AckedRows \subseteq JobRows /\ AckedRows' \subseteq JobRows /\ added \subseteq JobRows
      BY <3>3, AckedFacts
    <3>5. Cardinality(added) <= Cardinality(Rows(job)) /\ Cardinality(Rows(job)) \in Nat
      <4>1. Rows(job) \subseteq SourcePKs /\ IsFiniteSet(SourcePKs) /\ added \subseteq Rows(job)
        BY RowsAssumption DEF Rows
      <4> QED BY <4>1, FS_Subset, FS_CardinalityType
    <3> HIDE DEF added, job
    <3>6. PICK A : A = AckedRows'
      OBVIOUS
    <3>7. /\ Cardinality(A) \in Nat /\ Cardinality(AckedRows) \in Nat /\ Cardinality(added) \in Nat
          /\ Cardinality(AckedRows \cup added) \in Nat
          /\ Cardinality(A) <= Cardinality(AckedRows \cup added)
          /\ Cardinality(AckedRows \cup added) <= Cardinality(AckedRows) + Cardinality(added)
      <4>1. AckedRows \cup added \subseteq JobRows /\ A \subseteq AckedRows \cup added /\ A \subseteq JobRows
        BY <3>3, <3>4, <3>6
      <4> QED BY <3>4, <4>1, JobRowsFinite
    <3>8. Cardinality(AckedRows) <= totalWritten /\ totalWritten \in Nat
      BY <1>1 DEF CountInv, RowsCounted, TypeOK
    <3>9. Cardinality(A) <= totalWritten'
      BY <3>1, <3>5, <3>7, <3>8
    <3>10. BaseRows' = BaseRows
      BY <2>1 DEF BaseRows, JobRows
    <3>11. RowsCounted'
      BY <2>1, <3>6, <3>9, <3>10 DEF CountInv, RowsCounted
    <3> QED BY <1>2, <2>1, <3>11
  <2>5. CASE SendAck(w)
    <3>1. /\ worker[w].st = "ack" /\ totalWritten' = totalWritten
          /\ ackChan' = Append(ackChan, worker[w].job) /\ SetWorker(w, "idle", NoChunk)
      BY <2>5 DEF SendAck
    <3>2. worker'[w].st = "idle"
      BY <2>3, <3>1 DEF SetWorker
    <3>3. PICK d : d = worker[w].job
      OBVIOUS
    <3>4. d \in Chunks /\ ackChan \in Seq(Chunks) /\ Rows(d) \cap JobRows \subseteq AckedRows
      BY <1>1, <2>3, <3>1, <3>3, AckedFacts DEF TypeOK
    <3>5. \A i \in 1 .. Len(ackChan') : Rows(ackChan'[i]) \cap JobRows \subseteq AckedRows
      <4> SUFFICES ASSUME NEW i \in 1 .. Len(ackChan')
                   PROVE  Rows(ackChan'[i]) \cap JobRows \subseteq AckedRows
        OBVIOUS
      <4>1. \/ i \in 1 .. Len(ackChan) /\ ackChan'[i] = ackChan[i]
            \/ ackChan'[i] = d
        BY <3>1, <3>3, <3>4, AppendFacts
      <4> QED BY <3>4, <4>1, AckedFacts
    <3>6. \A v \in Workers : worker'[v].st = "ack" => Rows(worker'[v].job) \cap JobRows \subseteq AckedRows
      BY <2>2, <3>2, AckedFacts
    <3>7. RowsCounted'
      BY <1>3, <2>1, <3>1, <3>5, <3>6, AckedFacts
    <3> QED BY <1>2, <2>1, <3>7
  <2>6. CASE TakeJob(w) \/ DropJob(w) \/ JobsClosed(w) \/ Write(w) \/ WriteFails(w) \/ SkipAck(w)
             \/ AckCancelled(w)
    <3>1. UNCHANGED <<totalWritten, ackChan>>
      BY <2>6 DEF TakeJob, DropJob, JobsClosed, Write, WriteFails, SkipAck, AckCancelled
    <3>2. \E st \in {"write", "exited", "count", "idle"} : \E m : SetWorker(w, st, m)
      BY <2>6 DEF TakeJob, DropJob, JobsClosed, Write, WriteFails, SkipAck, AckCancelled
    <3>3. worker'[w].st # "ack"
      BY <2>3, <3>2 DEF SetWorker
    <3>4. RowsCounted'
      BY <1>4, <2>1, <2>2, <3>1, <3>3
    <3> QED BY <1>2, <2>1, <3>4
  <2> QED BY <1>11, <2>4, <2>5, <2>6 DEF WorkerStep
<1>12. CASE ReceiveAck
  <2>1. /\ UNCHANGED <<ranges, cuts, totalWritten, resumeRowsDone, worker>>
        /\ ackChan # <<>> /\ ackChan' = Tail(ackChan) /\ ackChan \in Seq(Chunks)
    BY <1>1, <1>12 DEF ReceiveAck, TypeOK
  <2>2. PICK ack : ack = Head(ackChan)
    OBVIOUS
  <2>3. /\ ack \in Chunks /\ ValidChunk(ack) /\ Rows(ack) \cap JobRows \subseteq AckedRows
        /\ \A i \in 1 .. Len(ackChan') : Rows(ackChan'[i]) \cap JobRows \subseteq AckedRows
    <3>1. /\ ack = ackChan[1] /\ ack \in Chunks /\ 1 \in 1 .. Len(ackChan)
          /\ \A i \in 1 .. Len(ackChan') : i + 1 \in 1 .. Len(ackChan) /\ ackChan'[i] = ackChan[i + 1]
      BY <2>1, <2>2, TailFacts
    <3>2. ValidChunk(ack)
      BY <1>1, <3>1 DEF RefsOK
    <3> QED BY <3>1, <3>2, AckedFacts
  <2>4. CASE ack.seq = ck[ack.reader].nextSeq /\ OnAckRound(ack)
    <3>1. /\ RowsDoneCoversCheckpoint'
          /\ \A r \in Readers : ck'[r].pending \subseteq ck[r].pending
          /\ \A r \in Readers : \A p \in JobRows :
               ranges[r].minPK < p /\ p <= ck'[r].lastPK => p \in AckedRows
      BY <2>1, <2>3, <2>4, RoundCounted
    <3>2. RowsCounted'
      BY <1>3, <2>1, <2>3, <3>1, AckedFacts
    <3> QED BY <3>1, <3>2
  <2>5. CASE OnEarlyAck(ack)
    <3>1. /\ ack.reader \in Readers /\ ck \in [Readers -> CkState] /\ saved' = saved
          /\ ck' = [ck EXCEPT ![ack.reader].pending = @ \cup {ack.seq}]
      BY <1>1, <2>3, <2>5, ChunkFacts DEF OnEarlyAck, TypeOK
    <3>2. /\ \A x \in Readers : ck'[x].lastPK = ck[x].lastPK
          /\ \A x \in Readers \ {ack.reader} : ck'[x].pending = ck[x].pending
          /\ ck'[ack.reader].pending = ck[ack.reader].pending \cup {ack.seq}
      BY <3>1 DEF CkState
    <3>3. ack = [reader |-> ack.reader, seq |-> ack.seq]
      BY <2>3 DEF Chunks
    <3>4. \A x \in Readers : \A q \in ck'[x].pending :
            Rows([reader |-> x, seq |-> q]) \cap JobRows \subseteq AckedRows
      BY <2>3, <3>2, <3>3, AckedFacts
    <3>5. RowsCounted'
      BY <1>3, <2>1, <2>3, <3>2, <3>4, AckedFacts
    <3> QED BY <1>2, <3>1, <3>5
  <2> QED BY <1>12, <2>2, <2>4, <2>5 DEF ReceiveAck
<1>13. CASE DrainPending
  <2> DEFINE ack == [reader |-> draining, seq |-> ck[draining].nextSeq]
  <2>1. /\ UNCHANGED <<ranges, cuts, totalWritten, resumeRowsDone, worker, ackChan>>
        /\ draining # 0 /\ draining \in Readers /\ OnAckRound(ack)
    BY <1>1, <1>13 DEF DrainPending, TypeOK
  <2>2. /\ ack \in Chunks /\ ValidChunk(ack) /\ ack.seq = ck[ack.reader].nextSeq
        /\ ack.seq \in ck[draining].pending
    BY <1>1, <2>1 DEF RefsOK, Chunks, ValidChunk, TypeOK, CkState, Readers
  <2>3. Rows(ack) \cap JobRows \subseteq AckedRows
    BY <2>1, <2>2, AckedFacts
  <2> HIDE DEF ack
  <2>4. /\ RowsDoneCoversCheckpoint'
        /\ \A r \in Readers : ck'[r].pending \subseteq ck[r].pending
        /\ \A r \in Readers : \A p \in JobRows :
             ranges[r].minPK < p /\ p <= ck'[r].lastPK => p \in AckedRows
    BY <2>1, <2>2, <2>3, RoundCounted
  <2>5. RowsCounted'
    BY <1>3, <2>1, <2>4, AckedFacts
  <2> QED BY <2>4, <2>5
<1> QED BY <1>5, <1>6, <1>7, <1>8, <1>9, <1>10, <1>11, <1>12, <1>13
        DEF Next, ReaderStep, ConsumerStep, AckStep, Terminated

\* Whatever fails or is lost, even the reading of the checkpoint, the number of rows
\* that the checkpoint claims is at least the number of the job's rows up to its key.
THEOREM RowsDoneCovers == Spec => []RowsDoneCoversCheckpoint
<1>1. Init => CountInv
  BY CountInit
<1>2. CountInv /\ [Next]_vars => CountInv'
  BY CountStep
<1>3. CountInv => RowsDoneCoversCheckpoint
  BY DEF CountInv
<1> QED BY <1>1, <1>2, <1>3, PTL DEF Spec
-----------------------------------------------------------------------------
(***************************************************************************)
(* No row is inserted that the target already has.                         *)
(***************************************************************************)

\* What Places and ChunkAt are, before and after a step.
LEMMA PlaceOf ==
  /\ \A x : x \in Places <=>
       \/ \E r \in Readers : reader[r] = "send" /\ x = <<"reader", r>>
       \/ \E i \in 1 .. Len(chunkChan) : chunkChan[i] # NoChunk /\ x = <<"chunkChan", i>>
       \/ pc = "submit" /\ x = <<"inHand", 0>>
       \/ \E i \in 1 .. Len(jobChan) : x = <<"jobChan", i>>
       \/ \E w \in Workers : worker[w].st = "write" /\ x = <<"worker", w>>
  /\ \A x : x \in Places' <=>
       \/ \E r \in Readers' : reader'[r] = "send" /\ x = <<"reader", r>>
       \/ \E i \in 1 .. Len(chunkChan') : chunkChan'[i] # NoChunk /\ x = <<"chunkChan", i>>
       \/ pc' = "submit" /\ x = <<"inHand", 0>>
       \/ \E i \in 1 .. Len(jobChan') : x = <<"jobChan", i>>
       \/ \E w \in Workers : worker'[w].st = "write" /\ x = <<"worker", w>>
BY DEF Places

LEMMA ChunkThere ==
  /\ \A r : ChunkAt(<<"reader", r>>) = [reader |-> r, seq |-> Len(cuts[r]) - 1]
  /\ \A i : ChunkAt(<<"chunkChan", i>>) = chunkChan[i]
  /\ ChunkAt(<<"inHand", 0>>) = inHand
  /\ \A i : ChunkAt(<<"jobChan", i>>) = jobChan[i]
  /\ \A w : ChunkAt(<<"worker", w>>) = worker[w].job
  /\ \A r : ChunkAt(<<"reader", r>>)' = [reader |-> r, seq |-> Len(cuts'[r]) - 1]
  /\ \A i : ChunkAt(<<"chunkChan", i>>)' = chunkChan'[i]
  /\ ChunkAt(<<"inHand", 0>>)' = inHand'
  /\ \A i : ChunkAt(<<"jobChan", i>>)' = jobChan'[i]
  /\ \A w : ChunkAt(<<"worker", w>>)' = worker'[w].job
BY DEF ChunkAt

LEMMA PlacesValid ==
  ASSUME TypeOK, RefsOK, NEW x \in Places
  PROVE  ChunkAt(x) \in Chunks /\ ValidChunk(ChunkAt(x))
<1>1. ASSUME NEW r \in Readers, reader[r] = "send", x = <<"reader", r>>
      PROVE  ChunkAt(x) \in Chunks /\ ValidChunk(ChunkAt(x))
  <2>1. cuts[r] # <<>> /\ cuts[r] \in Seq(SourcePKs) /\ r \in Nat
    BY <1>1 DEF RefsOK, TypeOK, Readers
  <2>2. PICK n \in Nat \ {0} : n = Len(cuts[r])
    BY <2>1
  <2>3. ChunkAt(x) = [reader |-> r, seq |-> n - 1]
    BY <1>1, <2>2, ChunkThere
  <2> QED BY <1>1, <2>1, <2>2, <2>3 DEF Chunks, ValidChunk
<1>2. ASSUME NEW i \in 1 .. Len(chunkChan), chunkChan[i] # NoChunk, x = <<"chunkChan", i>>
      PROVE  ChunkAt(x) \in Chunks /\ ValidChunk(ChunkAt(x))
  BY <1>2, ChunkThere DEF TypeOK, RefsOK
<1>3. ASSUME pc = "submit", x = <<"inHand", 0>>
      PROVE  ChunkAt(x) \in Chunks /\ ValidChunk(ChunkAt(x))
  BY <1>3, ChunkThere DEF TypeOK, RefsOK
<1>4. ASSUME NEW i \in 1 .. Len(jobChan), x = <<"jobChan", i>>
      PROVE  ChunkAt(x) \in Chunks /\ ValidChunk(ChunkAt(x))
  BY <1>4, ChunkThere DEF TypeOK, RefsOK
<1>5. ASSUME NEW w \in Workers, worker[w].st = "write", x = <<"worker", w>>
      PROVE  ChunkAt(x) \in Chunks /\ ValidChunk(ChunkAt(x))
  BY <1>5, ChunkThere DEF TypeOK, RefsOK
<1> QED BY <1>1, <1>2, <1>3, <1>4, <1>5, PlaceOf

\* The rows between two keys of a reader's range are not those of another reader's.
LEMMA RangesApart ==
  ASSUME RowsInv, NEW r \in Readers, NEW s \in Readers, r # s,
         NEW p \in SourcePKs, ranges[r].minPK < p, p <= ranges[r].maxPK
  PROVE  ~(ranges[s].minPK < p /\ p <= ranges[s].maxPK)
<1>1. /\ p \in Int /\ r \in Int /\ s \in Int
      /\ ranges[r].minPK \in Int /\ ranges[r].maxPK \in Int
      /\ ranges[s].minPK \in Int /\ ranges[s].maxPK \in Int
  <2>1. TypeOK
    BY DEF RowsInv
  <2>2. r \in Int /\ s \in Int /\ p \in Int
    BY KeysAreIntegers DEF Readers
  <2> QED BY <2>1, <2>2, KeysAreIntegers, RangeFacts
<1>2. /\ r < s => ranges[r].maxPK <= ranges[s].minPK
      /\ s < r => ranges[s].maxPK <= ranges[r].minPK
  BY DEF RowsInv, RangesOrdered
<1> QED BY <1>1, <1>2

\* Where a chunk lies: after the previous ones of its reader, before the later ones
\* and what its reader has not read, inside the reader's range.
LEMMA ChunkWhere ==
  ASSUME RowsInv, NEW c \in Chunks, ValidChunk(c), NEW p \in Rows(c)
  PROVE  /\ c.reader \in Readers /\ p \in SourcePKs
         /\ ranges[c.reader].minPK < p /\ p <= ranges[c.reader].maxPK
         /\ ~(p \in Remaining(c.reader))
         /\ \A d \in Chunks : ValidChunk(d) /\ d.reader = c.reader /\ p \in Rows(d) => d.seq = c.seq
<1>1. PICK r, n : r = c.reader /\ n = Len(cuts[r])
  OBVIOUS
<1>2. /\ r \in Readers /\ c.seq \in Nat /\ c.seq + 1 \in 1 .. n /\ n \in Nat
      /\ \A k \in 0 .. n : Cut(r, k) \in Int
      /\ \A j, k \in 0 .. n : j <= k => Cut(r, j) <= Cut(r, k)
      /\ ranges[r].minPK \in Int /\ ranges[r].maxPK \in Int /\ Cut(r, 0) = ranges[r].minPK
  BY <1>1, ChunkFacts, CutsMonotone, RangeFacts, KeysAreIntegers DEF RowsInv
<1>3. p \in SourcePKs /\ p \in Int /\ Cut(r, c.seq) < p /\ p <= Cut(r, c.seq + 1)
  BY <1>1, KeysAreIntegers DEF Rows, PrevPK, LastPK
<1>4. c.seq \in 0 .. n /\ c.seq + 1 \in 0 .. n /\ 0 \in 0 .. n /\ n \in 0 .. n
  BY <1>2
<1>5. Cut(r, c.seq + 1) <= ranges[r].maxPK
  BY <1>1, <1>2 DEF RowsInv, CutsOrdered
<1>6. ranges[r].minPK < p /\ p <= ranges[r].maxPK
  <2>1. Cut(r, 0) <= Cut(r, c.seq) /\ Cut(r, 0) \in Int /\ Cut(r, c.seq) \in Int /\ Cut(r, c.seq + 1) \in Int
    BY <1>2, <1>4
  <2> QED BY <1>2, <1>3, <1>5, <2>1
<1>7. ~(p \in Remaining(r))
  <2>1. Cut(r, c.seq + 1) <= Cut(r, n) /\ Cut(r, n) \in Int /\ Cut(r, c.seq + 1) \in Int
    BY <1>2, <1>4
  <2>2. p \in Remaining(r) => Cut(r, n) < p
    BY <1>1 DEF Remaining, Scanned, ReaderPos
  <2> QED BY <1>3, <2>1, <2>2
<1>8. ASSUME NEW d \in Chunks, ValidChunk(d), d.reader = c.reader, p \in Rows(d)
      PROVE  d.seq = c.seq
  <2>1. d.seq \in Nat /\ d.seq + 1 \in 1 .. n
    BY <1>1, <1>8, ChunkFacts DEF RowsInv
  <2>2. Cut(r, d.seq) < p /\ p <= Cut(r, d.seq + 1)
    BY <1>1, <1>8 DEF Rows, PrevPK, LastPK
  <2>3. d.seq \in 0 .. n /\ d.seq + 1 \in 0 .. n
    BY <1>2, <2>1
  <2>4. /\ Cut(r, d.seq) \in Int /\ Cut(r, d.seq + 1) \in Int
        /\ Cut(r, c.seq) \in Int /\ Cut(r, c.seq + 1) \in Int
        /\ d.seq + 1 <= c.seq => Cut(r, d.seq + 1) <= Cut(r, c.seq)
        /\ c.seq + 1 <= d.seq => Cut(r, c.seq + 1) <= Cut(r, d.seq)
    BY <1>2, <1>4, <2>3
  <2> QED BY <1>2, <1>3, <2>1, <2>2, <2>4
<1> QED BY <1>1, <1>2, <1>3, <1>6, <1>7, <1>8

LEMMA ChunksApart ==
  ASSUME RowsInv, NEW c \in Chunks, ValidChunk(c)
  PROVE  /\ \A d \in Chunks : ValidChunk(d) /\ d # c => Rows(c) \cap Rows(d) = {}
         /\ \A r \in Readers : Rows(c) \cap Remaining(r) = {}
<1>1. ASSUME NEW d \in Chunks, ValidChunk(d), d # c, NEW p \in Rows(c), p \in Rows(d)
      PROVE  FALSE
  <2>1. /\ c.reader \in Readers /\ p \in SourcePKs
        /\ ranges[c.reader].minPK < p /\ p <= ranges[c.reader].maxPK
        /\ d.reader = c.reader => d.seq = c.seq
    BY <1>1, ChunkWhere
  <2>2. d.reader \in Readers /\ ranges[d.reader].minPK < p /\ p <= ranges[d.reader].maxPK
    BY <1>1, ChunkWhere
  <2>3. d.reader # c.reader
    BY <1>1, <2>1 DEF Chunks
  <2> QED BY <2>1, <2>2, <2>3, RangesApart
<1>2. ASSUME NEW r \in Readers, NEW p \in Rows(c), p \in Remaining(r)
      PROVE  FALSE
  <2>1. /\ c.reader \in Readers /\ p \in SourcePKs
        /\ ranges[c.reader].minPK < p /\ p <= ranges[c.reader].maxPK
        /\ ~(p \in Remaining(c.reader))
    BY ChunkWhere
  <2>2. ranges[r].minPK < p /\ p <= ranges[r].maxPK
    <3>1. PICK n : n = Len(cuts[r])
      OBVIOUS
    <3>2. /\ n \in Nat /\ \A k \in 0 .. n : Cut(r, k) \in Int
          /\ Cut(r, 0) <= Cut(r, n) /\ Cut(r, 0) = ranges[r].minPK /\ p \in Int
      <4>1. /\ n \in Nat /\ \A k \in 0 .. n : Cut(r, k) \in Int
            /\ \A j, k \in 0 .. n : j <= k => Cut(r, j) <= Cut(r, k)
        BY <3>1, CutsMonotone DEF RowsInv
      <4> QED BY <2>1, <4>1, RangeFacts, KeysAreIntegers DEF RowsInv
    <3>3. Cut(r, n) < p /\ p <= ranges[r].maxPK
      BY <1>2, <3>1 DEF Remaining, Scanned, ReaderPos
    <3>4. Cut(r, 0) \in Int /\ Cut(r, n) \in Int
      BY <3>2
    <3> QED BY <3>2, <3>3, <3>4
  <2> QED BY <1>2, <2>1, <2>2, RangesApart
<1> QED BY <1>1, <1>2

\* A step that moves chunks, or loses them, and writes no row of one that is left nor
\* one that is still to be read.
LEMMA FreshMove ==
  ASSUME ChunksFresh, UNCHANGED <<ranges, cuts>>,
         NEW f, \A x \in Places' : f[x] \in Places /\ ChunkAt(x)' = ChunkAt(f[x]),
         \A x, y \in Places' : f[x] = f[y] => x = y,
         ~Upsert => /\ \A x \in Places' : Rows(ChunkAt(f[x])) \cap (target' \ target) = {}
                    /\ \A r \in Readers : Remaining(r) \cap (target' \ target) = {}
  PROVE  ChunksFresh'
<1>1. /\ Readers' = Readers /\ \A r : Remaining(r)' = Remaining(r)
      /\ \A c : Rows(c)' = Rows(c)
  BY ChunksStable
<1>2. \A x, y \in Places' : ChunkAt(x)' = ChunkAt(y)' => x = y
  BY DEF ChunksFresh
<1>3. ASSUME ~Upsert, NEW x \in Places'
      PROVE  Rows(ChunkAt(x))' \cap target' = {}
  <2>1. PICK c : c = ChunkAt(f[x])
    OBVIOUS
  <2>2. Rows(c) \cap target = {} /\ Rows(c) \cap (target' \ target) = {}
    BY <1>3, <2>1 DEF ChunksFresh
  <2>3. ChunkAt(x)' = c
    BY <1>3, <2>1
  <2>4. Rows(ChunkAt(x))' = Rows(c)'
    BY <2>3 DEF Rows, PrevPK, LastPK, Cut
  <2> QED BY <1>1, <2>2, <2>4
<1>4. ASSUME ~Upsert, NEW r \in Readers
      PROVE  Remaining(r)' \cap target' = {}
  BY <1>1, <1>4 DEF ChunksFresh
<1> QED BY <1>1, <1>2, <1>3, <1>4 DEF ChunksFresh
LEMMA PlaceIn ==
  /\ \A r \in Readers : reader[r] = "send" => <<"reader", r>> \in Places
  /\ \A i \in 1 .. Len(chunkChan) : chunkChan[i] # NoChunk => <<"chunkChan", i>> \in Places
  /\ pc = "submit" => <<"inHand", 0>> \in Places
  /\ \A i \in 1 .. Len(jobChan) : <<"jobChan", i>> \in Places
  /\ \A w \in Workers : worker[w].st = "write" => <<"worker", w>> \in Places
BY DEF Places

LEMMA PlaceNext ==
  ASSUME NEW x \in Places'
  PROVE  \/ \E r \in Readers' : reader'[r] = "send" /\ x = <<"reader", r>>
         \/ \E i \in 1 .. Len(chunkChan') : chunkChan'[i] # NoChunk /\ x = <<"chunkChan", i>>
         \/ pc' = "submit" /\ x = <<"inHand", 0>>
         \/ \E i \in 1 .. Len(jobChan') : x = <<"jobChan", i>>
         \/ \E w \in Workers : worker'[w].st = "write" /\ x = <<"worker", w>>
BY PlaceOf

\* Every chunk that is still somewhere came from a place of its own.
ChunksMoved ==
  \E f : /\ \A x \in Places' : f[x] \in Places /\ ChunkAt(x)' = ChunkAt(f[x])
         /\ \A x, y \in Places' : f[x] = f[y] => x = y

\* A step leaves chunks in their channels or loses them, but for one that it moves from a
\* place to another one; the chunks of a channel move up by a or by b.
MoveOfOne(a, b, from, to) ==
  /\ UNCHANGED <<ranges, cuts>>
  /\ to \in Places' => from \in Places /\ ChunkAt(to)' = ChunkAt(from)
  /\ \A r \in Readers : reader'[r] = "send" /\ <<"reader", r>> # to =>
       reader[r] = "send" /\ <<"reader", r>> # from
  /\ \A i \in 1 .. Len(chunkChan') : chunkChan'[i] # NoChunk /\ <<"chunkChan", i>> # to =>
       /\ i + a \in 1 .. Len(chunkChan) /\ chunkChan[i + a] = chunkChan'[i]
       /\ <<"chunkChan", i + a>> # from
  /\ pc' = "submit" /\ <<"inHand", 0>> # to =>
       pc = "submit" /\ inHand' = inHand /\ <<"inHand", 0>> # from
  /\ \A i \in 1 .. Len(jobChan') : <<"jobChan", i>> # to =>
       /\ i + b \in 1 .. Len(jobChan) /\ jobChan[i + b] = jobChan'[i]
       /\ <<"jobChan", i + b>> # from
  /\ \A w \in Workers : worker'[w].st = "write" /\ <<"worker", w>> # to =>
       worker[w].st = "write" /\ worker'[w].job = worker[w].job /\ <<"worker", w>> # from

LEMMA OneMove ==
  ASSUME NEW a \in Nat, NEW b \in Nat, NEW from, NEW to, MoveOfOne(a, b, from, to)
  PROVE  ChunksMoved
<1> USE DEF MoveOfOne
<1> DEFINE Up(x) == CASE x[1] = "chunkChan" -> <<"chunkChan", x[2] + a>>
                      [] x[1] = "jobChan" -> <<"jobChan", x[2] + b>>
                      [] OTHER -> x
           Down(x) == CASE x[1] = "chunkChan" -> <<"chunkChan", x[2] - a>>
                        [] x[1] = "jobChan" -> <<"jobChan", x[2] - b>>
                        [] OTHER -> x
           f == [x \in Places' |-> IF x = to THEN from ELSE Up(x)]
           Good(x) == /\ Up(x) \in Places /\ ChunkAt(x)' = ChunkAt(Up(x)) /\ Up(x) # from
                      /\ Down(Up(x)) = x
<1>1. \A x \in Places' : f[x] = IF x = to THEN from ELSE Up(x)
  OBVIOUS
<1>2. Readers' = Readers
  BY DEF Readers
<1>3. ASSUME NEW x \in Places', x # to
      PROVE  Good(x)
  <2>1. ASSUME NEW r \in Readers, reader'[r] = "send", x = <<"reader", r>>
        PROVE  Good(x)
    <3>1. Up(x) = x /\ Down(x) = x
      BY <2>1
    <3>2. x \in Places /\ x # from
      BY <1>3, <2>1, PlaceIn
    <3>3. ChunkAt(x)' = ChunkAt(x)
      <4>1. cuts' = cuts
        OBVIOUS
      <4>2. /\ ChunkAt(<<"reader", r>>) = [reader |-> r, seq |-> Len(cuts[r]) - 1]
            /\ ChunkAt(<<"reader", r>>)' = [reader |-> r, seq |-> Len(cuts'[r]) - 1]
        BY ChunkThere
      <4> QED BY <2>1, <4>1, <4>2
    <3> HIDE DEF Up, Down
    <3> QED BY <3>1, <3>2, <3>3
  <2>2. ASSUME NEW i \in 1 .. Len(chunkChan'), chunkChan'[i] # NoChunk, x = <<"chunkChan", i>>
        PROVE  Good(x)
    <3>1. PICK y : y = <<"chunkChan", i + a>>
      OBVIOUS
    <3>2. Up(x) = y /\ Down(y) = x
      BY <2>2, <3>1
    <3>3. i + a \in 1 .. Len(chunkChan) /\ chunkChan[i + a] = chunkChan'[i] /\ y # from
      BY <1>3, <2>2, <3>1
    <3>4. y \in Places
      BY <2>2, <3>1, <3>3, PlaceIn
    <3>5. ChunkAt(x)' = ChunkAt(y)
      BY <2>2, <3>1, <3>3, ChunkThere
    <3> HIDE DEF Up, Down
    <3> QED BY <3>2, <3>3, <3>4, <3>5
  <2>3. ASSUME pc' = "submit", x = <<"inHand", 0>>
        PROVE  Good(x)
    <3>1. Up(x) = x /\ Down(x) = x
      BY <2>3
    <3>2. x \in Places /\ x # from
      BY <1>3, <2>3, PlaceIn
    <3>3. ChunkAt(x)' = ChunkAt(x)
      BY <1>3, <2>3, ChunkThere
    <3> HIDE DEF Up, Down
    <3> QED BY <3>1, <3>2, <3>3
  <2>4. ASSUME NEW i \in 1 .. Len(jobChan'), x = <<"jobChan", i>>
        PROVE  Good(x)
    <3>1. PICK y : y = <<"jobChan", i + b>>
      OBVIOUS
    <3>2. Up(x) = y /\ Down(y) = x
      BY <2>4, <3>1
    <3>3. i + b \in 1 .. Len(jobChan) /\ jobChan[i + b] = jobChan'[i] /\ y # from
      BY <1>3, <2>4, <3>1
    <3>4. y \in Places
      BY <2>4, <3>1, <3>3, PlaceIn
    <3>5. ChunkAt(x)' = ChunkAt(y)
      BY <2>4, <3>1, <3>3, ChunkThere
    <3> HIDE DEF Up, Down
    <3> QED BY <3>2, <3>3, <3>4, <3>5
  <2>5. ASSUME NEW w \in Workers, worker'[w].st = "write", x = <<"worker", w>>
        PROVE  Good(x)
    <3>1. Up(x) = x /\ Down(x) = x
      BY <2>5
    <3>2. x \in Places /\ x # from
      BY <1>3, <2>5, PlaceIn
    <3>3. ChunkAt(x)' = ChunkAt(x)
      BY <1>3, <2>5, ChunkThere
    <3> HIDE DEF Up, Down
    <3> QED BY <3>1, <3>2, <3>3
  <2> HIDE DEF Good
  <2> QED BY <1>2, <2>1, <2>2, <2>3, <2>4, <2>5, PlaceNext
<1> HIDE DEF f, Up, Down
<1>4. \A x \in Places' : f[x] \in Places /\ ChunkAt(x)' = ChunkAt(f[x])
  BY <1>1, <1>3
<1>5. \A x, y \in Places' : f[x] = f[y] => x = y
  BY <1>1, <1>3
<1> QED BY <1>4, <1>5 DEF ChunksMoved

\* No chunk is anywhere when an attempt begins, nor after a crash.
LEMMA NoPlaces ==
  ASSUME NEW rs, NEW st, st # "write", ResetAttempt(rs, st), pc' # "submit"
  PROVE  Places' = {}
<1>1. Readers' = 1 .. Len(rs) /\ chunkChan' = <<>> /\ jobChan' = <<>>
  BY DEF ResetAttempt, Readers
<1>2. \A r \in 1 .. Len(rs) : reader'[r] = "read"
  BY DEF ResetAttempt
<1>3. \A w \in Workers : worker'[w].st = st
  BY DEF ResetAttempt
<1>4. 1 .. Len(<<>>) = {}
  OBVIOUS
<1> QED BY <1>1, <1>2, <1>3, <1>4, PlaceNext
\* A step that moves one chunk at most and writes nothing.
LEMMA FreshOneMove ==
  ASSUME ChunksFresh, UNCHANGED <<ranges, cuts, target>>, ChunksMoved
  PROVE  ChunksFresh'
<1>1. PICK f : /\ \A x \in Places' : f[x] \in Places /\ ChunkAt(x)' = ChunkAt(f[x])
               /\ \A x, y \in Places' : f[x] = f[y] => x = y
  BY DEF ChunksMoved
<1>2. target' \ target = {}
  OBVIOUS
<1> QED BY <1>1, <1>2, FreshMove

\* A step that moves no chunk and writes nothing.
LEMMA FreshStay ==
  ASSUME ChunksFresh, UNCHANGED <<ranges, cuts, target, jobChan>>,
         \A r \in Readers : reader'[r] = "send" => reader[r] = "send",
         \A i \in 1 .. Len(chunkChan') : chunkChan'[i] # NoChunk =>
           i \in 1 .. Len(chunkChan) /\ chunkChan'[i] = chunkChan[i],
         pc' = "submit" => pc = "submit" /\ inHand' = inHand,
         \A w \in Workers : worker'[w].st = "write" =>
           worker[w].st = "write" /\ worker'[w].job = worker[w].job
  PROVE  ChunksFresh'
<1>1. PICK to, zero : to = <<"nowhere", 0>> /\ zero = 0
  OBVIOUS
<1>2. /\ to \notin Places' /\ zero \in Nat
      /\ \A x : to # <<"reader", x>> /\ to # <<"chunkChan", x>> /\ to # <<"inHand", x>>
      /\ \A x : to # <<"jobChan", x>> /\ to # <<"worker", x>>
  BY <1>1, PlaceNext
<1>3. MoveOfOne(zero, zero, to, to)
  BY <1>1, <1>2 DEF MoveOfOne
<1> QED BY <1>2, <1>3, OneMove, FreshOneMove

\* What remains after a page was read, and what the page was.
LEMMA ReadFresh ==
  ASSUME FreshInv, NEW r \in Readers, ReadChunk(r)
  PROVE  ChunksFresh'
<1>1. /\ TypeOK /\ RefsOK /\ ranges \in Seq(PKRangeRec)
      /\ UNCHANGED <<ranges, target, chunkChan, jobChan, inHand, pc, worker>>
      /\ reader \in [Readers -> {"read", "send", "fail", "done"}]
      /\ reader[r] = "read" /\ reader' = [reader EXCEPT ![r] = "send"]
  BY DEF FreshInv, RowsInv, TypeOK, ReadChunk, durable, execVars, consVars, poolVars
<1>2. PICK n : n = Len(cuts[r])
  OBVIOUS
<1>3. PICK c : c = [reader |-> r, seq |-> n]
  OBVIOUS
<1>4. /\ Readers' = Readers /\ n \in Nat /\ Len(cuts'[r]) = n + 1
      /\ \A x \in Readers \ {r} : cuts'[x] = cuts[x]
      /\ \A x \in Readers : \A k \in 0 .. Len(cuts[x]) : Cut(x, k)' = Cut(x, k)
      /\ Cut(r, n)' < Cut(r, n + 1)' /\ Rows(c)' \subseteq Remaining(r)
  BY <1>1, <1>2, <1>3, ReadFacts
<1>5. \A s \in Readers : Remaining(s)' \subseteq Remaining(s)
  <2> SUFFICES ASSUME NEW s \in Readers, NEW p \in Remaining(s)'
               PROVE  p \in Remaining(s)
    OBVIOUS
  <2>1. CASE s # r
    <3>1. ReaderPos(s)' = ReaderPos(s)
      BY <1>1, <1>4, <2>1 DEF ReaderPos, Cut
    <3> QED BY <1>1, <3>1 DEF Remaining, Scanned
  <2>2. CASE s = r
    <3>1. ReaderPos(r)' = Cut(r, n + 1)' /\ ReaderPos(r) = Cut(r, n) /\ Cut(r, n)' = Cut(r, n)
      BY <1>2, <1>4 DEF ReaderPos, Cut
    <3>2. p \in SourcePKs /\ p \in Int /\ Cut(r, n + 1)' < p /\ p <= ranges[r].maxPK
      BY <1>1, <2>2, <3>1, KeysAreIntegers DEF Remaining, Scanned
    <3>3. Cut(r, n)' \in Int
      <4>1. n \in 0 .. Len(cuts[r])
        BY <1>2, <1>4
      <4> QED BY <1>1, <3>1, <4>1, RangeFacts, KeysAreIntegers
    <3>4. TypeOK'
      BY <1>1, TypeStep DEF TypeInv, Next, ReaderStep
    <3>5. Cut(r, n + 1)' \in Int
      <4>1. cuts' \in [Readers' -> Seq(SourcePKs)]
        BY <3>4 DEF TypeOK
      <4>2. cuts'[r][n + 1] \in SourcePKs
        BY <1>4, <4>1
      <4>3. Cut(r, n + 1)' = cuts'[r][n + 1]
        BY <1>4 DEF Cut
      <4> QED BY <4>2, <4>3, KeysAreIntegers
    <3>6. Cut(r, n) < p
      BY <1>4, <3>1, <3>2, <3>3, <3>5
    <3> QED BY <2>2, <3>1, <3>2, <3>6 DEF Remaining, Scanned
  <2> QED BY <2>1, <2>2
<1>6. PICK here : here = <<"reader", r>>
  OBVIOUS
<1>7. ASSUME NEW x \in Places', x # here
      PROVE  x \in Places /\ ChunkAt(x)' = ChunkAt(x)
  <2>1. ASSUME NEW s \in Readers', reader'[s] = "send", x = <<"reader", s>>
        PROVE  x \in Places /\ ChunkAt(x)' = ChunkAt(x)
    <3>1. s \in Readers /\ s # r
      BY <1>4, <1>6, <1>7, <2>1
    <3>2. reader[s] = "send" /\ cuts'[s] = cuts[s]
      BY <1>1, <1>4, <2>1, <3>1
    <3>3. x \in Places
      BY <2>1, <3>1, <3>2, PlaceIn
    <3>4. /\ ChunkAt(x) = [reader |-> s, seq |-> Len(cuts[s]) - 1]
          /\ ChunkAt(x)' = [reader |-> s, seq |-> Len(cuts'[s]) - 1]
      BY <2>1, ChunkThere
    <3> QED BY <3>2, <3>3, <3>4
  <2>2. ASSUME NEW i \in 1 .. Len(chunkChan'), chunkChan'[i] # NoChunk, x = <<"chunkChan", i>>
        PROVE  x \in Places /\ ChunkAt(x)' = ChunkAt(x)
    <3>1. x \in Places
      BY <1>1, <2>2, PlaceIn
    <3> QED BY <1>1, <2>2, <3>1, ChunkThere
  <2>3. ASSUME pc' = "submit", x = <<"inHand", 0>>
        PROVE  x \in Places /\ ChunkAt(x)' = ChunkAt(x)
    <3>1. x \in Places
      BY <1>1, <2>3, PlaceIn
    <3> QED BY <1>1, <2>3, <3>1, ChunkThere
  <2>4. ASSUME NEW i \in 1 .. Len(jobChan'), x = <<"jobChan", i>>
        PROVE  x \in Places /\ ChunkAt(x)' = ChunkAt(x)
    <3>1. x \in Places
      BY <1>1, <2>4, PlaceIn
    <3> QED BY <1>1, <2>4, <3>1, ChunkThere
  <2>5. ASSUME NEW w \in Workers, worker'[w].st = "write", x = <<"worker", w>>
        PROVE  x \in Places /\ ChunkAt(x)' = ChunkAt(x)
    <3>1. x \in Places
      BY <1>1, <2>5, PlaceIn
    <3> QED BY <1>1, <2>5, <3>1, ChunkThere
  <2> QED BY <2>1, <2>2, <2>3, <2>4, <2>5, PlaceNext
<1>8. ChunkAt(here)' = c
  BY <1>3, <1>4, <1>6, ChunkThere
<1>9. ASSUME NEW x \in Places', x # here
      PROVE  ChunkAt(x)' # c
  <2>1. x \in Places /\ ChunkAt(x)' = ChunkAt(x)
    BY <1>7, <1>9
  <2>2. ValidChunk(ChunkAt(x))
    BY <1>1, <2>1, PlacesValid
  <2>3. ~ValidChunk(c)
    BY <1>2, <1>3, <1>4 DEF ValidChunk
  <2> QED BY <2>1, <2>2, <2>3
<1>10. \A x, y \in Places' : ChunkAt(x)' = ChunkAt(y)' => x = y
  BY <1>7, <1>8, <1>9 DEF FreshInv, ChunksFresh
<1>11. ASSUME ~Upsert
       PROVE  /\ \A x \in Places' : Rows(ChunkAt(x))' \cap target' = {}
              /\ \A s \in Readers : Remaining(s)' \cap target' = {}
  <2>1. \A s \in Readers : Remaining(s) \cap target = {}
    BY <1>11 DEF FreshInv, ChunksFresh
  <2>2. ASSUME NEW x \in Places', x # here
        PROVE  Rows(ChunkAt(x))' \cap target' = {}
    <3>1. x \in Places /\ ChunkAt(x)' = ChunkAt(x)
      BY <1>7, <2>2
    <3>2. PICK d : d = ChunkAt(x)
      OBVIOUS
    <3>3. d \in Chunks /\ ValidChunk(d) /\ Rows(d) \cap target = {}
      BY <1>1, <1>11, <3>1, <3>2, PlacesValid DEF FreshInv, ChunksFresh
    <3>4. Rows(d)' = Rows(d)
      BY <1>1, <3>3, ReadKeepsRows
    <3>5. Rows(ChunkAt(x))' = Rows(d)'
      BY <3>1, <3>2 DEF Rows, PrevPK, LastPK, Cut
    <3> QED BY <1>1, <3>3, <3>4, <3>5
  <2>3. Rows(ChunkAt(here))' \cap target' = {}
    <3>1. Rows(ChunkAt(here))' = Rows(c)'
      BY <1>8 DEF Rows, PrevPK, LastPK, Cut
    <3> QED BY <1>1, <1>4, <2>1, <3>1
  <2>4. \A s \in Readers : Remaining(s)' \cap target' = {}
    BY <1>1, <1>5, <2>1
  <2> QED BY <2>2, <2>3, <2>4
<1> QED BY <1>4, <1>10, <1>11 DEF ChunksFresh
\* The write of a chunk, or of a part of it: its rows are nowhere else.
LEMMA FreshWrite ==
  ASSUME FreshInv, NEW w \in Workers, worker[w].st = "write",
         NEW R, R \subseteq Rows(worker[w].job), target' = target \cup R,
         NEW st, st # "write", NEW job, SetWorker(w, st, job),
         UNCHANGED <<ranges, cuts, reader, chunkChan, jobChan, pc, inHand>>
  PROVE  ChunksFresh'
<1>1. /\ TypeOK /\ RefsOK /\ worker \in [Workers -> [st : WorkerStates, job : Chunks]]
      /\ worker[w].job \in Chunks /\ ValidChunk(worker[w].job)
  BY DEF FreshInv, RowsInv, TypeOK, RefsOK
<1>2. /\ worker'[w].st # "write" /\ \A v \in Workers \ {w} : worker'[v] = worker[v]
      /\ Readers' = Readers
  BY <1>1 DEF SetWorker, Readers
<1>3. PICK here : here = <<"worker", w>>
  OBVIOUS
<1>4. ASSUME NEW x \in Places'
      PROVE  x \in Places /\ x # here /\ ChunkAt(x)' = ChunkAt(x)
  <2>1. ASSUME NEW r \in Readers', reader'[r] = "send", x = <<"reader", r>>
        PROVE  x \in Places /\ x # here /\ ChunkAt(x)' = ChunkAt(x)
    <3>1. x \in Places /\ x # here
      BY <1>2, <1>3, <2>1, PlaceIn
    <3>2. cuts' = cuts
      OBVIOUS
    <3>3. /\ ChunkAt(<<"reader", r>>) = [reader |-> r, seq |-> Len(cuts[r]) - 1]
          /\ ChunkAt(<<"reader", r>>)' = [reader |-> r, seq |-> Len(cuts'[r]) - 1]
      BY ChunkThere
    <3> QED BY <2>1, <3>1, <3>2, <3>3
  <2>2. ASSUME NEW i \in 1 .. Len(chunkChan'), chunkChan'[i] # NoChunk, x = <<"chunkChan", i>>
        PROVE  x \in Places /\ x # here /\ ChunkAt(x)' = ChunkAt(x)
    <3>1. x \in Places /\ x # here
      BY <1>3, <2>2, PlaceIn
    <3> QED BY <2>2, <3>1, ChunkThere
  <2>3. ASSUME pc' = "submit", x = <<"inHand", 0>>
        PROVE  x \in Places /\ x # here /\ ChunkAt(x)' = ChunkAt(x)
    <3>1. x \in Places /\ x # here
      BY <1>3, <2>3, PlaceIn
    <3> QED BY <2>3, <3>1, ChunkThere
  <2>4. ASSUME NEW i \in 1 .. Len(jobChan'), x = <<"jobChan", i>>
        PROVE  x \in Places /\ x # here /\ ChunkAt(x)' = ChunkAt(x)
    <3>1. x \in Places /\ x # here
      BY <1>3, <2>4, PlaceIn
    <3> QED BY <2>4, <3>1, ChunkThere
  <2>5. ASSUME NEW v \in Workers, worker'[v].st = "write", x = <<"worker", v>>
        PROVE  x \in Places /\ x # here /\ ChunkAt(x)' = ChunkAt(x)
    <3>1. v # w /\ worker'[v] = worker[v]
      BY <1>2, <2>5
    <3>2. x \in Places /\ x # here
      BY <1>3, <2>5, <3>1, PlaceIn
    <3> QED BY <2>5, <3>1, <3>2, ChunkThere
  <2> QED BY <2>1, <2>2, <2>3, <2>4, <2>5, PlaceNext
<1>5. here \in Places /\ ChunkAt(here) = worker[w].job
  BY <1>3, PlaceIn, ChunkThere
<1>6. PICK d : d = worker[w].job
  OBVIOUS
<1>7. \A x \in Places' : Rows(ChunkAt(x)) \cap Rows(d) = {}
  <2> SUFFICES ASSUME NEW x \in Places'
               PROVE  Rows(ChunkAt(x)) \cap Rows(d) = {}
    OBVIOUS
  <2>1. ChunkAt(x) # d
    BY <1>4, <1>5, <1>6 DEF FreshInv, ChunksFresh
  <2>2. ChunkAt(x) \in Chunks /\ ValidChunk(ChunkAt(x))
    BY <1>1, <1>4, PlacesValid
  <2>3. RowsInv
    BY DEF FreshInv
  <2>4. Rows(d) \cap Rows(ChunkAt(x)) = {}
    BY <1>1, <1>6, <2>1, <2>2, <2>3, ChunksApart
  <2> QED BY <2>4
<1>8. \A r \in Readers : Remaining(r) \cap Rows(d) = {}
  <2>1. RowsInv
    BY DEF FreshInv
  <2> QED BY <1>1, <1>6, <2>1, ChunksApart
<1>9. target' \ target \subseteq Rows(d)
  BY <1>6
<1> DEFINE f == [x \in Places' |-> x]
<1>10. \A x \in Places' : f[x] = x
  OBVIOUS
<1> HIDE DEF f
<1>11. /\ \A x \in Places' : f[x] \in Places /\ ChunkAt(x)' = ChunkAt(f[x])
       /\ \A x, y \in Places' : f[x] = f[y] => x = y
       /\ \A x \in Places' : Rows(ChunkAt(f[x])) \cap (target' \ target) = {}
       /\ \A r \in Readers : Remaining(r) \cap (target' \ target) = {}
  BY <1>4, <1>7, <1>8, <1>9, <1>10
<1> QED BY <1>11, FreshMove DEF FreshInv

\* An attempt begins with a target without the rows it is going to read.
LEMMA ExecuteFresh ==
  ASSUME "cleanup" \notin Faults, RowsInv, Execute
  PROVE  ChunksFresh'
<1>1. PICK ckpt \in {saved, NoCheckpoint} :
        /\ ckpt \in Checkpoint \cup {NoCheckpoint}
        /\ ckpt # NoCheckpoint => MinPK - 1 <= ckpt.lastPK
        /\ target' = CleanTarget(ckpt)
        /\ \/ pc' = "loop" /\ ResetAttempt(JobRanges(ckpt), "idle")
           \/ pc' = "ok" /\ ResetAttempt(<<>>, "exited")
  BY ExecuteFacts DEF RowsInv
<1>2. Places' = {}
  BY <1>1, NoPlaces
<1> SUFFICES ASSUME ~Upsert, NEW r \in Readers', NEW p \in Remaining(r)', p \in target'
             PROVE  FALSE
  BY <1>2 DEF ChunksFresh
<1>3. CASE ResetAttempt(<<>>, "exited")
  <2>1. Readers' = {}
    BY <1>3 DEF ResetAttempt, Readers
  <2> QED BY <2>1
<1>4. CASE ResetAttempt(JobRanges(ckpt), "idle")
  <2>1. PICK R : R = JobRanges(ckpt) /\ ranges' = R /\ R \in Seq(PKRangeRec) /\ Len(R) \in Nat \ {0}
    BY <1>1, <1>4, JobRangesFacts DEF ResetAttempt
  <2>2. r \in 1 .. Len(R) /\ cuts'[r] = <<>> /\ 1 \in 1 .. Len(R)
    BY <1>4, <2>1 DEF ResetAttempt, Readers
  <2>3. \A i \in 1 .. Len(R) : R[i].minPK \in Int /\ R[i].maxPK \in Int
    <3>1. \A i \in 1 .. Len(R) : R[i] \in PKRangeRec
      BY <2>1
    <3> QED BY <3>1, KeysAreIntegers DEF PKRangeRec
  <2>4. p \in SourcePKs /\ p \in Int /\ R[r].minPK < p /\ p <= R[r].maxPK
    <3>1. ReaderPos(r)' = R[r].minPK
      BY <2>1, <2>2 DEF ReaderPos, Cut
    <3> QED BY <2>1, <3>1, KeysAreIntegers DEF Remaining, Scanned
  <2>5. R[r].maxPK <= MaxPK /\ R[1].minPK <= R[r].minPK
    <3>1. /\ R[r].maxPK <= MaxPK
          /\ 1 < r => R[1].minPK <= R[1].maxPK /\ R[1].maxPK <= R[r].minPK
      BY <1>1, <2>1, <2>2, JobRangesOrdered
    <3>2. CASE r = 1
      BY <2>3, <3>1, <3>2, <2>2
    <3>3. CASE 1 < r
      BY <2>2, <2>3, <3>1, <3>3
    <3> QED BY <2>2, <3>2, <3>3
  <2>6. R[1].minPK < p /\ p <= MaxPK /\ MaxPK \in Int
    BY <2>2, <2>3, <2>4, <2>5, KeysAreIntegers
  <2>7. \/ ckpt = NoCheckpoint /\ R[1].minPK = MinPK - 1
        \/ Len(R) = 1 /\ R[1].minPK = R[1].maxPK
        \/ ckpt # NoCheckpoint /\ R[1].minPK = ckpt.lastPK
    BY <1>1, <2>1, JobRangesFacts
  <2>8. CASE ckpt = NoCheckpoint /\ R[1].minPK = MinPK - 1
    <3>1. MinPK <= p /\ p <= MaxPK
      BY <2>4, <2>6, <2>8, KeysAreIntegers
    <3>2. p \in CleanTarget(ckpt) => p < MinPK \/ p > MaxPK
      BY <2>8, ConfigAssumption DEF CleanTarget
    <3> QED BY <1>1, <2>4, <3>1, <3>2, KeysAreIntegers
  <2>9. CASE Len(R) = 1 /\ R[1].minPK = R[1].maxPK
    <3>1. r = 1
      BY <2>2, <2>9
    <3> QED BY <2>2, <2>3, <2>4, <2>9, <3>1
  <2>10. CASE ckpt # NoCheckpoint /\ R[1].minPK = ckpt.lastPK
    <3>1. p \in CleanTarget(ckpt) => p <= ckpt.lastPK \/ p > MaxPK
      BY <2>10 DEF CleanTarget
    <3>2. ckpt.lastPK \in Int
      BY <2>2, <2>3, <2>10
    <3> QED BY <1>1, <2>4, <2>6, <2>10, <3>1, <3>2
  <2> QED BY <2>7, <2>8, <2>9, <2>10
<1> QED BY <1>1, <1>3, <1>4

LEMMA FreshInit == Init => FreshInv
<1> SUFFICES ASSUME Init PROVE FreshInv
  OBVIOUS
<1>1. /\ Readers = {} /\ 1 .. Len(chunkChan) = {} /\ 1 .. Len(jobChan) = {} /\ pc # "submit"
      /\ \A w \in Workers : worker[w].st # "write"
  BY DEF Init, Readers
<1>2. Places = {}
  BY <1>1 DEF Places
<1> QED BY <1>1, <1>2, RowsInit DEF FreshInv, ChunksFresh
\* The steps that move a chunk.
LEMMA FreshReceive ==
  ASSUME FreshInv, ReceiveChunk \/ ReceiveError
  PROVE  ChunksFresh'
<1>1. /\ UNCHANGED <<ranges, cuts, target, reader, jobChan, worker>>
      /\ chunkChan # <<>> /\ chunkChan' = Tail(chunkChan) /\ chunkChan \in Seq(Chunks)
  BY DEF ReceiveChunk, ReceiveError, durable, execVars, readVars, FreshInv, RowsInv, TypeOK
<1>2. /\ Head(chunkChan) = chunkChan[1] /\ 1 \in 1 .. Len(chunkChan)
      /\ \A i \in 1 .. Len(chunkChan') : i + 1 \in 1 .. Len(chunkChan) /\ chunkChan'[i] = chunkChan[i + 1]
      /\ \A i \in 1 .. Len(chunkChan') : i + 1 # 1
  BY <1>1, TailFacts
<1>3. \A i \in 1 .. Len(jobChan') : i + 0 \in 1 .. Len(jobChan) /\ jobChan[i + 0] = jobChan'[i]
  BY <1>1
<1>4. PICK from : from = <<"chunkChan", 1>>
  OBVIOUS
<1>5. /\ \A x : from # <<"reader", x>> /\ from # <<"jobChan", x>> /\ from # <<"worker", x>>
      /\ \A i \in 1 .. Len(chunkChan') : from # <<"chunkChan", i + 1>>
  BY <1>2, <1>4
<1>6. CASE ReceiveChunk
  <2>1. PICK to : to = <<"inHand", 0>>
    OBVIOUS
  <2>2. Head(chunkChan) # NoChunk /\ inHand' = Head(chunkChan)
    BY <1>6 DEF ReceiveChunk
  <2>3. from \in Places /\ ChunkAt(to)' = ChunkAt(from)
    BY <1>2, <1>4, <2>1, <2>2, PlaceIn, ChunkThere
  <2>4. MoveOfOne(1, 0, from, to)
    BY <1>1, <1>2, <1>3, <1>5, <2>1, <2>3 DEF MoveOfOne
  <2> QED BY <1>1, <2>4, OneMove, FreshOneMove DEF FreshInv
<1>7. CASE ReceiveError
  <2>1. PICK to : to = <<"nowhere", 0>>
    OBVIOUS
  <2>2. to \notin Places'
    BY <2>1, PlaceNext
  <2>3. pc' # "submit"
    BY <1>7 DEF ReceiveError
  <2>4. MoveOfOne(1, 0, from, to)
    BY <1>1, <1>2, <1>3, <1>5, <2>2, <2>3 DEF MoveOfOne
  <2> QED BY <1>1, <2>4, OneMove, FreshOneMove DEF FreshInv
<1> QED BY <1>6, <1>7

LEMMA FreshSubmit ==
  ASSUME FreshInv, Submit
  PROVE  ChunksFresh'
<1>1. /\ UNCHANGED <<ranges, cuts, target, reader, chunkChan, worker>>
      /\ jobChan' = Append(jobChan, inHand) /\ jobChan \in Seq(Chunks) /\ inHand \in Chunks
      /\ pc = "submit" /\ pc' = "loop"
  BY DEF Submit, durable, execVars, readVars, FreshInv, RowsInv, TypeOK
<1>2. PICK n : n = Len(jobChan)
  OBVIOUS
<1>3. PICK from, to : from = <<"inHand", 0>> /\ to = <<"jobChan", n + 1>>
  OBVIOUS
<1>4. /\ n \in Nat /\ jobChan'[n + 1] = inHand
      /\ \A i \in 1 .. Len(jobChan') : i \in 1 .. n \/ i = n + 1
      /\ \A i \in 1 .. n : jobChan'[i] = jobChan[i]
  BY <1>1, <1>2, AppendFacts
<1>5. \A i \in 1 .. Len(jobChan') : <<"jobChan", i>> # to =>
        i + 0 \in 1 .. Len(jobChan) /\ jobChan[i + 0] = jobChan'[i] /\ <<"jobChan", i + 0>> # from
  BY <1>2, <1>3, <1>4
<1>6. \A i \in 1 .. Len(chunkChan') : i + 0 \in 1 .. Len(chunkChan) /\ chunkChan[i + 0] = chunkChan'[i]
  BY <1>1
<1>7. \A x : from # <<"reader", x>> /\ from # <<"chunkChan", x>> /\ from # <<"worker", x>>
  BY <1>3
<1>8. from \in Places /\ ChunkAt(to)' = ChunkAt(from)
  <2>1. from \in Places
    BY <1>1, <1>3, PlaceIn
  <2>2. ChunkAt(from) = inHand
    BY <1>3, ChunkThere
  <2>3. ChunkAt(to)' = jobChan'[n + 1]
    BY <1>3, ChunkThere
  <2> QED BY <1>4, <2>1, <2>2, <2>3
<1>9. MoveOfOne(0, 0, from, to)
  BY <1>1, <1>5, <1>6, <1>7, <1>8 DEF MoveOfOne
<1> QED BY <1>1, <1>9, OneMove, FreshOneMove DEF FreshInv

LEMMA FreshSend ==
  ASSUME FreshInv, NEW r \in Readers, SendChunk(r)
  PROVE  ChunksFresh'
<1>1. PICK c : c = [reader |-> r, seq |-> Len(cuts[r]) - 1]
  OBVIOUS
<1>2. /\ UNCHANGED <<ranges, cuts, target, jobChan, worker, pc, inHand>>
      /\ chunkChan' = Append(chunkChan, c) /\ chunkChan \in Seq(Chunks)
      /\ reader[r] = "send" /\ reader \in [Readers -> {"read", "send", "fail", "done"}]
  BY <1>1 DEF SendChunk, durable, execVars, consVars, FreshInv, RowsInv, TypeOK
<1>3. /\ reader'[r] # "send" /\ \A s \in Readers \ {r} : reader'[s] = reader[s]
  BY <1>2 DEF SendChunk
<1>4. PICK n : n = Len(chunkChan)
  OBVIOUS
<1>5. PICK from, to : from = <<"reader", r>> /\ to = <<"chunkChan", n + 1>>
  OBVIOUS
<1>6. from \in Places /\ ChunkAt(from) = c /\ c \in Chunks
  <2>1. from \in Places
    BY <1>2, <1>5, PlaceIn
  <2>2. ChunkAt(from) = c
    BY <1>1, <1>5, ChunkThere
  <2> QED BY <2>1, <2>2, PlacesValid DEF FreshInv, RowsInv
<1>7. /\ n \in Nat /\ chunkChan'[n + 1] = c
      /\ \A i \in 1 .. Len(chunkChan') : i \in 1 .. n \/ i = n + 1
      /\ \A i \in 1 .. n : chunkChan'[i] = chunkChan[i]
  BY <1>2, <1>4, <1>6, AppendFacts
<1>8. \A i \in 1 .. Len(chunkChan') : <<"chunkChan", i>> # to =>
        /\ i + 0 \in 1 .. Len(chunkChan) /\ chunkChan[i + 0] = chunkChan'[i]
        /\ <<"chunkChan", i + 0>> # from
  BY <1>4, <1>5, <1>7
<1>9. \A i \in 1 .. Len(jobChan') : i + 0 \in 1 .. Len(jobChan) /\ jobChan[i + 0] = jobChan'[i]
  BY <1>2
<1>10. \A x : from # <<"inHand", x>> /\ from # <<"jobChan", x>> /\ from # <<"worker", x>>
  BY <1>5
<1>11. \A s \in Readers : reader'[s] = "send" => reader[s] = "send" /\ <<"reader", s>> # from
  BY <1>3, <1>5
<1>12. ChunkAt(to)' = ChunkAt(from)
  <2>1. ChunkAt(to)' = chunkChan'[n + 1]
    BY <1>5, ChunkThere
  <2> QED BY <1>6, <1>7, <2>1
<1>13. MoveOfOne(0, 0, from, to)
  BY <1>2, <1>6, <1>8, <1>9, <1>10, <1>11, <1>12 DEF MoveOfOne
<1> QED BY <1>2, <1>13, OneMove, FreshOneMove DEF FreshInv

LEMMA FreshTake ==
  ASSUME FreshInv, NEW w \in Workers, TakeJob(w) \/ DropJob(w)
  PROVE  ChunksFresh'
<1>1. /\ UNCHANGED <<ranges, cuts, target, reader, chunkChan, pc, inHand>>
      /\ jobChan # <<>> /\ jobChan' = Tail(jobChan) /\ jobChan \in Seq(Chunks)
      /\ worker \in [Workers -> [st : WorkerStates, job : Chunks]]
  BY DEF TakeJob, DropJob, durable, execVars, readVars, consVars, FreshInv, RowsInv, TypeOK
<1>2. /\ Head(jobChan) = jobChan[1] /\ 1 \in 1 .. Len(jobChan)
      /\ \A i \in 1 .. Len(jobChan') : i + 1 \in 1 .. Len(jobChan) /\ jobChan'[i] = jobChan[i + 1]
      /\ \A i \in 1 .. Len(jobChan') : i + 1 # 1
  BY <1>1, TailFacts
<1>3. \A i \in 1 .. Len(chunkChan') : i + 0 \in 1 .. Len(chunkChan) /\ chunkChan[i + 0] = chunkChan'[i]
  BY <1>1
<1>4. PICK from : from = <<"jobChan", 1>>
  OBVIOUS
<1>5. /\ \A x : /\ from # <<"reader", x>> /\ from # <<"chunkChan", x>>
                /\ from # <<"worker", x>> /\ from # <<"inHand", x>>
      /\ \A i \in 1 .. Len(jobChan') : from # <<"jobChan", i + 1>>
  BY <1>2, <1>4
<1>6. \A v \in Workers \ {w} : worker'[v] = worker[v]
  <2>1. \E st, job : SetWorker(w, st, job)
    BY DEF TakeJob, DropJob
  <2> QED BY <1>1, <2>1 DEF SetWorker
<1>7. CASE TakeJob(w)
  <2>1. PICK to : to = <<"worker", w>>
    OBVIOUS
  <2>2. worker'[w].job = jobChan[1]
    BY <1>1, <1>2, <1>7 DEF TakeJob, SetWorker
  <2>3. from \in Places /\ ChunkAt(to)' = ChunkAt(from)
    BY <1>2, <1>4, <2>1, <2>2, PlaceIn, ChunkThere
  <2>4. \A v \in Workers : <<"worker", v>> # to => v # w
    BY <2>1
  <2>5. MoveOfOne(0, 1, from, to)
    BY <1>1, <1>2, <1>3, <1>5, <1>6, <2>3, <2>4 DEF MoveOfOne
  <2> QED BY <1>1, <2>5, OneMove, FreshOneMove DEF FreshInv
<1>8. CASE DropJob(w)
  <2>1. PICK to : to = <<"nowhere", 0>>
    OBVIOUS
  <2>2. to \notin Places'
    BY <2>1, PlaceNext
  <2>3. worker'[w].st = "exited"
    BY <1>1, <1>8 DEF DropJob, SetWorker
  <2>4. MoveOfOne(0, 1, from, to)
    BY <1>1, <1>2, <1>3, <1>5, <1>6, <2>2, <2>3 DEF MoveOfOne
  <2> QED BY <1>1, <2>4, OneMove, FreshOneMove DEF FreshInv
<1> QED BY <1>7, <1>8

\* Every step leaves each chunk in one place, and its rows out of the target.
LEMMA FreshStep ==
  ASSUME "cleanup" \notin Faults, FreshInv, [Next]_vars
  PROVE  FreshInv'
<1> USE DEF durable, execVars, readVars, consVars, ackVars, poolVars
<1>1. RowsInv' /\ RowsInv /\ TypeOK /\ ChunksFresh
  BY RowsStep DEF FreshInv, RowsInv
<1> SUFFICES ChunksFresh'
  BY <1>1 DEF FreshInv
<1>2. CASE Execute
  BY <1>1, <1>2, ExecuteFresh
<1>3. CASE Crash
  <2>1. ResetAttempt(<<>>, "exited") /\ pc' # "submit"
    BY <1>3 DEF Crash
  <2>2. Places' = {}
    BY <2>1, NoPlaces
  <2>3. Readers' = {}
    BY <2>1 DEF ResetAttempt, Readers
  <2> QED BY <2>2, <2>3 DEF ChunksFresh
<1>4. ASSUME NEW r \in Readers, ReaderStep(r)
      PROVE  ChunksFresh'
  <2>1. CASE ReadChunk(r)
    BY <1>4, <2>1, ReadFresh
  <2>2. CASE SendChunk(r)
    BY <1>4, <2>2, FreshSend
  <2>3. CASE ReadNothing(r) \/ ReadFails(r)
    <3>1. /\ UNCHANGED <<ranges, cuts, target, jobChan, chunkChan, pc, inHand, worker>>
          /\ reader \in [Readers -> {"read", "send", "fail", "done"}]
          /\ \E st \in {"done", "fail"} : reader' = [reader EXCEPT ![r] = st]
      BY <1>1, <2>3 DEF ReadNothing, ReadFails, TypeOK
    <3>2. \A s \in Readers : reader'[s] = "send" => reader[s] = "send"
      BY <3>1
    <3> QED BY <1>1, <3>1, <3>2, FreshStay
  <2>4. CASE SendError(r)
    <3>1. /\ UNCHANGED <<ranges, cuts, target, jobChan, pc, inHand, worker>>
          /\ reader \in [Readers -> {"read", "send", "fail", "done"}]
          /\ reader' = [reader EXCEPT ![r] = "done"]
          /\ chunkChan' = Append(chunkChan, NoChunk) /\ chunkChan \in Seq(Chunks)
      BY <1>1, <2>4 DEF SendError, TypeOK
    <3>2. \A s \in Readers : reader'[s] = "send" => reader[s] = "send"
      BY <3>1
    <3>3. NoChunk \in Chunks
      BY DEF NoChunk, Chunks
    <3>4. \A i \in 1 .. Len(chunkChan') : chunkChan'[i] # NoChunk =>
            i \in 1 .. Len(chunkChan) /\ chunkChan'[i] = chunkChan[i]
      BY <3>1, <3>3, AppendFacts
    <3> QED BY <1>1, <3>1, <3>2, <3>4, FreshStay
  <2> QED BY <1>4, <2>1, <2>2, <2>3, <2>4 DEF ReaderStep
<1>5. CASE ReceiveChunk \/ ReceiveError
  BY <1>5, FreshReceive
<1>6. CASE Submit
  BY <1>6, FreshSubmit
<1>7. CASE ChunksClosed \/ SubmitCancelled \/ Fail \/ Succeed \/ AckStep \/ Cancel \/ UNCHANGED vars
  <2>1. /\ UNCHANGED <<ranges, cuts, target, jobChan, chunkChan, worker, reader>>
        /\ pc' = "submit" => pc = "submit" /\ inHand' = inHand
    BY <1>7 DEF ChunksClosed, SubmitCancelled, Fail, Succeed, AckStep, ReceiveAck, DrainPending,
                Cancel, vars
  <2> QED BY <1>1, <2>1, FreshStay
<1>8. ASSUME NEW w \in Workers, WorkerStep(w)
      PROVE  ChunksFresh'
  <2>1. CASE TakeJob(w) \/ DropJob(w)
    BY <1>8, <2>1, FreshTake
  <2>2. CASE Write(w)
    <3>1. PICK job : /\ worker[w].st = "write" /\ target' = target \cup Rows(worker[w].job)
                     /\ SetWorker(w, "count", job)
                     /\ UNCHANGED <<ranges, cuts, reader, chunkChan, jobChan, pc, inHand>>
      BY <2>2 DEF Write
    <3> QED BY <1>8, <3>1, FreshWrite
  <2>3. CASE WriteFails(w)
    <3>1. PICK k : target' = target \cup Torn(worker[w].job, k)
      BY <2>3 DEF WriteFails
    <3>2. /\ worker[w].st = "write" /\ SetWorker(w, "exited", NoChunk)
          /\ UNCHANGED <<ranges, cuts, reader, chunkChan, jobChan, pc, inHand>>
      BY <2>3 DEF WriteFails
    <3>3. PICK T : T = Torn(worker[w].job, k) /\ T \subseteq Rows(worker[w].job)
      BY DEF Torn
    <3> QED BY <1>8, <3>1, <3>2, <3>3, FreshWrite
  <2>4. CASE JobsClosed(w) \/ CountRows(w) \/ SendAck(w) \/ SkipAck(w) \/ AckCancelled(w)
    <3>1. /\ UNCHANGED <<ranges, cuts, target, jobChan, chunkChan, pc, inHand, reader>>
          /\ \E st \in {"exited", "ack", "idle"} : \E m : SetWorker(w, st, m)
      BY <2>4 DEF JobsClosed, CountRows, SendAck, SkipAck, AckCancelled
    <3>2. worker \in [Workers -> [st : WorkerStates, job : Chunks]]
      BY <1>1 DEF TypeOK
    <3>3. worker'[w].st # "write" /\ \A v \in Workers \ {w} : worker'[v] = worker[v]
      BY <3>1, <3>2 DEF SetWorker
    <3> QED BY <1>1, <3>1, <3>3, FreshStay
  <2> QED BY <1>8, <2>1, <2>2, <2>3, <2>4 DEF WorkerStep
<1> QED BY <1>2, <1>3, <1>4, <1>5, <1>6, <1>7, <1>8
        DEF Next, ConsumerStep, Terminated

\* While the deletion of what earlier attempts wrote succeeds, no writer ever inserts a row
\* that the target has: in no order of reads, writes, errors, crashes and resumes, even of
\* one whose checkpoint could not be read.
THEOREM InsertsFresh ==
  ASSUME "cleanup" \notin Faults
  PROVE  Spec => []NoDuplicateInsert
<1>1. Init => FreshInv
  BY FreshInit
<1>2. FreshInv /\ [Next]_vars => FreshInv'
  BY FreshStep
<1>3. FreshInv => NoDuplicateInsert
  <2> SUFFICES ASSUME FreshInv, NEW w \in Workers, worker[w].st = "write", ~Upsert
               PROVE  Rows(worker[w].job) \cap target = {}
    BY DEF NoDuplicateInsert, DuplicateKey
  <2>1. PICK here : here = <<"worker", w>>
    OBVIOUS
  <2>2. here \in Places /\ ChunkAt(here) = worker[w].job
    BY <2>1, PlaceIn, ChunkThere
  <2> QED BY <2>2 DEF FreshInv, ChunksFresh
<1> QED BY <1>1, <1>2, <1>3, PTL DEF Spec

=============================================================================
