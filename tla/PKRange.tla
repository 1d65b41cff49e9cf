------------------------------ MODULE PKRange ------------------------------
(***************************************************************************)
(* How transfer.go cuts the primary keys of a job into the ranges that its *)
(* parallel readers scan.  A reader scans its range with                   *)
(*     pk > minPK AND pk <= maxPK                                          *)
(* so that the smallest key has to be decremented once, by whoever knows   *)
(* that it is the smallest key.  Go's 0-based readers are 1..Len here.     *)
(***************************************************************************)
EXTENDS Integers, Sequences

CONSTANT HalfWidth      \* 2^63 for Go's int64; small in the model

ASSUME HalfWidthAssumption == HalfWidth \in Nat \ {0}

Int64 == -HalfWidth .. HalfWidth - 1

\* Two's-complement arithmetic: the int64 that x wraps to.
Wrap(x) == ((x + HalfWidth) % (2 * HalfWidth)) - HalfWidth

(***************************************************************************)
(* A key as Go's `any` holds it.  isInt tells whether its dynamic type is  *)
(* int, int32 or int64; a key that came back from a checkpoint is a        *)
(* float64, because it went through JSON, and is not.                      *)
(***************************************************************************)
PKValue == [isInt : BOOLEAN, val : Int64]

DecrementPK(pk) == IF pk.isInt THEN Wrap(pk.val - 1) ELSE pk.val

PKRangeRec == [minPK : Int64, maxPK : Int64]

TotalRange(minPK, maxPK) == Wrap(maxPK.val - minPK.val)

\* The number of ranges and their size, when the keys can be split.
RangeSize(total, n) == IF total \div n < 1 THEN 1 ELSE total \div n
RangeCount(total, n) == IF total \div n < 1 THEN total ELSE n

\* Faulty: the last range does not get the remainder of the division.
NthRangeNoRemainder(minVal, maxVal, size, k, i) ==
  [minPK |-> IF i = 1 THEN Wrap(minVal - 1) ELSE Wrap(minVal + (i - 1) * size),
   maxPK |-> Wrap(minVal + i * size)]

\* The i-th of k ranges of the given size.
NthRange(minVal, maxVal, size, k, i) ==
  [minPK |-> IF i = 1 THEN Wrap(minVal - 1) ELSE Wrap(minVal + (i - 1) * size),
   maxPK |-> IF i = k THEN maxVal ELSE Wrap(minVal + i * size)]

SplitPKRange(minPK, maxPK, n) ==
  LET total == TotalRange(minPK, maxPK)
      whole(lo) == << [minPK |-> lo, maxPK |-> maxPK.val] >>
  IN IF n <= 1 \/ ~minPK.isInt THEN whole(DecrementPK(minPK))
     ELSE IF ~maxPK.isInt \/ total <= 0 THEN whole(minPK.val)
     ELSE [i \in 1 .. RangeCount(total, n) |->
             NthRange(minPK.val, maxPK.val, RangeSize(total, n), RangeCount(total, n), i)]

\* Ranges that follow each other without a gap or an overlap, from lo up to hi.
Consecutive(rs, lo, hi) ==
  /\ Len(rs) > 0
  /\ rs[1].minPK = lo /\ rs[Len(rs)].maxPK = hi
  /\ \A i \in 1 .. Len(rs) : rs[i].minPK <= rs[i].maxPK
  /\ \A i \in 1 .. Len(rs) - 1 : rs[i + 1].minPK = rs[i].maxPK

\* The keys a reader of range r scans, among the keys of the table.
Scanned(r, keys) == {p \in keys : r.minPK < p /\ p <= r.maxPK}
=============================================================================
