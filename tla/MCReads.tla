------------------------------- MODULE MCReads -------------------------------
(***************************************************************************)
(* The pure algorithms that decide which rows a job reads, on every small  *)
(* input: splitPKRange (PKRange), and the reads and the partitions of the  *)
(* four drivers.  Each input is an initial state, a property compares the  *)
(* result with the rows that have to be read.                              *)
(***************************************************************************)
EXTENDS PKRange, TableReads, SequencesExt

CONSTANTS MaxReaders,     \* the parallel readers of a job
          MaxKey,         \* the keys of the tables
          MaxLimit        \* the rows of a batch

PG == INSTANCE PostgresReader
MY == INSTANCE MySQLReader
MS == INSTANCE MSSQLReader
ORA == INSTANCE OracleReader

ASSUME InputsAssumption ==
  MaxReaders \in Nat /\ MaxKey \in Nat /\ MaxLimit \in Nat

VARIABLES input

Int64Key(k) == [kind |-> "int64", val |-> k]
TableOf(keys, changed) ==
  [keys |-> keys, changed |-> changed \cap keys, heap |-> Reverse(Sorted(keys)), kind |-> "int64"]

\* A row-number partition, a keyset partition, or the whole table.
Parts ==
  [minPK : {Int64Key(k) : k \in 0 .. MaxKey}, maxPK : {NoKey} \cup {Int64Key(k) : k \in 1 .. MaxKey},
   startRow : {0}, endRow : {0}]
    \cup [minPK : {NoKey}, maxPK : {NoKey}, startRow : 1 .. MaxKey - 1, endRow : 2 .. MaxKey]
    \cup [minPK : {NoKey}, maxPK : {NoKey}, startRow : {0}, endRow : {0}]

ReadsInit ==
  \/ \E minPK, maxPK \in PKValue, n \in 1 .. MaxReaders :
       /\ minPK.val <= maxPK.val
       /\ input = [of |-> "split", minPK |-> minPK, maxPK |-> maxPK, n |-> n]
  \/ \E keys, changed \in SUBSET (1 .. MaxKey), part \in Parts, filtered \in BOOLEAN,
        limit \in 1 .. MaxLimit, good \in 0 .. MaxKey :
       /\ changed \subseteq keys /\ (filtered \/ changed = {})
       /\ good <= Cardinality(keys)
       /\ part.startRow > 0 => part.startRow < part.endRow
       /\ input = [of |-> "read", table |-> TableOf(keys, changed), part |-> part,
                   filtered |-> filtered, limit |-> limit, good |-> good]
  \/ \E keys \in SUBSET (1 .. 2 * MaxKey) \ {{}}, n \in 1 .. MaxReaders :
       input = [of |-> "partition", table |-> TableOf(keys, {}), n |-> n]

ReadsNext == UNCHANGED input

ReadsSpec == ReadsInit /\ [][ReadsNext]_input

Ranges == SplitPKRange(input.minPK, input.maxPK, input.n)

\* How many readers scan key p.
Readings(p) == Cardinality({i \in DOMAIN Ranges : p \in Scanned(Ranges[i], {p})})

\* The keys of the job: a first attempt starts at its smallest key, a resume,
\* whose key is not an integer, after the key it resumes from.
ToRead ==
  IF input.minPK.isInt THEN input.minPK.val .. input.maxPK.val
  ELSE input.minPK.val + 1 .. input.maxPK.val

NoOverflow == input.minPK.val > -HalfWidth /\ input.maxPK.val - input.minPK.val < HalfWidth

\* Every key of the job is read by exactly one reader, and no other key is read,
\* unless the job is a single key and the readers are several.
EachKeyReadOnce ==
  input.of = "split" /\ NoOverflow /\ input.maxPK.isInt
    /\ (input.n > 1 => input.minPK.val < input.maxPK.val) =>
      \A p \in Int64 : Readings(p) = IF p \in ToRead THEN 1 ELSE 0

Reads ==
  LET r(ReadTable(_, _, _, _, _)) ==
        ReadTable(input.table, input.part, input.filtered, input.limit, input.good)
  IN {r(PG!ReadTable), r(MY!ReadTable), r(MS!ReadTable)}

\* An integer of Oracle is a NUMBER: its keys are godror.Numbers, made strings only after
\* ScanRows has taken the last key of a batch.
OracleRead ==
  ORA!ReadTable([input.table EXCEPT !.kind = "Number"],
                input.part, input.filtered, input.limit, input.good)

Filtered == IF input.filtered THEN input.table.changed ELSE input.table.keys

IsPrefixOf(s, t) == Len(s) <= Len(t) /\ s = SubSeq(t, 1, Len(s))

KeysetRead == input.of = "read" /\ input.part.minPK # NoKey

RangeOf(part) ==
  {k \in Filtered : part.minPK.val < k /\ (part.maxPK # NoKey => k <= part.maxPK.val)}

ReadsItsRange(r) ==
  LET range == Sorted(RangeOf(input.part))
  IN /\ IsPrefixOf(RowsOf(r.batches), range)
     /\ r.error \/ RowsOf(r.batches) = range
     /\ \A i \in DOMAIN r.batches : Len(r.batches[i]) \in 1 .. input.limit

\* A keyset read, cut into batches of any size, delivers the rows after minPK up to maxPK
\* that the date filter keeps, each once and in order; when the connection is lost it
\* delivers the first of them and an error.  The Oracle driver does so only when it is
\* given no maxPK.
KeysetReadsItsRange ==
  KeysetRead =>
    /\ \A r \in Reads : ReadsItsRange(r)
    /\ input.part.maxPK = NoKey => ReadsItsRange(OracleRead)

\* When readKeysetPagination of the Oracle driver ends a read that has a maxPK, it has, as
\* its comment says, reached the end: every row up to maxPK has been sent, or an error.
\* It has not: see the known divergences in README.md.
OracleReachesTheEnd == KeysetRead => ReadsItsRange(OracleRead)

\* Row-number partitions that share a boundary deliver each row once: the partition from
\* startRow to endRow delivers the rows numbered startRow + 1 .. endRow, in whatever
\* batches.  The Oracle driver, which starts one row earlier, is left out.
RowNumberReadsItsRows ==
  input.of = "read" /\ input.part.startRow > 0 /\ input.good = Cardinality(input.table.keys) =>
    LET r(ReadTable(_, _, _, _, _)) ==
          ReadTable(input.table, input.part, input.filtered, input.limit, input.good)
    IN \A d \in {r(PG!ReadTable), r(MY!ReadTable), r(MS!ReadTable)} :
         RowsOf(d.batches) = Sorted(Numbered(input.table.keys, input.part.startRow, input.part.endRow))

\* Whatever the gaps between the keys, and be there more partitions than rows, each row
\* is in exactly one of the partitions that a driver cuts a table into.
PartitionsCoverTable ==
  input.of = "partition" =>
    \A ps \in {PG!GetPartitionBoundaries(input.table, input.n),
               MY!GetPartitionBoundaries(input.table, input.n),
               MS!GetPartitionBoundaries(input.table, input.n, 0),
               ORA!GetPartitionBoundaries(input.table, input.n)} :
      \A k \in input.table.keys :
        Cardinality({i \in DOMAIN ps : ps[i].minPK <= k /\ k <= ps[i].maxPK}) = 1
=============================================================================
