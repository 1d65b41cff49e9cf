---------------------------- MODULE TableReads ----------------------------
(***************************************************************************)
(* What the four database drivers share when they read a table: the rows   *)
(* of a query, the comparison of keys, and the dispatch on the kind of     *)
(* pagination.  The driver.Reader of each database is a module of its own: *)
(* PostgresReader, MySQLReader, MSSQLReader and OracleReader.              *)
(*                                                                         *)
(* A row is its primary key, a number.  A table is a record: keys, the set *)
(* of its rows; heap, the order in which a SELECT without ORDER BY returns *)
(* them; changed, the rows that a date filter keeps; kind, the dynamic     *)
(* type in which the database driver delivers a key.  A partition has the  *)
(* fields of driver.Partition.  A read gets good rows from the database    *)
(* before the connection is lost, and ends with the batches it has sent    *)
(* and, perhaps, an error.                                                 *)
(***************************************************************************)
EXTENDS Integers, Sequences, FiniteSets

NoKey == [kind |-> "nil", val |-> 0]

Sorted(S) == [i \in 1 .. Cardinality(S) |-> CHOOSE k \in S : Cardinality({j \in S : j <= k}) = i]
LowestOf(S) == CHOOSE k \in S : \A j \in S : k <= j
HighestOf(S) == CHOOSE k \in S : \A j \in S : j <= k
SmallerOf(a, b) == IF a < b THEN a ELSE b

\* The rows in batches of at most limit.
Chunks(rows, limit) ==
  [i \in 1 .. (Len(rows) + limit - 1) \div limit |->
     SubSeq(rows, (i - 1) * limit + 1, SmallerOf(i * limit, Len(rows)))]
RowsOf(batches) ==
  LET rows[i \in 0 .. Len(batches)] == IF i = 0 THEN << >> ELSE rows[i - 1] \o batches[i]
  IN rows[Len(batches)]

\* A batch that ScanRows cannot complete is not sent, its error is.
Delivered(batches, good) ==
  LET complete == {i \in 0 .. Len(batches) : Len(RowsOf(SubSeq(batches, 1, i))) <= good}
      last == HighestOf(complete)
  IN [batches |-> SubSeq(batches, 1, last), error |-> last < Len(batches)]

\* ORDER BY, then LIMIT, TOP or FETCH FIRST.
First(n, S) == IF Cardinality(S) <= n THEN Sorted(S) ELSE SubSeq(Sorted(S), 1, n)

\* ROW_NUMBER() OVER (ORDER BY the key): rows from + 1 .. to.
Numbered(S, from, to) ==
  {k \in S : LET number == Cardinality({j \in S : j <= k}) IN from < number /\ number <= to}

\* CompareKeys: keys whose dynamic types differ, or are of no known type, are equal.
Comparable == {"int64", "int32", "int", "float64", "string"}
CompareKeys(a, b) ==
  IF a.kind # b.kind \/ a.kind \notin Comparable \/ a.val = b.val THEN 0
  ELSE IF a.val < b.val THEN -1 ELSE 1

\* ScanRows: the key of a batch is that of its last row.
LastKey(table, batch) == [kind |-> table.kind, val |-> batch[Len(batch)]]

\* NTILE(n): the first (rows % n) tiles have one row more than the others; there is
\* no empty tile.
Ntile(S, n) ==
  LET rows == Cardinality(S)
      size(i) == rows \div n + (IF i <= rows % n THEN 1 ELSE 0)
      before[i \in 0 .. n] == IF i = 0 THEN 0 ELSE before[i - 1] + size(i)
  IN [i \in 1 .. (IF rows < n THEN rows ELSE n) |-> Numbered(S, before[i - 1], before[i])]
=============================================================================
