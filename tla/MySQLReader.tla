---------------------------- MODULE MySQLReader ---------------------------
(***************************************************************************)
(* The reader of the MySQL driver (mysql/reader.go).  See TableReads for   *)
(* the terms.                                                              *)
(***************************************************************************)
EXTENDS TableReads

\* The query and its arguments; the date filter is part of it.
BuildKeysetQuery(table, lastPK, maxPK, filtered, limit) ==
  First(limit, {k \in IF filtered THEN table.changed ELSE table.keys :
                  lastPK < k /\ (maxPK # NoKey => k <= maxPK.val)})

BuildRowNumberQuery(table, rowNum, limit) ==
  Sorted(Numbered(table.keys, rowNum, rowNum + limit))

\* Whether the batch is the last one.
KeysetDone(table, batch, maxPK, limit) ==
  \/ maxPK # NoKey /\ CompareKeys(LastKey(table, batch), maxPK) >= 0
  \/ Len(batch) < limit

\* The loop of readKeysetPagination, by the key it has reached.
KeysetBatches(table, part, filtered, limit) ==
  LET from[last \in {part.minPK.val} \cup table.keys] ==
        LET batch == BuildKeysetQuery(table, last, part.maxPK, filtered, limit)
        IN IF batch = << >> THEN << >>
           ELSE <<batch>> \o (IF KeysetDone(table, batch, part.maxPK, limit) THEN << >>
                              ELSE from[batch[Len(batch)]])
  IN from[part.minPK.val]

\* The loop of readRowNumberPagination, which is not given the date filter.
RowNumberBatches(table, part, limit) ==
  LET size(row) == IF row + limit > part.endRow THEN part.endRow - row ELSE limit
      from[row \in 0 .. part.endRow] ==
        LET batch == BuildRowNumberQuery(table, row, size(row))
        IN IF row >= part.endRow \/ batch = << >> THEN << >>
           ELSE <<batch>> \o from[row + Len(batch)]
  IN IF part.startRow >= part.endRow THEN << >> ELSE from[part.startRow]

\* The loop of readFullTable, one query without an order or the date filter: rows.Next
\* tells the end of the rows as it tells a lost connection, and rows.Err is not asked.
FullTable(table, limit, good) ==
  [batches |-> Chunks(SubSeq(table.heap, 1, SmallerOf(good, Len(table.heap))), limit),
   error   |-> FALSE]

ReadTable(table, part, filtered, limit, good) ==
  IF part.minPK # NoKey THEN Delivered(KeysetBatches(table, part, filtered, limit), good)
  ELSE IF part.startRow > 0 THEN Delivered(RowNumberBatches(table, part, limit), good)
  ELSE FullTable(table, limit, good)

\* The statistics, unless they say that the table is empty or cannot be read.
GetRowCount(table, statistics) == IF statistics > 0 THEN statistics ELSE Cardinality(table.keys)

\* One partition for each tile.
GetPartitionBoundaries(table, n) ==
  LET tiles == Ntile(table.keys, n)
  IN [i \in DOMAIN tiles |->
        [minPK |-> LowestOf(tiles[i]), maxPK |-> HighestOf(tiles[i]),
         rowCount |-> Cardinality(tiles[i])]]
=============================================================================
