---------------------------- MODULE OracleReader --------------------------
(***************************************************************************)
(* The reader of the Oracle driver (oracle/reader.go).  See TableReads for *)
(* the terms.  A NUMBER arrives as a godror.Number.                        *)
(***************************************************************************)
EXTENDS TableReads

\* The query and its arguments; the date filter is part of it.
BuildKeysetQuery(table, lastPK, maxPK, filtered, limit) ==
  First(limit, {k \in IF filtered THEN table.changed ELSE table.keys :
                  lastPK < k /\ (maxPK # NoKey => k <= maxPK.val)})

BuildRowNumberQuery(table, rowNum, limit) ==
  Sorted(Numbered(table.keys, rowNum, rowNum + limit))

\* Whether the batch is the last one.
KeysetDone(table, batch, maxPK, limit) ==
  \/ maxPK # NoKey /\ CompareKeys(LastKey(table, batch), maxPK) >= 0
  \/ Len(batch) < limit

\* The loop of readKeysetPagination, by the key it has reached.
KeysetBatches(table, part, filtered, limit) ==
  LET from[last \in {part.minPK.val} \cup table.keys] ==
        LET batch == BuildKeysetQuery(table, last, part.maxPK, filtered, limit)
        IN IF batch = << >> THEN << >>
           ELSE <<batch>> \o (IF KeysetDone(table, batch, part.maxPK, limit) THEN << >>
                              ELSE from[batch[Len(batch)]])
  IN from[part.minPK.val]

\* The loop of readRowNumberPagination takes the first row to be row 1; it is not given
\* the date filter.
RowNumberBatches(table, part, limit) ==
  LET size(row) == IF part.endRow > 0 /\ row + limit > part.endRow THEN part.endRow - row
                   ELSE limit
      done(row, batch) == \/ part.endRow > 0 /\ row + Len(batch) >= part.endRow
                          \/ Len(batch) < size(row)
      from[row \in 0 .. part.startRow + Cardinality(table.keys)] ==
        LET batch == BuildRowNumberQuery(table, row, size(row))
        IN IF batch = << >> THEN << >>
           ELSE <<batch>> \o (IF done(row, batch) THEN << >> ELSE from[row + Len(batch)])
  IN from[part.startRow - 1]

\* readFullTable asks rows.Err after each batch.
FullTable(table, limit, good) == Delivered(Chunks(table.heap, limit), good)

ReadTable(table, part, filtered, limit, good) ==
  IF part.minPK # NoKey THEN Delivered(KeysetBatches(table, part, filtered, limit), good)
  ELSE IF part.startRow > 0 THEN Delivered(RowNumberBatches(table, part, limit), good)
  ELSE FullTable(table, limit, good)

\* The statistics, unless they say that the table is empty or cannot be read.
GetRowCount(table, statistics) == IF statistics > 0 THEN statistics ELSE Cardinality(table.keys)

\* One partition for each tile.
GetPartitionBoundaries(table, n) ==
  LET tiles == Ntile(table.keys, n)
  IN [i \in DOMAIN tiles |->
        [minPK |-> LowestOf(tiles[i]), maxPK |-> HighestOf(tiles[i]),
         rowCount |-> Cardinality(tiles[i])]]
=============================================================================
