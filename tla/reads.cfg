SPECIFICATION ReadsSpec
CONSTANTS
  HalfWidth = 8
  MaxReaders = 6
  MaxKey = 4
  MaxLimit = 3
INVARIANTS EachKeyReadOnce KeysetReadsItsRange RowNumberReadsItsRows PartitionsCoverTable
