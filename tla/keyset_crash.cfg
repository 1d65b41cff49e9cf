SPECIFICATION Spec
CONSTANTS
  HalfWidth = 16
  w1 = w1
  w2 = w2
  NoCheckpoint = NoCheckpoint
  SourcePKs <- MCPartKeys
  Partitioned = TRUE
  MinPK = 2
  MaxPK = 7
  Upsert = FALSE
  ParallelReaders = 2
  Workers <- MCWorkers
  ChunkSize = 2
  CheckpointFreq = 1
  ChunkBuf = 1
  JobBuf = 1
  AckBuf = 1
  MaxAttempts = 3
  Faults <- MCCrashFaults
SYMMETRY MCSymmetry
INVARIANTS CheckpointSafe NoDuplicateInsert SuccessMeansAllWritten RowsDoneCoversCheckpoint
PROPERTIES CheckpointNeverRegresses OtherPartitionsKept ImplementsTransferJob
