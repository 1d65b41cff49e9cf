SPECIFICATION FairSpec
CONSTANTS
  HalfWidth = 16
  w1 = w1
  w2 = w2
  NoCheckpoint = NoCheckpoint
  SourcePKs <- MCLiveKeys
  Partitioned = FALSE
  MinPK = 1
  MaxPK = 4
  Upsert = FALSE
  ParallelReaders = 2
  Workers = {w1}
  ChunkSize = 1
  CheckpointFreq = 10
  ChunkBuf = 1
  JobBuf = 1
  AckBuf = 1
  MaxAttempts = 1
  Faults <- MCLiveFaults
PROPERTIES AttemptEnds
