SPECIFICATION Spec
CONSTANTS
  NumWriters = 1
  JobBuf = 1
  AckBuf = 1
  EnableAck = TRUE
  MaxWorkers = 2
  MaxGoroutines = 2
  HalfWidth = 16
  SourcePKs = {1, 2, 4}
  Partitioned = FALSE
  MinPK = 1
  MaxPK = 4
  Upsert = FALSE
  ParallelReaders = 2
  ChunkSize = 1
  CheckpointFrequency = 2
  ReadAheadBuffers = 1
  Updates = {1, 2}
  QueueCap = 1
  MaxAttempts = 2
  MaxUpdates = 2
  Faults = {"cleanup", "minmax", "cancel", "crash"}
INVARIANTS CheckpointSafe SuccessUnlessShrunk
PROPERTIES ExecuteReturns
