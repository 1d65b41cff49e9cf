SPECIFICATION Spec
CONSTANTS
  NumWriters = 2
  JobBuf = 1
  AckBuf = 1
  EnableAck = TRUE
  MaxWorkers = 2
  MaxGoroutines = 2
  SourceRows = 3
  RowCount = 3
  Partitioned = FALSE
  StartRow = 0
  EndRow = 0
  Upsert = FALSE
  ChunkSize = 1
  CheckpointFreq = 2
  ChunkBuf = 1
  MaxAttempts = 2
  Faults = {"cleanup", "read", "write", "save", "cancel", "crash"}
INVARIANTS CheckpointSafe SuccessMeansAllWritten
PROPERTIES ExecuteReturns
