SPECIFICATION FairSpec
CONSTANTS
  big = big
  small = small
  NoProgress = NoProgress
  Tables <- MCTables
  RowCount <- MCFewRows
  Keyset <- MCTables
  Foreign <- MCNone
  Before <- MCNone
  Upsert = FALSE
  LargeTableThreshold = 1
  ChunkSize = 1
  MaxPartitions = 2
  Workers = 2
  MaxRetries = 1
  MaxRuns = 2
  MaxStarts = 3
  MaxFaults = 1
  Faults <- MCLostFaults
PROPERTIES SuccessMeansComplete LaterSuccessKept RunEnds
