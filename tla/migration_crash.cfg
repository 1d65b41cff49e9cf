SPECIFICATION Spec
CONSTANTS
  big = big
  small = small
  NoProgress = NoProgress
  Tables <- MCTables
  RowCount <- MCRowCount
  Keyset <- MCTables
  Foreign <- MCForeign
  Before <- MCBefore
  Upsert = FALSE
  LargeTableThreshold = 2
  ChunkSize = 2
  MaxPartitions = 2
  Workers = 2
  MaxRetries = 1
  MaxRuns = 1
  MaxStarts = 3
  MaxFaults = 2
  Faults <- MCCrashFaults
INVARIANTS ProgressCovered  
 
