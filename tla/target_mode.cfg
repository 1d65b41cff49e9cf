SPECIFICATION Spec
CONSTANTS
  t1 = t1
  t2 = t2
  w1 = w1
  w2 = w2
  Tables <- MCTables
  Loaded = t1
  Refs <- MCRefs
  Workers <- MCWorkers
  BatchOf <- MCBatchOf
  Keys <- MCKeys
  ChunkSize = 1
  MaxFaults = 2
  MaxTries = 2
  MaxCalls = 2
  MaxRuns = 2
  Undetected <- MCUndetected
  Settings <- AllSettings
CHECK_DEADLOCK FALSE
INVARIANTS PreparedMeansRecreated NilMeansWritten TornIsPrefix NextIdentityFree
