CONSTANTS
  k1 = k1
  k2 = k2
  NoPK = NoPK
  NoRun = NoRun
  Corrupt = Corrupt
  TaskKeys <- TwoKeys
  KeyOrder <- TwoKeyOrder
  RetentionPeriod = 0
  LastPK = 1
  MaxStarts = 3
  MaxNow = 2
  MaxOps = 5
  Faults = {"crash", "torn"}
SPECIFICATION Spec
INVARIANTS SameRun SameGranularity FileNeverAhead NoOrphans
PROPERTY ResumableKept ApartByClearing
CHECK_DEADLOCK FALSE
