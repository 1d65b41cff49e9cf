SPECIFICATION FairSpec
CONSTANTS
  MaxRetries = 1
  Answers <- MCAnswers
  Samples <- MCSamples
  CPUCores = 4
  MaxSource = 12
  MaxTarget = 12
  FailureThreshold = 2
  MaxHistory = 2
  QueueCap = 2
  CallInterval = 1
  CacheDuration = 2
  ResetTimeout = 2
  MeasureDelay = 1
INVARIANTS AskedWithoutTimer EffectOfOwnAdjustment
PROPERTIES BreakerCloses MonitorStops
