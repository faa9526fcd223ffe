SPECIFICATION Spec
CONSTANTS
  p1 = p1
  p2 = p2
  None = None
  Phone <- Pair
  Sender <- One
  Chunk <- TwoChunks
  SkipSets <- Skips
  RetryMax = 1
  RepairMax = 1
  ResendMax = 1
  ReportEvery = 2
  MaxObjects = 1
  MaxReports = 1
  Faults <- Heard
  MaxFaults = 1
INVARIANTS
  NoLostWakeup
PROPERTIES
  KeepsPromise
CHECK_DEADLOCK FALSE
