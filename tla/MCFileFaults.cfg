SPECIFICATION Spec
CONSTANTS
  p1 = p1
  p2 = p2
  None = None
  Phone <- Pair
  Sender <- One
  Chunk <- OneChunk
  SkipSets <- NoSkip
  RetryMax = 0
  RepairMax = 1
  ResendMax = 1
  ReportEvery = 2
  MaxObjects = 1
  MaxReports = 1
  Faults <- AllFaults
  MaxFaults = 1
INVARIANTS
  FrameIsAnswered
PROPERTIES
  Settles
CHECK_DEADLOCK FALSE
