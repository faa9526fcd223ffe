SPECIFICATION Spec
CONSTANTS
  p1 = p1
  p2 = p2
  None = None
  Phone <- Pair
  Sender <- One
  Chunk <- OneChunk
  SkipSets <- NoSkip
  RetryMax = 0
  RepairMax = 1
  ResendMax = 1
  ReportEvery = 2
  MaxObjects = 1
  MaxReports = 1
  Faults <- UnbindOnly
  MaxFaults = 1
PROPERTIES
  AlwaysSettles
CHECK_DEADLOCK FALSE
