SPECIFICATION Spec
CONSTANTS
  FullChunks = 1
  FallbackChunks = 2
  MaxLinks = 2
  MaxQueue = 2
  MaxCommands = 2
  MaxUpdates = 2
  Faults <- AllFaults
  MaxFaults = 0
INVARIANTS
  PduFitsMtu
CHECK_DEADLOCK FALSE
