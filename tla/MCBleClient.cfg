SPECIFICATION Spec
CONSTANTS
  FullChunks = 1
  FallbackChunks = 2
  MaxLinks = 2
  MaxQueue = 2
  MaxCommands = 1
  MaxUpdates = 2
  Faults <- AllFaults
  MaxFaults = 1
INVARIANTS
  QueueMoves
  ReadyIsSubscribed
  StreamWhole
PROPERTIES
  CompletedMeansWritten
  UpdateSettles
  LinkSettles
CHECK_DEADLOCK FALSE
