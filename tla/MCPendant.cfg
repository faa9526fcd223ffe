SPECIFICATION LiveSpec
CONSTANTS
  e1 = e1
  e2 = e2
  NoOne = NoOne
  Eids <- Two
  PeerMax = 1
  TopLevel = 3
  QueueSize = 4
  IdleLimit = 3
  Scanning = TRUE
  Callbacks = 1
INVARIANTS
  NoEventLost
  StateTracksLink
  VisibleWhenIdle
  AwakeForUpdate
  SuspendsUnblocked
PROPERTIES
  QuietSleeps
