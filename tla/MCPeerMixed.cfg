SPECIFICATION Spec
CONSTANTS
  a = a
  b = b
  m1 = m1
  m2 = m2
  m3 = m3
  None = None
  Broadcast = Broadcast
  Device <- Pair
  Message <- Mixed
  From <- MixedFrom
  To <- MixedTo
  Count <- MixedCount
  Reliable <- MixedReliable
  MaxRetryRounds = 0
  AckRepeat <- Once
  Rebooting = {}
  MaxReboots = 0
PROPERTIES
  KeepsPromise
