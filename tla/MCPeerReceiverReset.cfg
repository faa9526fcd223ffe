SPECIFICATION LiveSpec
CONSTANTS
  a = a
  b = b
  m1 = m1
  m2 = m2
  m3 = m3
  None = None
  Broadcast = Broadcast
  Device <- Pair
  Message <- Alone
  From <- AloneFrom
  To <- AloneTo
  Count <- AloneDouble
  Reliable <- AloneReliable
  MaxRetryRounds = 1
  AckRepeat <- Once
  Rebooting = {b}
  MaxReboots = 1
INVARIANTS
  CompleteMeansDelivered
  SuccessMeansHeard
PROPERTIES
  Settles
