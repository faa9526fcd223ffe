SPECIFICATION Spec
CONSTANTS
  a = a
  b = b
  m1 = m1
  m2 = m2
  m3 = m3
  None = None
  Broadcast = Broadcast
  Device <- Pair
  Message <- OneWay
  From <- OneWayFrom
  To <- OneWayTo
  Count <- OneWaySplit
  Reliable <- OneWayReliable
  MaxRetryRounds = 1
  AckRepeat <- Once
  Rebooting = {}
  MaxReboots = 0
INVARIANTS
  SuccessMeansDelivered
