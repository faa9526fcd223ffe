SPECIFICATION Spec
CONSTANTS
  a = a
  b = b
  m1 = m1
  m2 = m2
  m3 = m3
  None = None
  Broadcast = Broadcast
  Device <- Pair
  Message <- OneWay
  From <- OneWayFrom
  To <- OneWayTo
  Count <- OneWaySingle
  Reliable <- OneWayReliable
  MaxRetryRounds = 0
  AckRepeat <- Once
  Rebooting = {a}
  MaxReboots = 1
INVARIANTS
  SuccessMeansDelivered
