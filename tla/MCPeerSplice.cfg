SPECIFICATION Spec
CONSTANTS
  a = a
  b = b
  m1 = m1
  m2 = m2
  m3 = m3
  None = None
  Broadcast = Broadcast
  Device <- Pair
  Message <- Files
  From <- FilesFrom
  To <- FilesTo
  Count <- FilesCount
  Reliable <- FilesReliable
  MaxRetryRounds = 0
  AckRepeat <- Once
  Rebooting = {a}
  MaxReboots = 1
INVARIANTS
  HandedUpWhole
