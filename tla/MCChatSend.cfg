SPECIFICATION Spec
CONSTANTS
  n1 = n1
  n2 = n2
  None = None
  Peer <- Two
  Visible <- One
  MaxMessages = 2
  Faults <- AllFaults
  MaxFaults = 1
INVARIANTS
  TypeOK
  DeliveredByPeer
  AvatarsMove
PROPERTIES
  MessagesSettle
