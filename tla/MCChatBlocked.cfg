SPECIFICATION Spec
CONSTANTS
  n1 = n1
  n2 = n2
  None = None
  Peer <- Two
  Visible <- One
  MaxMessages = 1
  Faults <- LinkOnly
  MaxFaults = 0
PROPERTIES
  NoAvatarToBlocked
