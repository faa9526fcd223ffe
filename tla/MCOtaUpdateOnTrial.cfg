SPECIFICATION Spec
CONSTANTS
  old = old
  new = new
  next = next
  Images <- MCImages
  Version <- MCVersion
  Blank = Blank
  Torn = Torn
  NoRecord = NoRecord
  MaxBootAttempts = 2
INVARIANTS
  NeverOlder
CHECK_DEADLOCK FALSE
