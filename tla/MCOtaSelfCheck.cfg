SPECIFICATION LiveSpec
CONSTANTS
  old = old
  new = new
  next = next
  Images <- MCImages
  Version <- MCVersion
  Blank = Blank
  Torn = Torn
  NoRecord = NoRecord
  MaxBootAttempts = 2
PROPERTIES
  TrialAlwaysSettles
CHECK_DEADLOCK FALSE
