SPECIFICATION LiveSpec
CONSTANTS
  old = old
  new = new
  next = next
  Images <- MCImages
  Version <- MCVersion
  Blank = Blank
  Torn = Torn
  NoRecord = NoRecord
  MaxBootAttempts = 2
INVARIANTS
  SomeSlotBoots
  AntiRollback
  RollbackReady
  RolledBackBoots
  RunningIntact
  IInv
PROPERTIES
  TrialSettles
\* A pendant with nothing to boot stops.
CHECK_DEADLOCK FALSE
