SPECIFICATION LiveSpec
CONSTANTS
  nick = nick
  Nicknames = {nick}
  Factory = Factory
  Placeholder = Placeholder
  None = None
  Blank = Blank
  Budget <- Disturbed
INVARIANTS
  RecordIsCard
  BeliefIsCard
PROPERTIES
  StealthSettles
