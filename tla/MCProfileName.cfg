SPECIFICATION Spec
CONSTANTS
  nick = nick
  Nicknames = {nick}
  Factory = Factory
  Placeholder = Placeholder
  None = None
  Blank = Blank
  Budget <- Undisturbed
PROPERTIES
  SyncKeepsName
