CONSTANTS
  miniwi_data <- FontFrom0
  Asks <- AllAsks
  NoFile = NoFile
  Unreadable = Unreadable
  ShortReads = {2, 33}
  Leftovers = {0, 255}
SPECIFICATION Spec
INVARIANTS
  ShowsWhatWasAsked
  DropsOnlyUnsendable
CHECK_DEADLOCK FALSE
