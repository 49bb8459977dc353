CONSTANTS
  ShortOptions <- AmigaOptstr
  LongOptions <- MainLongOptions
  Beginnings <- Begins
  CommandLines <- AllLines
  MaxWords = 2
  MaxMixed = 5
SPECIFICATION Spec
INVARIANTS
  BlocksInOrder
  OptionsFirst
PROPERTIES
  ReadsAsWritten
  Terminates
CHECK_DEADLOCK FALSE
