CONSTANTS
  ShortOptions <- AmigaOptstr
  LongOptions <- MainLongOptions
  Beginnings <- Begins
  CommandLines <- FlagLines
  MaxWords = 2
  MaxMixed = 4
SPECIFICATION SafeSpec
INVARIANT FlagsTakeNothing
CHECK_DEADLOCK FALSE
