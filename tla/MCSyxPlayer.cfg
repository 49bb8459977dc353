CONSTANTS
  BufSize = 4
  MaxLen = 7
  Files <- AllFiles
SPECIFICATION SpecPlayer
INVARIANTS
  TypeOK
  SendsWholeMessage
  AcceptsWellFormed
  StopsShortOnlyAtBufferEnd
PROPERTIES
  PlaysStream
  InFileOrder
  Terminates
CHECK_DEADLOCK FALSE
