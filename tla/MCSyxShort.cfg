CONSTANTS
  BufSize = 4
  MaxLen = 6
  Files <- AllFiles
SPECIFICATION SpecPlayer
INVARIANT SuccessMeansAllSent
CHECK_DEADLOCK FALSE
