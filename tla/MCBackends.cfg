CONSTANTS
  Messages <- GoodBadAndOdd
  NoMessage <- Nothing
  MaxSends = 2
  Platforms = {"linux", "amiga", "windows", "atari"}
SPECIFICATION Spec
CHECK_DEADLOCK FALSE
INVARIANTS
  HoldsWhatItUses
  PlaysFromLiveBuffer
PROPERTIES
  KeepsPromise
  SendReturns
