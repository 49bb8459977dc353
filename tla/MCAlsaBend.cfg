CONSTANTS
  Messages <- Bends
  NoMessage <- Nothing
  MaxSends = 1
  Platforms = {"linux"}
SPECIFICATION Spec
CHECK_DEADLOCK FALSE
INVARIANT BytesAsGiven
