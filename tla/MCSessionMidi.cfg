CONSTANTS
  Options <- MidiOptions
  MaxOptions = 2
  MidiBufSize = 3
  MaxSyx = 2
  Lossy = FALSE
SPECIFICATION Spec
CHECK_DEADLOCK FALSE
INVARIANT MidiAsGiven
