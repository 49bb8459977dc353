CONSTANTS
  Options <- AllOptions
  MaxOptions = 3
  MidiBufSize = 3
  MaxSyx = 2
  Lossy = TRUE
SPECIFICATION Spec
CHECK_DEADLOCK FALSE
INVARIANTS
  TypeOK
  SendsWhatWasAsked
  SettingsFirst
  SynthAsAsked
  ReleasedOnReturn
  FaultySendsNothing
PROPERTY
  Terminates
