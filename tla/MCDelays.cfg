CONSTANTS
  Requests = {4, 8}
  Period = 2
  Ratio = 3
  Second = 3
  SignalLimit = 2
  TickLength = 4
  WaitedCap = 24
SPECIFICATION Spec
INVARIANTS
  DosTypeOK
  SpeedFitsHandler
  DosClockRate
  SleepsNoLonger
  NotMuchLonger
PROPERTIES
  WaitsLongEnough
  Returns
  DosClockKeepsGoing
  SilentOutside
