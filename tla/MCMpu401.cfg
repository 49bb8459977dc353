CONSTANTS
  Lengths = {1, 3}
  FifoSize = 2
  ResetTime = 3
  SwitchTime = 2
  ResetTimeout = 6
  InitWait = 4
  Settle = 2
  ClockStep = 3
  Cards = {"mpu", "strict", "absent", "low"}
  Keyboard = TRUE
  UnreadLimit = 2
SPECIFICATION Spec
CHECK_DEADLOCK FALSE
INVARIANTS
  TypeOK
  NoByteLost
  
  NothingSentToEmptyPort
PROPERTIES
  DeliversMessages
  CallsReturn
