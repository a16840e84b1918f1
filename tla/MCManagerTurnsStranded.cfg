SPECIFICATION Spec
CONSTANTS
  Messages = {m1}
  MaxTries = 1
  MaxRetries = 1
  MaxClicks = 1
  MaxFailed = 1
  MaxCycles = 5
INVARIANTS NoInputIsStranded
CHECK_DEADLOCK FALSE
