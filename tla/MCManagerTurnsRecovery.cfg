SPECIFICATION LiveSpec
CONSTANTS
  Messages = {m1}
  MaxTries = 1
  MaxRetries = 1
  MaxClicks = 2
  MaxFailed = 2
  MaxCycles = 5
PROPERTIES ComesToRest WaitingIsTaken
CHECK_DEADLOCK FALSE
