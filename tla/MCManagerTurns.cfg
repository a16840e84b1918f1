SPECIFICATION Spec
CONSTANTS
  Messages = {m1, m2}
  MaxTries = 1
  MaxRetries = 1
  MaxClicks = 3
  MaxFailed = 2
  MaxCycles = 5
SYMMETRY Symmetry
CONSTRAINT OneOrTheOther
INVARIANTS OneLiveCall NothingWaitsInASpentEpoch ReplayIsMarked
PROPERTIES SendNowCutsItsOwnTurn OnlyALostClaimStalls
CHECK_DEADLOCK FALSE
