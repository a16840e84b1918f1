SPECIFICATION FairSpec
CONSTANTS
  Slots <- CronTimes
  Policies = {"runOnce"}
  Late = 1
  Grace = 1
  PersistEvery = 2
  MaxTime = 4
  MaxTrouble = 3
  None = None
INVARIANT VerdictIsOrderFree
PROPERTY ImplementsOwedTimes 
CHECK_DEADLOCK FALSE
