SPECIFICATION Spec
CONSTANTS
  Setups <- Kinds
  Cap = 2
  MaxFires = 1
  MaxPresses = 2
  MaxFaults = 1
  MaxRuns = 3
  None = None
INVARIANT NeverInTheCheckout
CHECK_DEADLOCK FALSE
