SPECIFICATION LiveSpec
CONSTANTS
  h1 = h1
  h2 = h2
  l1 = l1
  Agents = {h1, h2, l1}
  Heavy = {h1, h2}
  Limits <- TwoSettings
  SwapLimit = 0
  MaxSwap = 1
INVARIANTS SlotsAreHeld NobodyWaitsAlone NoSlotIsWasted
PROPERTIES GrantsInTurn MemoryWaitEnds
