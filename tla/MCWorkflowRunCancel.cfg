SPECIFICATION Spec
CONSTANTS
  Null = Null
  v1 = v1
  Keys <- MCKeys
  Values = {v1}
  Calls <- MCCalls
  Over <- MCOver
  Versions = {1}
  MaxCalls = 3
  Concurrency = 2
  Ceiling = 2
  MaxGenerations = 2
  MaxLost = 1
  Troubled = {}
  Metered = {2}
PROPERTIES CancelledIsFinal
CHECK_DEADLOCK FALSE
