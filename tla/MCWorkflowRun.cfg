SPECIFICATION Spec
CONSTANTS
  Null = Null
  v1 = v1
  Keys <- MCKeys
  Values = {v1}
  Calls <- MCCalls
  Over <- MCOver
  Versions = {1, 2, 3}
  MaxCalls = 3
  Concurrency = 2
  Ceiling = 2
  MaxGenerations = 2
  MaxLost = 1
  Troubled = {3}
  Metered = {2}
INVARIANTS
  RecordIsARun AnsweredOnce ResultsAreReused SameScriptSamePath
  SpendIsCarried NothingHangs
PROPERTIES CrashKeepsTheSource
CHECK_DEADLOCK FALSE
