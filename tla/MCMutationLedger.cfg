SPECIFICATION Spec
CONSTANTS
  k1 = k1
  k2 = k2
  once = once
  again = again
  None = None
  Keys = {k1, k2}
  Requests = {once, again}
  Recoverable = {again}
  MaxCompleted = 1
  Retention = 0
  Clock <- MCClock
INVARIANTS WriteAhead BoundedReceipts
PROPERTIES HearsOfItsOwnWrite AtMostOnce NotRunIsTrue ImplementsOnceOnly
