SPECIFICATION FairSpec
CONSTANTS
  phone = phone
  tablet = tablet
  c1 = c1
  c2 = c2
  c3 = c3
  r1 = r1
  r2 = r2
  t1 = t1
  t2 = t2
  q1 = q1
  None = None
  Owners = {phone, tablet}
  Connections = {c1, c2, c3}
  OwnerOf <- MCOwnerOf
  Requests = {r1, r2}
  CloseIds = {q1}
  Terminals = {t1, t2}
  MaxPerOwner = 1
  MaxTotal = 2
  MaxReceipts = 2
INVARIANTS ShellsAreLeased UnwatchedHasTimer
PROPERTIES ReceiptOutlivesShell AbandonedShellsClose
