SPECIFICATION FairSpec
CONSTANTS
  i1 = i1
  i2 = i2
  i3 = i3
  Item = {i1, i2, i3}
  Source = {"github", "stack_overflow"}
  Posted <- PostedAt
  PageCap = 2
  Job = {j1, j2}
  MaxPaidAgain = 2
  MaxFailures = 1
  MaxExtras = 1
INVARIANTS
  StoredOnce
  NothingSkipped
  PaidAgainForFailures
PROPERTIES
  EverythingHandled
CHECK_DEADLOCK FALSE
