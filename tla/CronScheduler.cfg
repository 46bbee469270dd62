SPECIFICATION FairSpec
CONSTANTS
  None = None
  Sessions = {a, b}
  OneShots = {x}
  Recurring = {r}
  Initial = {r}
  Every <- MCEvery
  ToolUsers = {b}
  Deletable = {x}
  MaxAge = 3
  MaxTime = 2
  MaxCrashes = 1
  MaxFailures = 1
INVARIANTS
  FiresOnceUnlessUndone
PROPERTIES
  DueIsServed
CHECK_DEADLOCK FALSE
