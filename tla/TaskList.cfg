SPECIFICATION FairSpec
CONSTANTS
  None = None
  a = a
  b = b
  c = c
  Agents = {a, b, c}
  N = 2
  Kinds <- MCKinds
  MaxOps = 3
  MaxCrashes = 1
INVARIANTS
  TypeOK
PROPERTIES
  NothingIsReplaced
  ClaimTakesNothing
  CallsEnd
CHECK_DEADLOCK FALSE
