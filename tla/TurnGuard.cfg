SPECIFICATION FairSpec
CONSTANTS
  None = None
  Chains = {a, b}
  p = p
  q = q
  sl = sl
  n = n
  m = m
  Commands = {p, sl, n, m}
  Slash = {sl}
  Bash = {}
  Notifications = {n}
  Meta = {m}
  Later = {n, m}
  MaxCancels = 1
INVARIANTS
  OneCurrentTurn
  
  StartedOnce
PROPERTIES
  EverythingIsServed
CHECK_DEADLOCK FALSE
