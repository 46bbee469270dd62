SPECIFICATION Spec
CONSTANTS
  None = None
  Chains = {a, b, c}
  p = p
  q = q
  sl = sl
  n = n
  m = m
  Commands = {p, q, n, m}
  Slash = {}
  Bash = {}
  Notifications = {n}
  Meta = {m}
  Later = {n, m}
  MaxCancels = 1
INVARIANTS
  NoConcurrentInput
CHECK_DEADLOCK FALSE
