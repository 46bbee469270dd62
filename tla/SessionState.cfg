SPECIFICATION SessionFairSpec
CONSTANTS
  Prompts = {a, b}
  Hosts = {h}
  Modes = {m0, m1}
  DefaultMode = m0
  Null = Null
  NoPatch = NoPatch
  MaxRestarts = 1
  MaxWrites = 6
  TopKeys <- MCTopKeys
  MetaKeys <- MCMetaKeys
  Values <- MCValues
  Blank <- MCBlank
INVARIANTS
  IdleMeansPublished
  ShowsTheSession
PROPERTIES
  PublishedInOrder
  PublishedAtLast
CHECK_DEADLOCK FALSE
