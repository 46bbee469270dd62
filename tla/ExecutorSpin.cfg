SPECIFICATION FairSpec
CONSTANTS
  N = 2
  Kinds <- AllKinds
  UnknownKinds = {"ghost"}
  SafeKinds = {"ghost", "read", "list", "sleep"}
  BashKinds = {"list"}
  CancelKinds = {"sleep"}
  PromptKinds = {}
PROPERTIES
  ConsumerFinishes
CHECK_DEADLOCK FALSE
