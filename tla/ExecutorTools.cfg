SPECIFICATION LessFairSpec
CONSTANTS
  N = 3
  Kinds <- FewKinds
  UnknownKinds = {"ghost"}
  SafeKinds = {"ghost", "list"}
  BashKinds = {"list"}
  CancelKinds = {}
  PromptKinds = {}
INVARIANTS
  TypeOK
  Exclusive
  StartedInOrder
  QueueIsWatched
  ErrorReportedOnce
  AllAnswered
  UnsafeInOrder
PROPERTIES
  KnownToolsFinish
CHECK_DEADLOCK FALSE
