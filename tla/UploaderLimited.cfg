SPECIFICATION FairSpec
CONSTANTS
  c1 = c1
  c2 = c2
  c3 = c3
  Calls = {c1, c2, c3}
  Flushes = {f1, f2}
  Events <- MCEvents
  Payload <- MCPayload
  Bytes <- MCBytes
  Unserializable = {4}
  MaxBatchSize = 2
  MaxBatchBytes = 3
  MaxQueueSize = 2
  MaxFailures = 2
INVARIANTS
  TypeOK
  WaitersHaveADrain
  MemoryBound
PROPERTIES
  OrderedQueueRefined
  FlushMeansSettled
  CallersReturn
CHECK_DEADLOCK FALSE
