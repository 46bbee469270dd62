SPECIFICATION FairHybridSpec
CONSTANTS
  w1 = w1
  b1 = b1
  Writes = {w1, b1}
  Flushings = {f1}
  Ticks = {t1}
  Closing = closing
  Calls <- MCCalls
  Flushes <- MCFlushes
  Streams = {"s1"}
  Events <- MCEvents
  Payload <- MCPayload
  Bytes <- MCBytes
  Unserializable = {}
  MaxBatchSize = 2
  MaxBatchBytes = 0
  MaxQueueSize = 3
  MaxFailures = 2
INVARIANTS
  WriteOrder
  FlushCoversWritten
PROPERTIES
  EventuallySettled
CHECK_DEADLOCK FALSE
