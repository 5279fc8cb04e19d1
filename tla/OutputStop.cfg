SPECIFICATION FairSpec
CONSTANTS
  b1 = b1
  b2 = b2
  Buffers = {b1}
  Overflow <- OneBlock
  HistoryEnabled = FALSE
  Capacity = 2
  MaxBytes = 4
  ChunkBytes = 2
  Payloads = {1, 2}
  MaxSeq = 3
  MayFail = TRUE
  Flushed = {b1}
  Stopped = {b1}
INVARIANTS FlushFence DrainKeepsAccepted
PROPERTIES StopEnds FlushReturns
CHECK_DEADLOCK FALSE
