SPECIFICATION FairSpec
CONSTANTS
  b1 = b1
  b2 = b2
  Buffers = {b1, b2}
  Overflow <- Mixed
  HistoryEnabled = FALSE
  Capacity = 2
  MaxBytes = 1
  ChunkBytes = 1
  Payloads = {1}
  MaxSeq = 2
  MayFail = TRUE
  Flushed = {}
  Stopped = {}
INVARIANTS BoundedMemory BudgetExact
PROPERTIES WriteEnds
CHECK_DEADLOCK FALSE
