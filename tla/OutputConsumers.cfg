SPECIFICATION Spec
CONSTANTS
  b1 = b1
  b2 = b2
  Buffers = {b1}
  Overflow <- OneDrop
  HistoryEnabled = TRUE
  Capacity = 2
  MaxBytes = 4
  ChunkBytes = 2
  Payloads = {1}
  MaxSeq = 4
  MayFail = TRUE
  Flushed = {}
  Stopped = {}
INVARIANTS TypeOK StreamInOrder DiagnosticsExact
PROPERTIES FailureReportsAll ImplementsGapStream
CHECK_DEADLOCK FALSE
