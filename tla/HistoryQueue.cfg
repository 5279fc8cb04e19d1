SPECIFICATION FairSpec
CONSTANTS
  Capacity = 3
  Sizes = {1, 2, 4}
  MaxSize = 4
  MaxSeq = 3
INVARIANTS TypeOK OwedInOrder ResidentBounded FlushFence SealDrains DiagnosticsExact
PROPERTIES FlushReturns CloseEnds ImplementsGapStream
CHECK_DEADLOCK FALSE
