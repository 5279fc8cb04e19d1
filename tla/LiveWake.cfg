SPECIFICATION FairSpec
CONSTANTS
    NumRows = 1
    MaxRevision = 4
    WakeBuffer = 3
    CacheBytes = 2
    MaxInterruptions = 0
INVARIANTS BaselineCharged
PROPERTIES LatestIsDrawn
CHECK_DEADLOCK FALSE
