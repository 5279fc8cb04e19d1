SPECIFICATION FairSpec
CONSTANTS
    NumRows = 2
    MaxRevision = 2
    WakeBuffer = 2
    CacheBytes = 2
    MaxInterruptions = 2
INVARIANTS TypeOK CanonicalIsPool DamageIsComplete
PROPERTIES LatestIsDrawnOrDeduplicated
CHECK_DEADLOCK FALSE
