SPECIFICATION PFairSpec
CONSTANTS
  Capacity = 2
  Sizes = {1, 2}
  MaxSize = 2
  MaxSeq = 2
  MaxRestarts = 2
INVARIANT StickyIsTold
PROPERTIES RestartEnds
CHECK_DEADLOCK FALSE
