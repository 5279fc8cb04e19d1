SPECIFICATION PSpec
CONSTANTS
  Capacity = 1
  Sizes = {1}
  MaxSize = 1
  MaxSeq = 2
  MaxRestarts = 2
INVARIANT GapBeforeLater
CHECK_DEADLOCK FALSE
