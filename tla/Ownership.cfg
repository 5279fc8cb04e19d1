SPECIFICATION Spec
CONSTANTS
  Sessions = {1, 2}
  Slots = {1}
  MaxChannel = 1
  Terminals = {t1}
  Locked = {}
  Removable = {}
  MaxEpoch = 3
PROPERTIES EpochFence OwnerLossPromotes TakenOnlyWhenAsked
CHECK_DEADLOCK FALSE
