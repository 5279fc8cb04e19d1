SPECIFICATION Spec
CONSTANTS
  Sessions = {1}
  Slots = {1, 2}
  MaxChannel = 1
  Terminals = {t1}
  Locked = {}
  Removable = {}
  MaxEpoch = 2
INVARIANT DetachReleases
CHECK_DEADLOCK FALSE
