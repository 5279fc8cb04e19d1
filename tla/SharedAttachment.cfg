SPECIFICATION Spec
CONSTANTS
  Sessions = {1}
  Slots = {1, 2}
  MaxChannel = 1
  Terminals = {t1}
  Locked = {t1}
  Removable = {t1}
  MaxEpoch = 4
INVARIANTS TypeOK OwnerIsCollaborator OwnerEpochCurrent
CHECK_DEADLOCK FALSE
