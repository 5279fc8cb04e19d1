SPECIFICATION FairSpec
CONSTANTS
  Opens = {o1}
  Executes = {e1, e2, x1}
  Owning = {e1}
  Cleanups = {x1}
  MaxHandles = 3
  MaxEarly = 1
  MaxRetired = 1
INVARIANTS TypeOK NoRequestRefused NoSessionOutlivesRenderer
CHECK_DEADLOCK FALSE
PROPERTIES CallsSettle HandlesReclaimed
