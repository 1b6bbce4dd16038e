SPECIFICATION Spec
CONSTANTS
  Throws = FALSE
  MaxCalls = 12
  MaxDiscards = 1
INVARIANTS IdleMeansDestroyed
PROPERTIES DestroysSafely
CHECK_DEADLOCK FALSE
