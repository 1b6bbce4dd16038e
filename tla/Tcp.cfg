SPECIFICATION FairSpec
CONSTANTS
  Throws = FALSE
  Kinds = {"existing", "endpoint"}
  MaxRequests = 4
  MaxEvents = 2
INVARIANTS TypeOK CounterExact ClosedTells
PROPERTIES DestroyedIdle ClosedSettles
CHECK_DEADLOCK FALSE
