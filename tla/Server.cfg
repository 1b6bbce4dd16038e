SPECIFICATION FairSpec
CONSTANTS
  Throws = FALSE
  SocketIds = {s1, s2, s3}
  maxConnections_ = 2
  MaxEvents = 1
INVARIANTS StoppedReleases WithinLimit ShutdownIsFinal
PROPERTIES ShutdownSettles ProxyStops
CHECK_DEADLOCK FALSE
