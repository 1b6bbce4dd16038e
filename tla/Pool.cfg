SPECIFICATION FairSpec
CONSTANTS
  MaxChannels = 2
  MaxLeases = 2
  MaxUnread <- Unread
  PromptSends = TRUE
  MayBreak = TRUE
INVARIANTS TypeOK PoolSound LeaseIsolation PooledMeansPeerDone NoOrphanedClose
PROPERTIES ImplementsLease CloseCompletes
CHECK_DEADLOCK FALSE
