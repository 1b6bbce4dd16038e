SPECIFICATION SessionsSpec
CONSTANTS
  MaxChannels = 1
  MaxLeases = 2
  MaxUnread <- NoUnread
  PromptSends = TRUE
  MayBreak = FALSE
  Overflows = {}
  MaxData = 1
INVARIANTS NoCrossTalk
CHECK_DEADLOCK FALSE
