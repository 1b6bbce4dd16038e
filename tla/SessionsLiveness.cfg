SPECIFICATION SessionsFairSpec
CONSTANTS
  MaxChannels = 1
  MaxLeases = 1
  MaxUnread <- NoUnread
  PromptSends = TRUE
  MayBreak = TRUE
  Overflows = {"local", "remote"}
  MaxData = 2
INVARIANT PausedInOverflow
PROPERTIES RequestAnswered LinkedEnds
CHECK_DEADLOCK FALSE
