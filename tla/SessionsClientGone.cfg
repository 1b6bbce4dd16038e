SPECIFICATION SessionsFairSpec
CONSTANTS
  MaxChannels = 1
  MaxLeases = 1
  MaxUnread <- NoUnread
  PromptSends = TRUE
  MayBreak = FALSE
  Overflows = {}
  MaxData = 1
PROPERTIES ClientGoneStops
CHECK_DEADLOCK FALSE
