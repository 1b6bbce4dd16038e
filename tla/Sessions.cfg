SPECIFICATION SessionsSpec
CONSTANTS
  MaxChannels = 1
  MaxLeases = 2
  MaxUnread <- NoUnread
  PromptSends = TRUE
  MayBreak = TRUE
  Overflows = {}
  MaxData = 1
INVARIANTS StraysOnlyLate RepliesAgree NothingLost
CONSTRAINT SomeSound
CHECK_DEADLOCK FALSE
