SPECIFICATION FairSpec
CONSTANTS
  MaxMsgs = 3
  MaxReplies = 3
  MayBreak = TRUE
  MayQuit = TRUE
INVARIANTS InputComplete InOrder NoSendOnClosed
PROPERTY StreamCloses
CHECK_DEADLOCK FALSE
