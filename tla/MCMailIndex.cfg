SPECIFICATION FairSpec
CONSTANTS
  serve = serve  stdio = stdio
  Proc = {serve}
  Server = serve
  MaxUid = 2
  Limit = 1
  Since = {1}
  NoState = NoState
  NoSync = NoSync
  NoOp = NoOp
  Free = Free
  MaxOutside = 1
  MaxOps = 1
  MaxFaults = 1
CHECK_DEADLOCK FALSE
INVARIANTS DatedListComplete HonestCursor
PROPERTIES GhostsLeave
