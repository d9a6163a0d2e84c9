SPECIFICATION FairSpec
CONSTANTS
  serve = serve  stdio = stdio  ann = ann
  Message = {1}
  Call = {c1}
  Click = {k1}
  Who = {w1}
  Gap = 0
  Ttl = 0
  ListLimit = 2
  Nothing = Nothing
  MaxId = 4
  MaxClock = 1
  MaxEvents = 1
  Proc = {serve}
  Server = serve
  Person = {ann}
  From <- MCFrom
  BodyStops = {1}
  SnippetStops = {1}
  NoBody = NoBody
  MaxContact = 2
  MaxActs = 2
INVARIANTS FiledIsOnRecord FlaggedIsSuppressed LiftStands
PROPERTIES StopIsJudged
CHECK_DEADLOCK FALSE
