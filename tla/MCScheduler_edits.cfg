CONSTANTS
  serve = serve  stdio = stdio  mail = mail  crm = crm
  Proc = {serve, stdio}
  Server = serve
  Automation = {mail}
  Limit = 2
  StartSlack = 1
  Deadline = 1
  Stale = 3
  NewStates = {"on", "paused"}
  MaxExits = 1
  MaxNow = 2
  MaxSaves = 2
  MaxDeletes = 1
  MaxSuspends = 1
  MaxFaults = 1
SPECIFICATION Spec
INVARIANTS OneRunUntilSleep
PROPERTIES PauseUnschedules
CHECK_DEADLOCK FALSE
