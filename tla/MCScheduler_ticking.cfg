CONSTANTS
  serve = serve  stdio = stdio  mail = mail  crm = crm
  Proc = {serve, stdio}
  Server = serve
  Automation = {mail, crm}
  Limit = 1
  StartSlack = 1
  Deadline = 1
  Stale = 3
  NewStates = {"on"}
  MaxExits = 1
  MaxNow = 1
  MaxSaves = 0
  MaxDeletes = 0
  MaxSuspends = 0
  MaxFaults = 1
SPECIFICATION TickingSpec
INVARIANTS AtMostLimit NoLostWakeup
PROPERTIES NothingStuckInQueue
CHECK_DEADLOCK FALSE
