CONSTANTS
  serve = serve  stdio = stdio
  desktop = desktop  laptop = laptop  terminal = terminal
  work = work  home = home
  Proc = {serve, stdio}
  Server = serve
  Client = {desktop, terminal}
  ProcOf <- MCProcOf
  Launched = driver
  MaxMessage = 1
  Chat = {work}
  ChatOf <- MCOneChat
  MaxDeliveries = 2
  MaxEvents = 2
SPECIFICATION Spec
INVARIANTS OrphansOnly
CHECK_DEADLOCK FALSE
