CONSTANTS
  serve = serve  stdio = stdio
  desktop = desktop  laptop = laptop  terminal = terminal
  work = work  home = home
  Proc = {serve, stdio}
  Server = serve
  Client = {desktop}
  ProcOf <- MCProcOf
  Launched = driver
  MaxMessage = 2
  Chat = {work, home}
  ChatOf <- MCTwoChats
  MaxDeliveries = 2
  MaxEvents = 2
SPECIFICATION FairSpec
INVARIANTS NothingForgotten
PROPERTIES AnswerFits QueuedIsTaken
CHECK_DEADLOCK FALSE
