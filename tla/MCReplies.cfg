CONSTANTS
  standup = standup  left = left  right = right  tab = tab  button = button
  Meeting = {standup}
  Window = {left}
  NoMeeting = NoMeeting
  MaxFaults = 0
  Pass = {tab, button}
  PageLimit = 2
  FetchLimit = 1
  ListLimit = 1
  MaxMessage = 3
  Burst = 2
  Day = 2
  MaxAttempts = 1
SYMMETRY MCSymmetry
SPECIFICATION Spec
INVARIANTS NothingSkipped AnswerIsNewestRead
CHECK_DEADLOCK FALSE
