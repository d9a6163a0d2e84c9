CONSTANTS
  standup = standup  left = left  right = right  tab = tab  button = button
  Meeting = {standup}
  Window = {left, right}
  NoMeeting = NoMeeting
  MaxFaults = 1
  Pass = {tab}
  PageLimit = 1
  FetchLimit = 1
  ListLimit = 1
  MaxMessage = 2
  Burst = 1
  Day = 2
  MaxAttempts = 1
SPECIFICATION FairSpec
INVARIANTS InviteCanBeWithdrawn ToldBeforeForgotten EventFollowsMeeting
PROPERTIES ScanCatchesUp
CHECK_DEADLOCK FALSE
