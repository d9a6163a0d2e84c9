CONSTANTS
  send = send  move = move  meet = meet
  Request = {send, move, meet}
  left = left  right = right
  Window = {left, right}
  NoRequest = NoRequest
  MaxPending = 2
  MaxFaults = 2
SPECIFICATION FairSpec
INVARIANTS PerformedOnce NoAnswerLost
PROPERTIES KeepsPromise ApprovalIsAnswered
CHECK_DEADLOCK FALSE
