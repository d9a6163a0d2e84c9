CONSTANTS
  a1 = a1  a2 = a2  d1 = d1  d2 = d2  d3 = d3
  MaxRow = 2
  Account = {a1, a2}
  Draft = {d1, d2, d3}
  AccountOf <- MCAccountOf
  RecipientOf <- MCRecipientOf
  NoDraft = NoDraft
  Cap = 1
  PassLimit = 2
  Gap = 2
  MaxFaults = 1
SPECIFICATION FairSpec
INVARIANTS DailyCap NothingOverlooked NoRepeatWithoutFault
PROPERTIES NoHandOffWhileSuppressed GapKeptWithoutFault KeepsPromise EveryApprovalSettles
CHECK_DEADLOCK FALSE
