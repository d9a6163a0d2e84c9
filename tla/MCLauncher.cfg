SPECIFICATION SessionsSpec
CONSTANTS
  l1 = l1  l2 = l2  l3 = l3  l4 = l4
  r1 = r1  r2 = r2
  claude = claude  codex = codex
  Launch = {l1, l2, l3, l4}
  Run = {r1, r2}
  Agent = {claude, codex}
  Driven = {claude}
  agentOf <- MCAgentOf
  None = None
  RunLimit = 1
  MaxFaults = 1
  NoSession = NoSession
  NoTurn = NoTurn
  MaxClears = 1
SYMMETRY MCSymmetry
CHECK_DEADLOCK FALSE
INVARIANTS OneChatAgent RunsWithinLimit CredentialsDieWithLaunch
  NothingSurvivesClose ClearedStaysCleared TurnsOfRunningOnly
