CONSTANTS
  u1 = u1
  u2 = u2
  m1 = m1
  m2 = m2
  Nobody = Nobody
  User <- MCUser
  Match <- OneMatch
  playerA <- MCPlayerA
  playerB <- MCPlayerB
  entryFee <- MCEntryFee
  Event = {"create", "submit", "expiry"}
  OpeningBalance = 1
  Score = {0, 100}
  PLATFORM_FEE_PERCENT = 50
  MAX_NUMERIC = 100
  NO_TIME = 1
  MATCH_DURATION = 1
  MaxFaults = 1
  FaultyStep <- ResolutionSteps
  MaxCrashes = 0
SPECIFICATION Spec
CHECK_DEADLOCK FALSE
INVARIANTS SettledOnce RecordIsTrue JudgedWinnerIsBest
 
