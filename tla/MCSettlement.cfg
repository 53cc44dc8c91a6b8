CONSTANTS
  u1 = u1
  u2 = u2
  m1 = m1
  m2 = m2
  Nobody = Nobody
  User <- MCUser
  Match <- TwoMatches
  playerA <- MCPlayerA
  playerB <- MCPlayerB
  entryFee <- MCEntryFee
  Event = {"create", "forfeit", "disconnect"}
  OpeningBalance = 2
  Score = {0}
  PLATFORM_FEE_PERCENT = 50
  MAX_NUMERIC = 100
  NO_TIME = 1
  MATCH_DURATION = 1
  MaxFaults = 1
  FaultyStep <- AllSteps
  MaxCrashes = 1
SPECIFICATION Spec
CHECK_DEADLOCK FALSE
INVARIANTS  MoneyIsConserved
CONSTRAINT Explored
SYMMETRY MatchSymmetry
