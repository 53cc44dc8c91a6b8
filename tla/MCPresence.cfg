SPECIFICATION PlayerSpec
CONSTANTS
  User <- MCUser
  Socket <- MCSocket
  owner <- MCOwner
  NoSocket = NoSocket
  Overlap = FALSE
  EarlyClose = TRUE
CHECK_DEADLOCK FALSE
INVARIANTS PresenceIsCurrent EmptyHasDate
PROPERTIES DecidedWhileAway AwayIsForfeited AskedIsSeated
