SPECIFICATION PlayerSpec
CONSTANTS
  User <- MCUser
  Socket <- MCSocket
  owner <- MCOwner
  NoSocket = NoSocket
  Overlap = TRUE
  EarlyClose = FALSE
CHECK_DEADLOCK FALSE
PROPERTY DecidedWhileAway
