SPECIFICATION Spec
CONSTANTS
  User <- TwoUsers
  Fee = {1}
  Join <- DoubleJoin
  Tick = {"t1"}
  who <- WhoDouble
  Opening <- HaveOne
  Event = {"leave", "disconnect", "spend"}
  Unserved = {}
  MaxJoins = 1
  MaxFaults = 1
CHECK_DEADLOCK FALSE
INVARIANT NoSelfMatch
PROPERTIES WaitingIsKept QueueDrains
