SPECIFICATION Spec
CONSTANTS
  User <- ThreeUsers
  Fee = {1}
  Join <- OneJoinEach
  Tick = {"t1"}
  who <- WhoOneEach
  Opening <- HaveOne
  Event = {"leave"}
  Unserved = {"u1"}
  MaxJoins = 1
  MaxFaults = 0
CHECK_DEADLOCK FALSE
PROPERTY PutBackIsKept
