SPECIFICATION FairSpec
CONSTANTS
  A = A
  a1 = a1
  a2 = a2
  None = None
  Shard <- OneShard
  Replica <- TwoReplicas
  ReplicaOf <- BothOfA
  Id <- Names
  FirstEpoch = 1
  MaxEpoch = 2
  MaxFault = 1
  Link <- AllLinks
CHECK_DEADLOCK FALSE
INVARIANTS VotesOnce WinnersShareNoVote
PROPERTY Converges
