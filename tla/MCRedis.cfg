SPECIFICATION RedisSpec
CONSTANTS
  p1 = p1
  p2 = p2
  w1 = w1
  w2 = w2
  w3 = w3
  w4 = w4
SYMMETRY Symmetry
CHECK_DEADLOCK FALSE
INVARIANTS
  OneWinnerUnlessStale
  InSync OneHistory
   
  
   ElementsAreConserved
  ScanIsComplete
  PendingIsReplicated
  MainIsAlone FreedIsForgotten NothingStranded WorkIsNotParked
 
