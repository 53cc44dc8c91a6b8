CONSTANTS
  u1 = u1
  u2 = u2
  c1 = c1
  c2 = c2
  None = None
  User <- MCUser
  Conn <- MCConn
  Opening <- MCOpening
  PLATFORM_FEE_PERCENT = 50
  MAX_NUMERIC = 2
  Amount = {1}
  EntryFee = {1}
SPECIFICATION TSpec
INVARIANT RowsAreStable
PROPERTIES Serializable EveryTxnEnds
