SPECIFICATION CashSpec
CONSTANTS
  User <- MCUser
  HasWallet = {"u1"}
  Payment <- MCPayment
  payer <- MCPayer
  amount <- MCAmount
  Noted = {"p1"}
  Verify = {"v1", "v2"}
  Webhook = {"w1", "w1again", "w2"}
  about <- MCAbout
  Withdrawal <- MCWithdrawal
  withdrawer <- MCWithdrawer
  withdrawAmount <- MCWithdrawAmount
  MaxFailures = 1
CHECK_DEADLOCK FALSE
INVARIANTS CashTypeOK LedgerMatches
PROPERTIES LateDuplicatesIgnored RepeatIsRefused PaidIsCredited
