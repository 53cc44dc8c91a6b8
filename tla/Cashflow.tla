------------------------------ MODULE Cashflow ------------------------------
(***************************************************************************)
(* Deposits and withdrawals of the same wallets: Payments and Withdrawals  *)
(* side by side.  They share the balances, which start at zero, and the    *)
(* number of statements that may fail.                                     *)
(***************************************************************************)
EXTENDS Payments, Functions

CONSTANTS
  Withdrawal,     \* withdrawal requests
  withdrawer,     \* [Withdrawal -> HasWallet]
  withdrawAmount  \* [Withdrawal -> Nat]

ASSUME CashflowAssumption ==
  /\ withdrawer \in [Withdrawal -> HasWallet] /\ withdrawAmount \in [Withdrawal -> Nat]
  /\ IsFiniteSet(Payment) /\ IsFiniteSet(Withdrawal)

VARIABLES
  row,   \* row[r]: state of the withdrawals row of request r
  wstep  \* wstep[r]: where the withdrawal request r is

W == INSTANCE Withdrawals WITH
       Opening <- [u \in User |-> 0], Request <- Withdrawal,
       requester <- withdrawer, amount <- withdrawAmount,
       MaxFaults <- MaxFailures, step <- wstep, faults <- failures

cashflow == <<vars, row, wstep>>

CashInit == Init /\ W!Init

CashNext ==
  \/ Next /\ UNCHANGED <<row, wstep>>
  \/ W!Next /\ UNCHANGED <<order, credited, step>>

CashSpec == CashInit /\ [][CashNext]_cashflow /\ Fairness

-----------------------------------------------------------------------------
(* Properties.                                                             *)

\* Types of both components; a balance that deposits and withdrawals change
\* at the same time never becomes negative (routes/wallet.js:71-74).
CashTypeOK == TypeOK /\ W!TypeOK

\* A withdrawal repeated while one is pending and none is past its lookup is
\* refused, also when deposits arrive meanwhile (routes/wallet.js:54-60).
RepeatIsRefused == W!RepeatIsRefused

Deposited == [p \in Payment |-> credited[p] * amount[p]]

\* Every balance is what the ledger credited less what the withdrawals
\* record: deposits, withdrawals and failures between any two statements
\* never make the wallet and the rows disagree (paymentService.js:77-115,
\* 158-179, routes/wallet.js:62-103).
LedgerMatches ==
  \A u \in User :
    balance[u] =
      SumFunctionOnSet(Deposited, {p \in Payment : payer[p] = u})
      - SumFunctionOnSet(withdrawAmount, W!Rows(u, "PENDING") \cup W!Rows(u, "COMPLETED"))

=============================================================================
