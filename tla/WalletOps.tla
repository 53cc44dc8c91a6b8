----------------------------- MODULE WalletOps -----------------------------
(***************************************************************************)
(* The money transactions of the backend, as data.                         *)
(*                                                                         *)
(* Every change of the wallets table is made inside withTransaction, and   *)
(* every transaction has one shape: for one or two rows, in a fixed order, *)
(* SELECT ... FOR UPDATE, compute new values from what was read, UPDATE.   *)
(* A transaction is therefore its sequence of rows and, for each user, the *)
(* amount it adds to the balance and to the locked balance.                *)
(*                                                                         *)
(* Amounts are integers: rupees and paise are exact in NUMERIC(12,2).      *)
(***************************************************************************)
EXTENDS Integers, Sequences

CONSTANTS
  User,                  \* users that own a wallet row
  PLATFORM_FEE_PERCENT,  \* share of the pot kept by the platform
  MAX_NUMERIC            \* largest value of a NUMERIC(12,2) column

ASSUME PercentAssumption == PLATFORM_FEE_PERCENT \in 0..100
ASSUME NumericAssumption == MAX_NUMERIC \in Nat

Column == 0..MAX_NUMERIC
Row == [balance : Column, locked : Column]

-----------------------------------------------------------------------------
(* Prize of a match with the given entry fee.                              *)

GrossPrize(fee) == 2 * fee

PlatformFee(fee) == (GrossPrize(fee) * PLATFORM_FEE_PERCENT) \div 100

\* Mutant: the platform's share is not deducted.
GrossAsNet(fee) == GrossPrize(fee)

NetPrize(fee) == GrossPrize(fee) - PlatformFee(fee)

-----------------------------------------------------------------------------
(* The transactions.                                                       *)

\* n for the users of S, 0 for every other user.
Only(S, n) == [u \in User |-> IF u \in S THEN n ELSE 0]

\* Also the transaction inside verifyAndCreditWallet and handleWebhook.
deposit(u, amount) ==
  [rows |-> <<u>>, balance |-> Only({u}, amount), locked |-> Only({}, 0)]

withdraw(u, amount) ==
  [rows |-> <<u>>, balance |-> Only({u}, -amount), locked |-> Only({}, 0)]

\* The two calls made when a match is created, in queue order.
lockFundsForMatch(a, b, fee) ==
  [rows    |-> <<a, b>>,
   balance |-> Only({a, b}, -fee),
   locked  |-> Only({a, b}, fee)]

\* Mutant: only the loser's escrow is cleared.
releaseLoserOnly(winner, loser, fee) ==
  [rows    |-> <<loser, winner>>,
   balance |-> Only({winner}, NetPrize(fee)),
   locked  |-> Only({loser}, -fee)]

\* The loser's row is locked and updated first.
releaseEscrowToWinner(winner, loser, fee) ==
  [rows    |-> <<loser, winner>>,
   balance |-> Only({winner}, NetPrize(fee)),
   locked  |-> Only({winner, loser}, -fee)]

\* Mutant: the refund credits the players and leaves their escrow locked.
refundKeepsLock(a, b, fee) ==
  [rows    |-> <<a, b>>,
   balance |-> Only({a, b}, fee),
   locked  |-> Only({}, 0)]

refundBothPlayers(a, b, fee) ==
  [rows    |-> <<a, b>>,
   balance |-> Only({a, b}, fee),
   locked  |-> Only({a, b}, -fee)]

-----------------------------------------------------------------------------
(* Effect on the table.  A balance that is too small is refused by the     *)
(* code ("Insufficient balance"), any negative column by the CHECK         *)
(* constraints of the table, and a value too large for NUMERIC(12,2) by    *)
(* the column's type; in each case the whole transaction is rolled back.   *)

UpdatedRow(row, t, u) ==
  [balance |-> row.balance + t.balance[u], locked |-> row.locked + t.locked[u]]

CheckConstraints(row) == row.balance \in Column /\ row.locked \in Column

Allowed(w, t) == \A u \in User : CheckConstraints(UpdatedRow(w[u], t, u))

Applied(w, t) == [u \in User |-> UpdatedRow(w[u], t, u)]

=============================================================================
