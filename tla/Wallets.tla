------------------------------ MODULE Wallets ------------------------------
(***************************************************************************)
(* What the wallets table promises to the rest of the backend: it changes  *)
(* only by whole money transactions, one at a time, each computed from the *)
(* values the table holds when it takes effect, and none that would make a *)
(* column negative.  WalletTxn shows that the row-locking code does this.  *)
(***************************************************************************)
EXTENDS WalletOps

CONSTANTS
  Amount,     \* amounts that are deposited or withdrawn
  EntryFee,   \* VALID_FEES
  Opening     \* contents of the table at the start

ASSUME AmountAssumption == Amount \subseteq Nat /\ EntryFee \subseteq Nat
ASSUME OpeningAssumption == Opening \subseteq [User -> Row]

VARIABLE wallets

\* The transactions the code can start.  The two players of a match differ.
Txns ==
  {deposit(u, n) : u \in User, n \in Amount}
    \cup {withdraw(u, n) : u \in User, n \in Amount}
    \cup UNION {{lockFundsForMatch(p[1], p[2], f),
                 releaseEscrowToWinner(p[1], p[2], f),
                 refundBothPlayers(p[1], p[2], f)} :
                  p \in {q \in User \X User : q[1] # q[2]}, f \in EntryFee}

Init == wallets \in Opening

Apply(t) ==
  /\ Allowed(wallets, t)
  /\ wallets' = Applied(wallets, t)

Next == \E t \in Txns : Apply(t)

Spec == Init /\ [][Next]_wallets

=============================================================================
