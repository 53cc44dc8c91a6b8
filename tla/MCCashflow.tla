----------------------------- MODULE MCCashflow -----------------------------
(***************************************************************************)
(* A payment that the client verifies and the webhook announces twice, a   *)
(* payment of a user without a wallet, and three withdrawals of the first  *)
(* user, one of them below the minimum: one credit covers one of the other *)
(* two.                                                                    *)
(***************************************************************************)
EXTENDS Cashflow

MCUser == {"u1", "u2"}
MCPayment == {"p1", "p2"}
MCPayer == [p1 |-> "u1", p2 |-> "u2"]
MCAmount == [p1 |-> 100, p2 |-> 10]
MCAbout == [v1 |-> "p1", w1 |-> "p1", w1again |-> "p1", v2 |-> "p2", w2 |-> "p2"]
MCWithdrawal == {"r1", "r2", "r3"}
MCWithdrawer == [r \in MCWithdrawal |-> "u1"]
MCWithdrawAmount == [r1 |-> 50, r2 |-> 60, r3 |-> 49]

=============================================================================
