---------------------------- MODULE MCWalletTxn ----------------------------
(* Instance of WalletTxn for TLC: two players who share two connections.   *)
EXTENDS WalletTxn, TLC

CONSTANTS u1, u2, c1, c2

MCUser == {u1, u2}
MCConn == {c1, c2}

\* A player who can pay one entry fee and one who has a match in escrow.
MCOpening ==
  {(u1 :> [balance |-> 1, locked |-> 0]) @@ (u2 :> [balance |-> 1, locked |-> 0]),
   (u1 :> [balance |-> 0, locked |-> 1]) @@ (u2 :> [balance |-> 0, locked |-> 1])}
=============================================================================
