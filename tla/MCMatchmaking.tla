--------------------------- MODULE MCMatchmaking ---------------------------
(***************************************************************************)
(* Small instances of Matchmaking: two or three users, one handler each    *)
(* and a second one for u1, and one tick of the worker in flight.          *)
(***************************************************************************)
EXTENDS Matchmaking

TwoUsers == {"u1", "u2"}
ThreeUsers == {"u1", "u2", "u3"}
OneJoinEach == {"j1", "j2", "j3"}
DoubleJoin == {"j1", "j1again", "j2"}
MCWho == [j1 |-> "u1", j1again |-> "u1", j2 |-> "u2", j3 |-> "u3"]
WhoOneEach == [j \in OneJoinEach |-> MCWho[j]]
WhoDouble == [j \in DoubleJoin |-> MCWho[j]]
HaveOne == [u \in User |-> 1]

=============================================================================
