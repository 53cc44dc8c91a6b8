---------------------------- MODULE MCPresence ----------------------------
(***************************************************************************)
(* What happens to a player around a match: the presence keys, where u1    *)
(* connects up to three times and u2 once, and the hearts, where u1 plays  *)
(* two matches at once, one of them against a premium user.  The two share *)
(* no state, and are checked side by side: the initial state chooses the   *)
(* one that runs.                                                          *)
(***************************************************************************)
EXTENDS Presence

MCUser == {"u1", "u2"}
MCSocket == {"s1", "s2", "s3", "z1"}
MCOwner == [s1 |-> "u1", s2 |-> "u1", s3 |-> "u1", z1 |-> "u2"]

VARIABLES hearts, reset, seat, match, lost, newHearts, errors, part

H == INSTANCE Hearts WITH
       User <- {"u1", "u2", "u3"}, Match <- {"m1", "m2"},
       Players <- [m1 |-> {"u1", "u2"}, m2 |-> {"u1", "u3"}],
       Premium <- {"u3"}, Null <- 9, MaxErrors <- 1

heartsVars == <<hearts, reset, seat, match, lost, newHearts, errors>>

PlayerInit ==
  /\ Init /\ H!Init /\ part \in {"presence", "hearts"}
  /\ part = "presence" => \A u \in DOMAIN hearts : hearts[u] = 3

PlayerNext ==
  \/ part = "presence" /\ Next /\ UNCHANGED <<heartsVars, part>>
  \/ part = "hearts" /\ H!Next /\ UNCHANGED <<vars, part>>

\* In the initial states no handler can go on, so that the fairness of the part
\* that does not run asks for nothing.
PlayerSpec ==
  PlayerInit /\ [][PlayerNext]_<<vars, heartsVars, part>> /\ Fairness /\ H!Fairness

\* A user without hearts has a date on which they come back (Hearts).
EmptyHasDate == H!EmptyHasDate

\* Whoever keeps asking for a seat gets one (Hearts).
AskedIsSeated == H!AskedIsSeated

=============================================================================
