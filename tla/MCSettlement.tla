---------------------------- MODULE MCSettlement ----------------------------
(* Instances of MatchSettlement for TLC.                                   *)
EXTENDS MatchSettlement, TLC

CONSTANTS u1, u2, m1, m2

MCUser == {u1, u2}

OneMatch == {m1}
TwoMatches == {m1, m2}

\* Every match of the model is between the same two players.
MCPlayerA == [m \in Match |-> u1]
MCPlayerB == [m \in Match |-> u2]
MCEntryFee == [m \in Match |-> 1]

AllSteps == Steps
ResolutionSteps == ResolveSteps

\* Bounds of the exploration of two matches: at most MaxRunning handlers are
\* between two of their steps, one statement fails or the server restarts, and
\* no time passes, for the players of these matches only leave them.
MaxRunning == 2

Explored ==
  /\ Cardinality({h \in Handler : step[h] # "idle"}) <= MaxRunning
  /\ faults + crashes <= 1
  /\ \A m \in Match : clock[m] = 0

\* The matches of the model have the same players and the same fee.
MatchSymmetry == Permutations(Match)
=============================================================================
