------------------------------- MODULE Winner -------------------------------
(***************************************************************************)
(* Who wins a match that is not forfeited: the pure part of                *)
(* determineAndResolveWinner (both players were judged) and of             *)
(* handleTimerExpiry (the time is up).  Both read four Redis keys, replace *)
(* a missing score by 0 and a missing time by 999999, and compare.         *)
(***************************************************************************)
EXTENDS Integers

CONSTANT NO_TIME   \* 999999, the time of a player without a time key

ASSUME NoTimeAssumption == NO_TIME \in Nat

NoKey == -1   \* redis.get returned null
NaN   == -2   \* parseFloat("NaN"): the score when a problem has no test case

\* parseFloat(score || '0') and parseInt(time || '999999')
parseScore(key) == IF key = NoKey THEN 0 ELSE key
parseTime(key)  == IF key = NoKey THEN NO_TIME ELSE key

\* JavaScript's > : false as soon as an operand is NaN.
Greater(x, y) == x # NaN /\ y # NaN /\ x > y

\* Mutant: the time is compared before the score.
timeFirst(a, b, scoreA, scoreB, timeA, timeB) ==
  IF parseTime(timeA) # parseTime(timeB)
    THEN IF parseTime(timeA) <= parseTime(timeB) THEN a ELSE b
    ELSE IF Greater(parseScore(scoreB), parseScore(scoreA)) THEN b ELSE a

\* The winner among a and b by determineAndResolveWinner.
determineWinner(a, b, scoreA, scoreB, timeA, timeB) ==
  IF Greater(parseScore(scoreA), parseScore(scoreB)) THEN a
  ELSE IF Greater(parseScore(scoreB), parseScore(scoreA)) THEN b
  ELSE IF parseTime(timeA) <= parseTime(timeB) THEN a ELSE b

\* The winner among a and b by handleTimerExpiry.
timeUpWinner(a, b, scoreA, scoreB, timeA, timeB) ==
  IF Greater(parseScore(scoreA), parseScore(scoreB)) THEN a
  ELSE IF Greater(parseScore(scoreB), parseScore(scoreA)) THEN b
  ELSE IF parseTime(timeA) = NO_TIME /\ parseTime(timeB) = NO_TIME THEN a
  ELSE IF parseTime(timeA) <= parseTime(timeB) THEN a ELSE b

=============================================================================
