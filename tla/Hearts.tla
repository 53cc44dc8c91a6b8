------------------------------- MODULE Hearts -------------------------------
(***************************************************************************)
(* Hearts: a user who loses a match loses one of three hearts, and without *)
(* hearts may not queue for a day.  resolveMatch reads the loser's row and *)
(* writes it back in a second statement; matches of the same user that end *)
(* together, and queue:join, which refills the hearts when the day is      *)
(* over, interleave with it.                                               *)
(*                                                                         *)
(* A seat is a user's queue:join for one match; the match starts when both *)
(* of its seats are taken.  The date in hearts_reset_at is abstracted to   *)
(* whether it is over.  Failing statements are caught by both handlers.    *)
(***************************************************************************)
EXTENDS Integers, FiniteSets

CONSTANTS
  User, Match,
  Players,    \* [Match -> SUBSET User], two users each
  Premium,    \* users with is_premium
  Null,       \* hearts of a user whose column was never set
  MaxErrors   \* how many statements may fail

VARIABLES
  hearts, reset,   \* columns of users: hearts, and hearts_reset_at as none, ahead or over
  seat,            \* seat[<<m, u>>]: where queue:join is
  match, lost,     \* match[m]: open, playing or a step of resolveMatch, and its loser
  newHearts,       \* newHearts[m]: what resolveMatch will write
  errors

vars == <<hearts, reset, seat, match, lost, newHearts, errors>>

Seat == {s \in Match \X User : s[2] \in Players[s[1]]}

Init ==
  /\ hearts \in [User -> {Null, 1, 3}] /\ reset = [u \in User |-> "none"]
  /\ seat = [s \in Seat |-> "idle"]
  /\ match = [m \in Match |-> "open"]
  /\ lost = [m \in Match |-> CHOOSE u \in User : u \in Players[m]]
  /\ newHearts = [m \in Match |-> 0]
  /\ errors = 0

\* hearts ?? 3, COALESCE(hearts, 3)
Have(u) == IF hearts[u] = Null THEN 3 ELSE hearts[u]

Sit(s, l) == seat' = [seat EXCEPT ![s] = l]

----------------------------------------------------------------------------
(* queue:join                                                              *)

Ask(s) ==
  /\ seat[s] = "idle"
  /\ Sit(s, "check")
  /\ UNCHANGED <<hearts, reset, match, lost, newHearts, errors>>

\* Mutant: the date is not looked at.
CheckHeartsOnly(s) ==
  /\ seat[s] = "check"
  /\ Sit(s, IF s[2] \in Premium \/ Have(s[2]) > 0 THEN "taken" ELSE "check")
  /\ UNCHANGED <<hearts, reset, match, lost, newHearts, errors>>

\* The row is read: the user may play, the hearts are refilled first, or the
\* request is refused and repeated by the user.
Check(s) ==
  LET u == s[2] IN
  /\ seat[s] = "check"
  /\ Sit(s, IF u \in Premium THEN "taken"
            ELSE IF reset[u] = "over" THEN "refill"
            ELSE IF Have(u) <= 0 THEN "check" ELSE "taken")
  /\ UNCHANGED <<hearts, reset, match, lost, newHearts, errors>>

Refill(s) ==
  /\ seat[s] = "refill"
  /\ hearts' = [hearts EXCEPT ![s[2]] = 3]
  /\ reset' = [reset EXCEPT ![s[2]] = "none"]
  /\ Sit(s, "taken")
  /\ UNCHANGED <<match, lost, newHearts, errors>>

\* 'Hearts check failed': the user may play.
CheckFails(s) ==
  /\ seat[s] \in {"check", "refill"} /\ errors < MaxErrors
  /\ errors' = errors + 1
  /\ Sit(s, "taken")
  /\ UNCHANGED <<hearts, reset, match, lost, newHearts>>

----------------------------------------------------------------------------
(* The match, and the hearts system in resolveMatch                        *)

Start(m) ==
  /\ match[m] = "open" /\ \A u \in Players[m] : seat[<<m, u>>] = "taken"
  /\ match' = [match EXCEPT ![m] = "playing"]
  /\ UNCHANGED <<hearts, reset, seat, lost, newHearts, errors>>

\* The match is decided and the loser's row is read.
ReadLoser(m, u) ==
  /\ match[m] = "playing" /\ u \in Players[m]
  /\ lost' = [lost EXCEPT ![m] = u]
  /\ match' = [match EXCEPT ![m] = IF u \in Premium THEN "winner" ELSE "loser"]
  /\ newHearts' = [newHearts EXCEPT ![m] = IF Have(u) > 0 THEN Have(u) - 1 ELSE 0]
  /\ UNCHANGED <<hearts, reset, seat, errors>>

\* Mutant: the date is set with the last heart but one.
WriteLoserEarlyDate(m) ==
  LET u == lost[m] IN
  /\ match[m] = "loser"
  /\ hearts' = [hearts EXCEPT ![u] = newHearts[m]]
  /\ reset' = [reset EXCEPT ![u] = IF newHearts[m] = 1 THEN "ahead" ELSE reset[u]]
  /\ match' = [match EXCEPT ![m] = "winner"]
  /\ UNCHANGED <<seat, lost, newHearts, errors>>

\* CASE WHEN $3 IS NOT NULL THEN $3 ELSE hearts_reset_at END
WriteLoser(m) ==
  LET u == lost[m] IN
  /\ match[m] = "loser"
  /\ hearts' = [hearts EXCEPT ![u] = newHearts[m]]
  /\ reset' = [reset EXCEPT ![u] = IF newHearts[m] = 0 THEN "ahead" ELSE reset[u]]
  /\ match' = [match EXCEPT ![m] = "winner"]
  /\ UNCHANGED <<seat, lost, newHearts, errors>>

\* LEAST(COALESCE(hearts, 3) + 1, 3), and no date
RewardWinner(m) ==
  /\ match[m] = "winner"
  /\ \E w \in Players[m] \ {lost[m]} :
       /\ hearts' = [hearts EXCEPT ![w] = IF Have(w) < 3 THEN Have(w) + 1 ELSE 3]
       /\ reset' = [reset EXCEPT ![w] = "none"]
  /\ match' = [match EXCEPT ![m] = "done"]
  /\ UNCHANGED <<seat, lost, newHearts, errors>>

\* 'Hearts update error': the rest of the hearts system is skipped.
UpdateFails(m) ==
  /\ match[m] \in {"loser", "winner"} /\ errors < MaxErrors
  /\ errors' = errors + 1
  /\ match' = [match EXCEPT ![m] = "done"]
  /\ UNCHANGED <<hearts, reset, seat, lost, newHearts>>

DayPasses(u) ==
  /\ reset[u] = "ahead"
  /\ reset' = [reset EXCEPT ![u] = "over"]
  /\ UNCHANGED <<hearts, seat, match, lost, newHearts, errors>>

----------------------------------------------------------------------------

Resolve(m) == WriteLoser(m) \/ RewardWinner(m)

Next ==
  \/ \E s \in Seat : Ask(s) \/ Check(s) \/ Refill(s) \/ CheckFails(s)
  \/ \E m \in Match :
       Start(m) \/ (\E u \in User : ReadLoser(m, u)) \/ Resolve(m) \/ UpdateFails(m)
  \/ \E u \in User : DayPasses(u)

\* The event loop goes on with every handler, a refused user keeps asking and
\* days pass.
Fairness ==
  /\ \A s \in Seat : WF_vars(Check(s) \/ Refill(s))
  /\ \A m \in Match : WF_vars(Resolve(m))
  /\ \A u \in User : WF_vars(DayPasses(u))

Spec == Init /\ [][Next]_vars /\ Fairness

----------------------------------------------------------------------------
(* Properties                                                              *)

\* A user without hearts has a date on which they come back, whatever matches
\* of the user ended and joins refilled between the two statements of a loss:
\* nobody is shut out for ever (matchHandler.js:286-297).
EmptyHasDate == \A u \in User : hearts[u] = 0 => reset[u] # "none"

\* "Play again in N hour(s)" (matchmakingHandler.js:51): whoever keeps asking is
\* let in eventually.
AskedIsSeated == \A s \in Seat : seat[s] = "check" ~> seat[s] = "taken"

=============================================================================
