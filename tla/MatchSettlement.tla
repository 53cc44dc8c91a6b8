-------------------------- MODULE MatchSettlement --------------------------
(***************************************************************************)
(* The life of matches from the moment both entry fees are locked to the   *)
(* moment the escrow is released or refunded: the tail of tryCreateMatch,  *)
(* code:submit, match:forfeit_request, handleDisconnectForfeit,            *)
(* handleTimerExpiry and resolveMatch, which all of them call.             *)
(*                                                                         *)
(* Node.js runs one handler at a time between two awaits, so a handler is  *)
(* a process and its steps are the stretches between the awaits whose      *)
(* results or effects another handler can see.  Money transactions are     *)
(* atomic here; module WalletTxn shows that they are.                      *)
(*                                                                         *)
(* Clients send events for their own matches only.  The keys' expiry (two  *)
(* hours, for matches of thirty minutes) is not modelled; nor is the       *)
(* branch of code:submit for a match without problem_id, which             *)
(* tryCreateMatch never inserts.                                           *)
(***************************************************************************)
EXTENDS WalletOps, Winner, FiniteSets, Functions

CONSTANTS
  Match,            \* the matches of the model
  playerA, playerB, \* [Match -> User], the players in queue order
  entryFee,         \* [Match -> Nat]
  Event,            \* the kinds of events that happen
  OpeningBalance,   \* every player's balance at the start
  Score,            \* the scores the judge gives
  MATCH_DURATION,   \* the match timer, in ticks of the model's clock
  MaxFaults,        \* how many statements may fail
  FaultyStep,       \* the steps whose statements may fail
  MaxCrashes,       \* how often the server may be restarted
  Nobody            \* no user

ASSUME MatchAssumption ==
  /\ playerA \in [Match -> User]
  /\ playerB \in [Match -> User]
  /\ entryFee \in [Match -> Nat \ {0}]
  /\ \A m \in Match : playerA[m] # playerB[m]
  /\ Nobody \notin User

ASSUME FiniteAssumption == IsFiniteSet(User) /\ IsFiniteSet(Match)

ASSUME EventAssumption ==
  Event \subseteq {"create", "submit", "forfeit", "disconnect", "expiry"}

ASSUME BoundAssumption ==
  /\ OpeningBalance \in Column
  /\ Score \subseteq Nat \cup {NaN}
  /\ MATCH_DURATION \in Nat
  /\ MaxFaults \in Nat /\ MaxCrashes \in Nat

VARIABLES
  wallets,    \* the wallets table
  status,     \* matches.status, "none" before the row is inserted
  winnerId,   \* matches.winner_id
  stats,      \* stats[m]: how often m was added to the players' statistics
  state,      \* status in match:{id}:state in Redis, "none" if absent
  resolved,   \* match:{id}:resolved in Redis
  submitted,  \* submitted[m]: users with match:{id}:submitted:{user}
  score,      \* score[m][u]: match:{id}:score:{user}
  time,       \* time[m][u]: match:{id}:time:{user}
  clock,      \* clock[m]: time since start_ts, stops at MATCH_DURATION
  armed,      \* armed[m]: the setTimeout of handleTimerExpiry is pending
  step,       \* step[h]: what handler h does next
  win,        \* win[h]: the winnerId h passes to resolveMatch
  got,        \* got[h]: the Redis keys handleTimerExpiry has read
  paid,       \* paid[m]: how often m's escrow was released to a winner
  refunded,   \* refunded[m]: how often m's entry fees were refunded
  payee,      \* payee[m]: the winner of the last release, and who called it
  faults, crashes

database == <<wallets, status, winnerId, stats>>
redis    == <<state, resolved, submitted, score, time>>
history  == <<paid, refunded, payee>>
timers   == <<clock, armed>>
proc     == <<step, win, got>>
failures == <<faults, crashes>>
vars     == <<database, redis, history, timers, proc, failures>>

\* A handler: an event of a kind, for a match, from a user.
Handler == [kind : Event, match : Match, user : User]

ResolveSteps == {"get", "set", "state", "payout", "row", "stats"}

Steps ==
  {"idle", "publish", "arm", "lock", "time", "judge", "cancelRefund",
   "cancelRow", "compare", "read", "refund"} \cup ResolveSteps

Players(m) == {playerA[m], playerB[m]}
Opponent(m, u) == IF u = playerA[m] THEN playerB[m] ELSE playerA[m]

At(h, s) == step[h] = s

Goto(h, s) ==
  /\ step' = [step EXCEPT ![h] = s]
  /\ UNCHANGED <<win, got>>

Return(h) ==
  /\ step' = [step EXCEPT ![h] = "idle"]
  /\ win' = [win EXCEPT ![h] = Nobody]
  /\ got' = [got EXCEPT ![h] = <<>>]

\* Calls resolveMatch(matchId, winner, loser).
Resolve(h, winner) ==
  /\ step' = [step EXCEPT ![h] = "get"]
  /\ win' = [win EXCEPT ![h] = winner]
  /\ got' = [got EXCEPT ![h] = <<>>]

Init ==
  /\ wallets = [u \in User |-> [balance |-> OpeningBalance, locked |-> 0]]
  /\ status = [m \in Match |-> "none"]
  /\ winnerId = [m \in Match |-> Nobody]
  /\ stats = [m \in Match |-> 0]
  /\ state = [m \in Match |-> "none"]
  /\ resolved = [m \in Match |-> FALSE]
  /\ submitted = [m \in Match |-> {}]
  /\ score = [m \in Match |-> [u \in User |-> NoKey]]
  /\ time = [m \in Match |-> [u \in User |-> NoKey]]
  /\ clock = [m \in Match |-> 0]
  /\ armed = [m \in Match |-> FALSE]
  /\ step = [h \in Handler |-> "idle"]
  /\ win = [h \in Handler |-> Nobody]
  /\ got = [h \in Handler |-> <<>>]
  /\ paid = [m \in Match |-> 0]
  /\ refunded = [m \in Match |-> 0]
  /\ payee = [m \in Match |-> [user |-> Nobody, by |-> "none"]]
  /\ faults = 0 /\ crashes = 0

-----------------------------------------------------------------------------
(* tryCreateMatch, from its transaction on.                                *)

CreateMatch(h) ==
  LET m == h.match
      t == lockFundsForMatch(playerA[m], playerB[m], entryFee[m]) IN
  /\ h.kind = "create" /\ h.user = playerA[m]
  /\ At(h, "idle") /\ status[m] = "none"
  /\ Allowed(wallets, t)
  /\ wallets' = Applied(wallets, t)
  /\ status' = [status EXCEPT ![m] = "IN_PROGRESS"]
  /\ Goto(h, "publish")
  /\ UNCHANGED <<winnerId, stats, redis, history, timers, failures>>

\* startMatchTimer and the state key.
PublishState(h) ==
  /\ At(h, "publish")
  /\ state' = [state EXCEPT ![h.match] = "IN_PROGRESS"]
  /\ Goto(h, "arm")
  /\ UNCHANGED <<database, resolved, submitted, score, time, history, timers,
                 failures>>

ArmTimer(h) ==
  /\ At(h, "arm")
  /\ armed' = [armed EXCEPT ![h.match] = TRUE]
  /\ Return(h)
  /\ UNCHANGED <<database, redis, history, clock, failures>>

-----------------------------------------------------------------------------
(* code:submit.                                                            *)

isExpired(m) == clock[m] >= MATCH_DURATION

\* The checks of the state and of the timer.  The await between the two is
\* not a step: a timer that has not expired at the second has not at the
\* first.
SubmitStart(h) ==
  LET m == h.match IN
  /\ h.kind = "submit" /\ h.user \in Players(m)
  /\ At(h, "idle") /\ state[m] = "IN_PROGRESS" /\ ~isExpired(m)
  /\ Goto(h, "lock")
  /\ UNCHANGED <<database, redis, history, timers, failures>>

\* SET match:{id}:submitted:{user} NX
SubmitLock(h) ==
  LET m == h.match IN
  /\ At(h, "lock")
  /\ submitted' = [submitted EXCEPT ![m] = submitted[m] \cup {h.user}]
  /\ IF h.user \in submitted[m] THEN Return(h) ELSE Goto(h, "time")
  /\ UNCHANGED <<database, state, resolved, score, time, history, timers,
                 failures>>

SubmitTime(h) ==
  /\ At(h, "time")
  /\ time' = [time EXCEPT ![h.match][h.user] = clock[h.match]]
  /\ Goto(h, "judge")
  /\ UNCHANGED <<database, state, resolved, submitted, score, history, timers,
                 failures>>

\* evaluateCode returns a score, or JUDGE_ERROR.
SubmitJudged(h) ==
  /\ At(h, "judge")
  /\ \E s \in Score :
       score' = [score EXCEPT ![h.match][h.user] = s]
  /\ Goto(h, "compare")
  /\ UNCHANGED <<database, state, resolved, submitted, time, history, timers,
                 failures>>

SubmitJudgeError(h) ==
  /\ At(h, "judge")
  /\ Goto(h, "cancelRefund")
  /\ UNCHANGED <<database, redis, history, timers, failures>>

\* Both scores present: determineAndResolveWinner.  The times were written
\* before the scores and none of the four keys changes again.
SubmitCompare(h) ==
  LET m == h.match
      a == playerA[m]
      b == playerB[m] IN
  /\ At(h, "compare")
  /\ IF score[m][a] # NoKey /\ score[m][b] # NoKey
       THEN Resolve(h, determineWinner(a, b, score[m][a], score[m][b],
                                       time[m][a], time[m][b]))
       ELSE Return(h)
  /\ UNCHANGED <<database, redis, history, timers, failures>>

-----------------------------------------------------------------------------
(* refundBothPlayers, after JUDGE_ERROR and in the catch of resolveMatch.  *)

RefundOf(m) == refundBothPlayers(playerA[m], playerB[m], entryFee[m])

Refund(m) ==
  /\ Allowed(wallets, RefundOf(m))
  /\ wallets' = Applied(wallets, RefundOf(m))
  /\ refunded' = [refunded EXCEPT ![m] = refunded[m] + 1]

RefundRefused(m) ==
  /\ ~Allowed(wallets, RefundOf(m))
  /\ UNCHANGED <<wallets, refunded>>

JudgeErrorRefund(h) ==
  /\ At(h, "cancelRefund")
  /\ \/ Refund(h.match) /\ Goto(h, "cancelRow")
     \/ RefundRefused(h.match) /\ Return(h)
  /\ UNCHANGED <<status, winnerId, stats, redis, paid, payee, timers, failures>>

JudgeErrorCancel(h) ==
  /\ At(h, "cancelRow")
  /\ status' = [status EXCEPT ![h.match] = "CANCELLED"]
  /\ Return(h)
  /\ UNCHANGED <<wallets, winnerId, stats, redis, history, timers, failures>>

\* The catch block of resolveMatch.
ResolveRefund(h) ==
  /\ At(h, "refund")
  /\ Refund(h.match) \/ RefundRefused(h.match)
  /\ Return(h)
  /\ UNCHANGED <<status, winnerId, stats, redis, paid, payee, timers, failures>>

-----------------------------------------------------------------------------
(* The other callers of resolveMatch.                                      *)

forfeit_request(h) ==
  LET m == h.match IN
  /\ h.kind = "forfeit" /\ h.user \in Players(m)
  /\ At(h, "idle") /\ state[m] = "IN_PROGRESS"
  /\ Resolve(h, Opponent(m, h.user))
  /\ UNCHANGED <<database, redis, history, timers, failures>>

\* Fifteen seconds after a disconnect, presence:{user} being absent.
handleDisconnectForfeit(h) ==
  LET m == h.match IN
  /\ h.kind = "disconnect" /\ h.user \in Players(m)
  /\ At(h, "idle") /\ state[m] = "IN_PROGRESS"
  /\ Resolve(h, Opponent(m, h.user))
  /\ UNCHANGED <<database, redis, history, timers, failures>>

\* The timeout fires once, two seconds after the end of the match.
handleTimerExpiry(h) ==
  LET m == h.match IN
  /\ h.kind = "expiry" /\ h.user = playerA[m]
  /\ At(h, "idle") /\ armed[m] /\ isExpired(m)
  /\ armed' = [armed EXCEPT ![m] = FALSE]
  /\ IF state[m] = "IN_PROGRESS" THEN Goto(h, "read") ELSE UNCHANGED proc
  /\ UNCHANGED <<database, redis, history, clock, failures>>

\* The four keys it awaits one after the other.
ExpiryKeys(m) ==
  <<score[m][playerA[m]], score[m][playerB[m]],
    time[m][playerA[m]], time[m][playerB[m]]>>

ExpiryRead(h) ==
  LET m == h.match
      keys == Append(got[h], ExpiryKeys(m)[Len(got[h]) + 1]) IN
  /\ At(h, "read")
  /\ IF Len(keys) < 4
       THEN got' = [got EXCEPT ![h] = keys] /\ UNCHANGED <<step, win>>
       ELSE Resolve(h, timeUpWinner(playerA[m], playerB[m],
                                    keys[1], keys[2], keys[3], keys[4]))
  /\ UNCHANGED <<database, redis, history, timers, failures>>

-----------------------------------------------------------------------------
(* resolveMatch.                                                           *)

ResolveGet(h) ==
  /\ At(h, "get")
  /\ IF resolved[h.match] THEN Return(h) ELSE Goto(h, "set")
  /\ UNCHANGED <<database, redis, history, timers, failures>>

ResolveSet(h) ==
  /\ At(h, "set")
  /\ resolved' = [resolved EXCEPT ![h.match] = TRUE]
  /\ Goto(h, "state")
  /\ UNCHANGED <<database, state, submitted, score, time, history, timers,
                 failures>>

ResolveState(h) ==
  /\ At(h, "state")
  /\ state' = [state EXCEPT ![h.match] = "COMPLETED"]
  /\ Goto(h, "payout")
  /\ UNCHANGED <<database, resolved, submitted, score, time, history, timers,
                 failures>>

ReleaseOf(h) ==
  releaseEscrowToWinner(win[h], Opponent(h.match, win[h]),
                        entryFee[h.match])

Release(h) ==
  /\ Allowed(wallets, ReleaseOf(h))
  /\ wallets' = Applied(wallets, ReleaseOf(h))
  /\ paid' = [paid EXCEPT ![h.match] = paid[h.match] + 1]
  /\ payee' = [payee EXCEPT ![h.match] = [user |-> win[h], by |-> h.kind]]

\* Mutant: a refused payout is logged and the match completed all the same.
PayoutErrorIgnored(h) ==
  /\ At(h, "payout")
  /\ Release(h) \/ (~Allowed(wallets, ReleaseOf(h)) /\ UNCHANGED <<wallets, paid, payee>>)
  /\ Goto(h, "row")
  /\ UNCHANGED <<status, winnerId, stats, redis, refunded, timers, failures>>

ResolvePayout(h) ==
  /\ At(h, "payout")
  /\ \/ Release(h) /\ Goto(h, "row")
     \/ /\ ~Allowed(wallets, ReleaseOf(h))
        /\ Goto(h, "refund")
        /\ UNCHANGED <<wallets, paid, payee>>
  /\ UNCHANGED <<status, winnerId, stats, redis, refunded, timers, failures>>

ResolveRow(h) ==
  /\ At(h, "row")
  /\ status' = [status EXCEPT ![h.match] = "COMPLETED"]
  /\ winnerId' = [winnerId EXCEPT ![h.match] = win[h]]
  /\ Goto(h, "stats")
  /\ UNCHANGED <<wallets, stats, redis, history, timers, failures>>

\* Statistics, active-match keys and the result event.
ResolveStats(h) ==
  /\ At(h, "stats")
  /\ stats' = [stats EXCEPT ![h.match] = stats[h.match] + 1]
  /\ Return(h)
  /\ UNCHANGED <<wallets, status, winnerId, redis, history, timers, failures>>

-----------------------------------------------------------------------------
(* The environment.                                                        *)

Tick(m) ==
  /\ state[m] # "none" /\ clock[m] < MATCH_DURATION
  /\ clock' = [clock EXCEPT ![m] = clock[m] + 1]
  /\ UNCHANGED <<database, redis, history, armed, proc, failures>>

\* Mutant: the catch block of resolveMatch only logs.
ThrowWithoutRefund(h) == Return(h)

\* Where a thrown error takes a handler.
Throw(h) == IF step[h] \in ResolveSteps THEN Goto(h, "refund") ELSE Return(h)

Faulty(h) ==
  /\ step[h] \in FaultyStep
  /\ faults < MaxFaults
  /\ faults' = faults + 1

\* A Redis command or an SQL statement fails without effect.
StatementFails(h) ==
  /\ ~At(h, "idle") /\ Faulty(h)
  /\ Throw(h)
  /\ UNCHANGED <<database, redis, history, timers, crashes>>

\* A COMMIT takes effect, but the connection is lost before it returns.
CommitUnanswered(h) ==
  /\ Faulty(h)
  /\ \/ At(h, "payout") /\ Release(h) /\ UNCHANGED refunded
     \/ /\ At(h, "cancelRefund") \/ At(h, "refund")
        /\ Refund(h.match) /\ UNCHANGED <<paid, payee>>
  /\ Throw(h)
  /\ UNCHANGED <<status, winnerId, stats, redis, timers, crashes>>

\* The process dies: handlers and timeouts are gone, PostgreSQL and Redis
\* keep what was written.
Crash ==
  /\ crashes < MaxCrashes
  /\ crashes' = crashes + 1
  /\ step' = [h \in Handler |-> "idle"]
  /\ win' = [h \in Handler |-> Nobody]
  /\ got' = [h \in Handler |-> <<>>]
  /\ armed' = [m \in Match |-> FALSE]
  /\ UNCHANGED <<database, redis, history, clock, faults>>

-----------------------------------------------------------------------------
\* What the server does once it has begun: every step but the judge's.
ServerStep(h) ==
  \/ PublishState(h) \/ ArmTimer(h)
  \/ SubmitLock(h) \/ SubmitTime(h) \/ SubmitCompare(h)
  \/ JudgeErrorRefund(h) \/ JudgeErrorCancel(h)
  \/ handleTimerExpiry(h) \/ ExpiryRead(h)
  \/ ResolveGet(h) \/ ResolveSet(h) \/ ResolveState(h) \/ ResolvePayout(h)
  \/ ResolveRow(h) \/ ResolveStats(h) \/ ResolveRefund(h)

HandlerStep(h) ==
  \/ ServerStep(h)
  \/ CreateMatch(h) \/ SubmitStart(h)
  \/ SubmitJudged(h) \/ SubmitJudgeError(h)
  \/ forfeit_request(h) \/ handleDisconnectForfeit(h)
  \/ StatementFails(h) \/ CommitUnanswered(h)

Next ==
  \/ \E h \in Handler : HandlerStep(h)
  \/ \E m \in Match : Tick(m)
  \/ Crash

\* Started handlers go on and time passes; clients and the judge, which has
\* no time limit, promise nothing.
Fairness ==
  /\ \A h \in Handler : WF_vars(ServerStep(h))
  /\ \A m \in Match : WF_vars(Tick(m))

Spec == Init /\ [][Next]_vars /\ Fairness

-----------------------------------------------------------------------------
(* Properties.                                                             *)

DatabaseOK ==
  /\ wallets \in [User -> Row]
  /\ status \in [Match -> {"none", "IN_PROGRESS", "COMPLETED", "CANCELLED"}]
  /\ winnerId \in [Match -> User \cup {Nobody}]
  /\ stats \in [Match -> Nat]

RedisOK ==
  /\ state \in [Match -> {"none", "IN_PROGRESS", "COMPLETED"}]
  /\ resolved \in [Match -> BOOLEAN]
  /\ submitted \in [Match -> SUBSET User]
  /\ score \in [Match -> [User -> Score \cup {NoKey}]]
  /\ time \in [Match -> [User -> Nat \cup {NoKey}]]

HandlersOK ==
  /\ step \in [Handler -> Steps]
  /\ win \in [Handler -> User \cup {Nobody}]
  /\ got \in [Handler -> Seq(Int)]

HistoryOK ==
  /\ paid \in [Match -> Nat]
  /\ refunded \in [Match -> Nat]
  /\ payee \in [Match -> [user : User \cup {Nobody}, by : Event \cup {"none"}]]

EnvironmentOK ==
  /\ clock \in [Match -> 0..MATCH_DURATION]
  /\ armed \in [Match -> BOOLEAN]
  /\ faults \in 0..MaxFaults /\ crashes \in 0..MaxCrashes

\* Type correctness; in particular no column of a wallet is ever negative,
\* whatever resolutions and refunds of a match race (schema.sql:23-24).
TypeOK == DatabaseOK /\ RedisOK /\ HandlersOK /\ HistoryOK /\ EnvironmentOK

\* A match pays its winner or refunds both players, once: although
\* resolveMatch reads and sets `resolved` in two steps, the JUDGE_ERROR path
\* does not set it, and the catch block refunds after a payout that already
\* happened (matchHandler.js:247-249, 145, 348).
SettledOnce == \A m \in Match : paid[m] + refunded[m] <= 1

\* The matches table tells the truth about the money: COMPLETED with a
\* winner only if this player was paid, CANCELLED only if both players were
\* refunded, and statistics counted only for a paid match, even when two
\* resolutions with different winners race (matchHandler.js:146, 258-324).
RecordIsTrue ==
  \A m \in Match :
    /\ status[m] = "COMPLETED" => paid[m] = 1 /\ winnerId[m] = payee[m].user
    /\ status[m] = "CANCELLED" => refunded[m] = 1
    /\ stats[m] <= paid[m]

\* What match m holds of each player: the entry fee until it is settled.  A
\* match settled twice counts negatively: it took the escrow of another one.
Held(m) == entryFee[m] * (1 - paid[m] - refunded[m])

MatchesOf(u) == {m \in Match : status[m] # "none" /\ u \in Players(m)}

\* The locked balance of a wallet is exactly what its matches still hold, at
\* every step of every interleaving, failure and restart (walletService.js:61-62,
\* 89, 100, 134).
EscrowIsExact ==
  \A u \in User :
    wallets[u].locked = SumFunctionOnSet([m \in Match |-> Held(m)], MatchesOf(u))

\* No money appears or disappears: wallets and the platform's fees add up to
\* what the players started with (walletService.js:78-81).
MoneyIsConserved ==
  SumFunctionOnSet([u \in User |-> wallets[u].balance + wallets[u].locked], User)
    + SumFunctionOnSet([m \in Match |-> paid[m] * PlatformFee(entryFee[m])], Match)
  = SumFunctionOnSet([u \in User |-> OpeningBalance], User)

\* "Winner determination - score is ALWAYS primary" (matchHandler.js:221) and
\* "Equal scores - faster submission wins" (235), when both were judged: the
\* player who was paid is not worse, and not slower at an equal score.
JudgedWinnerIsBest ==
  \A m \in Match : payee[m].by = "submit" =>
    LET w == payee[m].user
        l == Opponent(m, w) IN
    /\ score[m][w] # NoKey /\ score[m][l] # NoKey
    /\ ~Greater(score[m][l], score[m][w])
    /\ ~Greater(score[m][w], score[m][l]) => time[m][w] <= time[m][l]

\* "Evaluation error. Both refunded." (matchHandler.js:147): a match whose
\* players were refunded pays nobody afterwards.
RefundIsFinal == \A m \in Match : refunded[m] > 0 => paid[m] = 0

\* Every match that locked entry fees gives them back or pays them out, if
\* the server is not restarted: handlers that lost a race, judge errors and
\* payouts that fail never strand the escrow.
EventuallySettled ==
  \A m \in Match :
    status[m] # "none" ~> (paid[m] + refunded[m] > 0)

=============================================================================
