----------------------- MODULE MatchSettlementProofs -----------------------
(***************************************************************************)
(* Proofs about MatchSettlement, for every set of matches and players,     *)
(* every number of faults and restarts and every interleaving.             *)
(***************************************************************************)
EXTENDS MatchSettlement, TLAPS

\* A transaction that is allowed leaves a table whose columns are in range.
LEMMA AppliedType ==
  ASSUME NEW w, NEW t, Allowed(w, t)
  PROVE  Applied(w, t) \in [User -> Row]
BY DEF Allowed, Applied, UpdatedRow, CheckConstraints, Row

-----------------------------------------------------------------------------
(* Type correctness.                                                       *)

\* handleTimerExpiry holds at most three of its four keys between two reads.
ReadBound == \A h \in Handler : Len(got[h]) \in 0..3

TypeInv == TypeOK /\ ReadBound

\* The two players of a match are different users.
LEMMA PlayersType ==
  ASSUME NEW m \in Match
  PROVE  /\ playerA[m] \in User
         /\ playerB[m] \in User
         /\ playerA[m] # playerB[m]
         /\ entryFee[m] \in Nat \ {0}
         /\ \A u : Opponent(m, u) \in User
BY MatchAssumption DEF Opponent

\* The fields of a handler.
LEMMA HandlerType ==
  ASSUME NEW h \in Handler
  PROVE  h.match \in Match /\ h.user \in User /\ h.kind \in Event
BY DEF Handler

\* The keys of a handler that has read nothing.
LEMMA EmptySeq == <<>> \in Seq(Int) /\ Len(<<>>) = 0
OBVIOUS

\* How the ways to move on change a handler's progress.
LEMMA GotoType ==
  ASSUME HandlersOK, ReadBound, NEW h \in Handler, NEW s \in Steps, Goto(h, s)
  PROVE  HandlersOK' /\ ReadBound'
BY DEF HandlersOK, ReadBound, Goto

LEMMA ReturnType ==
  ASSUME HandlersOK, ReadBound, NEW h \in Handler, Return(h)
  PROVE  HandlersOK' /\ ReadBound'
<1>1. "idle" \in Steps
  BY DEF Steps
<1> QED
  BY <1>1, EmptySeq DEF HandlersOK, ReadBound, Return

LEMMA ResolveType ==
  ASSUME HandlersOK, ReadBound, NEW h \in Handler, NEW w \in User, Resolve(h, w)
  PROVE  HandlersOK' /\ ReadBound'
<1>1. "get" \in Steps
  BY DEF Steps, ResolveSteps
<1> QED
  BY <1>1, EmptySeq DEF HandlersOK, ReadBound, Resolve

LEMMA ThrowType ==
  ASSUME HandlersOK, ReadBound, NEW h \in Handler, Throw(h)
  PROVE  HandlersOK' /\ ReadBound'
BY GotoType, ReturnType DEF Throw, Steps

\* What the two settlements do to the types of the database.
LEMMA RefundType ==
  ASSUME DatabaseOK, HistoryOK, NEW m \in Match, Refund(m) \/ RefundRefused(m)
  PROVE  wallets' \in [User -> Row] /\ refunded' \in [Match -> Nat]
BY AppliedType DEF Refund, RefundRefused, DatabaseOK, HistoryOK

LEMMA ReleaseType ==
  ASSUME HandlersOK, HistoryOK, NEW h \in Handler, Release(h)
  PROVE  /\ wallets' \in [User -> Row]
         /\ paid' \in [Match -> Nat]
         /\ payee' \in [Match -> [user : User \cup {Nobody}, by : Event \cup {"none"}]]
BY AppliedType, HandlerType DEF Release, HistoryOK, HandlersOK

\* The initial state is well typed.
LEMMA InitType == Init => TypeInv
<1> SUFFICES ASSUME Init PROVE TypeInv
  OBVIOUS
<1>1. DatabaseOK
  BY BoundAssumption, NumericAssumption DEF Init, Row, Column, DatabaseOK
<1>2. HandlersOK /\ ReadBound
  BY EmptySeq DEF Init, Steps, HandlersOK, ReadBound
<1>3. RedisOK
  BY DEF Init, RedisOK
<1>4. HistoryOK
  BY DEF Init, HistoryOK
<1>5. EnvironmentOK
  BY BoundAssumption DEF Init, EnvironmentOK
<1> QED
  BY <1>1, <1>2, <1>3, <1>4, <1>5 DEF TypeInv, TypeOK

\* One case per action.
LEMMA StepType == TypeInv /\ [Next]_vars => TypeInv'
<1> SUFFICES ASSUME TypeInv, [Next]_vars PROVE TypeInv'
  OBVIOUS
<1> USE DEF TypeInv, TypeOK, database, redis, history, timers, failures, proc
<1>1. ASSUME NEW h \in Handler, CreateMatch(h) PROVE TypeInv'
  <2>1. DatabaseOK'
    BY <1>1, HandlerType, AppliedType DEF CreateMatch, DatabaseOK
  <2>2. HandlersOK' /\ ReadBound'
    BY <1>1, GotoType DEF CreateMatch, Steps, ResolveSteps
  <2>3. RedisOK' /\ HistoryOK' /\ EnvironmentOK'
    BY <1>1 DEF CreateMatch, RedisOK, HistoryOK, EnvironmentOK
  <2> QED
    BY <2>1, <2>2, <2>3
<1>2. ASSUME NEW h \in Handler, PublishState(h) PROVE TypeInv'
  <2>1. RedisOK'
    BY <1>2, HandlerType DEF PublishState, RedisOK
  <2>2. HandlersOK' /\ ReadBound'
    BY <1>2, GotoType DEF PublishState, Steps, ResolveSteps
  <2>3. DatabaseOK' /\ HistoryOK' /\ EnvironmentOK'
    BY <1>2 DEF PublishState, DatabaseOK, HistoryOK, EnvironmentOK
  <2> QED
    BY <2>1, <2>2, <2>3
<1>3. ASSUME NEW h \in Handler, ArmTimer(h) PROVE TypeInv'
  <2>1. EnvironmentOK'
    BY <1>3, HandlerType DEF ArmTimer, EnvironmentOK
  <2>2. HandlersOK' /\ ReadBound'
    BY <1>3, ReturnType DEF ArmTimer
  <2>3. DatabaseOK' /\ RedisOK' /\ HistoryOK'
    BY <1>3 DEF ArmTimer, DatabaseOK, RedisOK, HistoryOK
  <2> QED
    BY <2>1, <2>2, <2>3
<1>4. ASSUME NEW h \in Handler, SubmitStart(h) PROVE TypeInv'
  <2>1. HandlersOK' /\ ReadBound'
    BY <1>4, GotoType DEF SubmitStart, Steps, ResolveSteps
  <2>2. DatabaseOK' /\ RedisOK' /\ HistoryOK' /\ EnvironmentOK'
    BY <1>4 DEF SubmitStart, DatabaseOK, RedisOK, HistoryOK, EnvironmentOK
  <2> QED
    BY <2>1, <2>2
<1>5. ASSUME NEW h \in Handler, SubmitLock(h) PROVE TypeInv'
  <2>1. RedisOK'
    BY <1>5, HandlerType DEF SubmitLock, RedisOK
  <2>2. HandlersOK' /\ ReadBound'
    BY <1>5, GotoType, ReturnType DEF SubmitLock, Steps, ResolveSteps
  <2>3. DatabaseOK' /\ HistoryOK' /\ EnvironmentOK'
    BY <1>5 DEF SubmitLock, DatabaseOK, HistoryOK, EnvironmentOK
  <2> QED
    BY <2>1, <2>2, <2>3
<1>6. ASSUME NEW h \in Handler, SubmitTime(h) PROVE TypeInv'
  <2>1. RedisOK'
    BY <1>6, HandlerType DEF SubmitTime, EnvironmentOK, RedisOK
  <2>2. HandlersOK' /\ ReadBound'
    BY <1>6, GotoType DEF SubmitTime, Steps, ResolveSteps
  <2>3. DatabaseOK' /\ HistoryOK' /\ EnvironmentOK'
    BY <1>6 DEF SubmitTime, DatabaseOK, HistoryOK, EnvironmentOK
  <2> QED
    BY <2>1, <2>2, <2>3
<1>7. ASSUME NEW h \in Handler, SubmitJudged(h) PROVE TypeInv'
  <2>1. RedisOK'
    BY <1>7, HandlerType DEF SubmitJudged, RedisOK
  <2>2. HandlersOK' /\ ReadBound'
    BY <1>7, GotoType DEF SubmitJudged, Steps, ResolveSteps
  <2>3. DatabaseOK' /\ HistoryOK' /\ EnvironmentOK'
    BY <1>7 DEF SubmitJudged, DatabaseOK, HistoryOK, EnvironmentOK
  <2> QED
    BY <2>1, <2>2, <2>3
<1>8. ASSUME NEW h \in Handler, SubmitJudgeError(h) PROVE TypeInv'
  <2>1. HandlersOK' /\ ReadBound'
    BY <1>8, GotoType DEF SubmitJudgeError, Steps, ResolveSteps
  <2>2. DatabaseOK' /\ RedisOK' /\ HistoryOK' /\ EnvironmentOK'
    BY <1>8 DEF SubmitJudgeError, DatabaseOK, RedisOK, HistoryOK, EnvironmentOK
  <2> QED
    BY <2>1, <2>2
<1>9. ASSUME NEW h \in Handler, SubmitCompare(h) PROVE TypeInv'
  <2>1. HandlersOK' /\ ReadBound'
    BY <1>9, ResolveType, ReturnType, HandlerType, PlayersType DEF SubmitCompare, determineWinner
  <2>2. DatabaseOK' /\ RedisOK' /\ HistoryOK' /\ EnvironmentOK'
    BY <1>9 DEF SubmitCompare, DatabaseOK, RedisOK, HistoryOK, EnvironmentOK
  <2> QED
    BY <2>1, <2>2
<1>10. ASSUME NEW h \in Handler, JudgeErrorRefund(h) PROVE TypeInv'
  <2>1. DatabaseOK'
    BY <1>10, HandlerType, RefundType DEF JudgeErrorRefund, DatabaseOK
  <2>2. HistoryOK'
    BY <1>10, HandlerType, RefundType DEF JudgeErrorRefund, HistoryOK
  <2>3. HandlersOK' /\ ReadBound'
    BY <1>10, GotoType, ReturnType DEF JudgeErrorRefund, Steps, ResolveSteps
  <2>4. RedisOK' /\ EnvironmentOK'
    BY <1>10 DEF JudgeErrorRefund, RedisOK, EnvironmentOK
  <2> QED
    BY <2>1, <2>2, <2>3, <2>4
<1>11. ASSUME NEW h \in Handler, JudgeErrorCancel(h) PROVE TypeInv'
  <2>1. DatabaseOK'
    BY <1>11, HandlerType DEF JudgeErrorCancel, DatabaseOK
  <2>2. HandlersOK' /\ ReadBound'
    BY <1>11, ReturnType DEF JudgeErrorCancel
  <2>3. RedisOK' /\ HistoryOK' /\ EnvironmentOK'
    BY <1>11 DEF JudgeErrorCancel, RedisOK, HistoryOK, EnvironmentOK
  <2> QED
    BY <2>1, <2>2, <2>3
<1>12. ASSUME NEW h \in Handler, ResolveRefund(h) PROVE TypeInv'
  <2>1. DatabaseOK'
    BY <1>12, HandlerType, RefundType DEF ResolveRefund, DatabaseOK
  <2>2. HistoryOK'
    BY <1>12, HandlerType, RefundType DEF ResolveRefund, HistoryOK
  <2>3. HandlersOK' /\ ReadBound'
    BY <1>12, ReturnType DEF ResolveRefund
  <2>4. RedisOK' /\ EnvironmentOK'
    BY <1>12 DEF ResolveRefund, RedisOK, EnvironmentOK
  <2> QED
    BY <2>1, <2>2, <2>3, <2>4
<1>13. ASSUME NEW h \in Handler, forfeit_request(h) PROVE TypeInv'
  <2>1. HandlersOK' /\ ReadBound'
    BY <1>13, ResolveType, HandlerType, PlayersType DEF forfeit_request
  <2>2. DatabaseOK' /\ RedisOK' /\ HistoryOK' /\ EnvironmentOK'
    BY <1>13 DEF forfeit_request, DatabaseOK, RedisOK, HistoryOK, EnvironmentOK
  <2> QED
    BY <2>1, <2>2
<1>14. ASSUME NEW h \in Handler, handleDisconnectForfeit(h) PROVE TypeInv'
  <2>1. HandlersOK' /\ ReadBound'
    BY <1>14, ResolveType, HandlerType, PlayersType, Zenon DEF handleDisconnectForfeit
  <2>2. DatabaseOK' /\ RedisOK' /\ HistoryOK' /\ EnvironmentOK'
    BY <1>14 DEF handleDisconnectForfeit, DatabaseOK, RedisOK, HistoryOK, EnvironmentOK
  <2> QED
    BY <2>1, <2>2
<1>15. ASSUME NEW h \in Handler, handleTimerExpiry(h) PROVE TypeInv'
  <2>1. EnvironmentOK'
    BY <1>15, HandlerType DEF handleTimerExpiry, EnvironmentOK
  <2>2. HandlersOK' /\ ReadBound'
    BY <1>15, GotoType DEF handleTimerExpiry, HandlersOK, ReadBound, Steps
  <2>3. DatabaseOK' /\ RedisOK' /\ HistoryOK'
    BY <1>15 DEF handleTimerExpiry, DatabaseOK, RedisOK, HistoryOK
  <2> QED
    BY <2>1, <2>2, <2>3
<1>16. ASSUME NEW h \in Handler, ExpiryRead(h) PROVE TypeInv'
  <2>1. HandlersOK' /\ ReadBound'
    <3> DEFINE m == h.match
               next == ExpiryKeys(m)[Len(got[h]) + 1]
               keys == Append(got[h], next)
    <3>1. got[h] \in Seq(Int) /\ Len(got[h]) \in 0..3
      BY DEF HandlersOK, ReadBound
    <3>2. next \in Int
      <4>1. m \in Match /\ playerA[m] \in User /\ playerB[m] \in User
        BY HandlerType, PlayersType
      <4>2. Score \cup {NoKey} \subseteq Int /\ Nat \cup {NoKey} \subseteq Int
        BY BoundAssumption DEF NoKey, NaN
      <4>3. \A u \in User : score[m][u] \in Int /\ time[m][u] \in Int
        BY <4>1, <4>2 DEF RedisOK
      <4>4. Len(got[h]) \in {0, 1, 2, 3}
        BY <3>1
      <4>5. \A n \in {0, 1, 2, 3} : ExpiryKeys(m)[n + 1] \in Int
        BY <4>1, <4>3 DEF ExpiryKeys
      <4> QED
        BY <4>4, <4>5, Zenon
    <3>3. keys \in Seq(Int)
      BY <3>1, <3>2
    <3>4. CASE Len(keys) < 4
      <4>1. got' = [got EXCEPT ![h] = keys] /\ UNCHANGED <<step, win>>
        BY <1>16, <3>4 DEF ExpiryRead
      <4>2. Len(keys) \in 0..3
        BY <3>1, <3>2, <3>4
      <4> HIDE DEF keys
      <4> QED
        BY <3>3, <4>1, <4>2 DEF HandlersOK, ReadBound
    <3>5. CASE ~(Len(keys) < 4)
      <4>1. PICK w \in User : Resolve(h, w)
        BY <1>16, <3>5, HandlerType, PlayersType DEF ExpiryRead, timeUpWinner
      <4> QED
        BY <4>1, ResolveType
    <3> QED
      BY <3>4, <3>5
  <2>2. DatabaseOK' /\ RedisOK' /\ HistoryOK' /\ EnvironmentOK'
    BY <1>16 DEF ExpiryRead, DatabaseOK, RedisOK, HistoryOK, EnvironmentOK
  <2> QED
    BY <2>1, <2>2
<1>17. ASSUME NEW h \in Handler, ResolveGet(h) PROVE TypeInv'
  <2>1. HandlersOK' /\ ReadBound'
    BY <1>17, GotoType, ReturnType DEF ResolveGet, Steps, ResolveSteps
  <2>2. DatabaseOK' /\ RedisOK' /\ HistoryOK' /\ EnvironmentOK'
    BY <1>17 DEF ResolveGet, DatabaseOK, RedisOK, HistoryOK, EnvironmentOK
  <2> QED
    BY <2>1, <2>2
<1>18. ASSUME NEW h \in Handler, ResolveSet(h) PROVE TypeInv'
  <2>1. RedisOK'
    BY <1>18, HandlerType DEF ResolveSet, RedisOK
  <2>2. HandlersOK' /\ ReadBound'
    BY <1>18, GotoType DEF ResolveSet, Steps, ResolveSteps
  <2>3. DatabaseOK' /\ HistoryOK' /\ EnvironmentOK'
    BY <1>18 DEF ResolveSet, DatabaseOK, HistoryOK, EnvironmentOK
  <2> QED
    BY <2>1, <2>2, <2>3
<1>19. ASSUME NEW h \in Handler, ResolveState(h) PROVE TypeInv'
  <2>1. RedisOK'
    BY <1>19, HandlerType DEF ResolveState, RedisOK
  <2>2. HandlersOK' /\ ReadBound'
    BY <1>19, GotoType DEF ResolveState, Steps, ResolveSteps
  <2>3. DatabaseOK' /\ HistoryOK' /\ EnvironmentOK'
    BY <1>19 DEF ResolveState, DatabaseOK, HistoryOK, EnvironmentOK
  <2> QED
    BY <2>1, <2>2, <2>3
<1>20. ASSUME NEW h \in Handler, ResolvePayout(h) PROVE TypeInv'
  <2>1. DatabaseOK'
    BY <1>20, HandlerType, ReleaseType DEF ResolvePayout, DatabaseOK
  <2>2. HistoryOK'
    BY <1>20, HandlerType, ReleaseType DEF ResolvePayout, HistoryOK
  <2>3. HandlersOK' /\ ReadBound'
    BY <1>20, GotoType DEF ResolvePayout, Steps, ResolveSteps
  <2>4. RedisOK' /\ EnvironmentOK'
    BY <1>20 DEF ResolvePayout, RedisOK, EnvironmentOK
  <2> QED
    BY <2>1, <2>2, <2>3, <2>4
<1>21. ASSUME NEW h \in Handler, ResolveRow(h) PROVE TypeInv'
  <2>1. DatabaseOK'
    BY <1>21, HandlerType DEF ResolveRow, HandlersOK, DatabaseOK
  <2>2. HandlersOK' /\ ReadBound'
    BY <1>21, GotoType DEF ResolveRow, Steps, ResolveSteps
  <2>3. RedisOK' /\ HistoryOK' /\ EnvironmentOK'
    BY <1>21 DEF ResolveRow, RedisOK, HistoryOK, EnvironmentOK
  <2> QED
    BY <2>1, <2>2, <2>3
<1>22. ASSUME NEW h \in Handler, ResolveStats(h) PROVE TypeInv'
  <2>1. DatabaseOK'
    BY <1>22, HandlerType DEF ResolveStats, DatabaseOK
  <2>2. HandlersOK' /\ ReadBound'
    BY <1>22, ReturnType DEF ResolveStats
  <2>3. RedisOK' /\ HistoryOK' /\ EnvironmentOK'
    BY <1>22 DEF ResolveStats, RedisOK, HistoryOK, EnvironmentOK
  <2> QED
    BY <2>1, <2>2, <2>3
<1>23. ASSUME NEW h \in Handler, StatementFails(h) PROVE TypeInv'
  <2>1. EnvironmentOK'
    BY <1>23, HandlerType, BoundAssumption DEF StatementFails, Faulty, EnvironmentOK
  <2>2. HandlersOK' /\ ReadBound'
    BY <1>23, ThrowType DEF StatementFails
  <2>3. DatabaseOK' /\ RedisOK' /\ HistoryOK'
    BY <1>23 DEF StatementFails, DatabaseOK, RedisOK, HistoryOK
  <2> QED
    BY <2>1, <2>2, <2>3
<1>24. ASSUME NEW h \in Handler, CommitUnanswered(h) PROVE TypeInv'
  <2>1. EnvironmentOK'
    BY <1>24, HandlerType, BoundAssumption DEF CommitUnanswered, Faulty, EnvironmentOK
  <2>2. DatabaseOK'
    BY <1>24, HandlerType, ReleaseType, RefundType DEF CommitUnanswered, DatabaseOK
  <2>3. HistoryOK'
    BY <1>24, HandlerType, ReleaseType, RefundType DEF CommitUnanswered, HistoryOK
  <2>4. HandlersOK' /\ ReadBound'
    BY <1>24, ThrowType DEF CommitUnanswered
  <2>5. RedisOK'
    BY <1>24 DEF CommitUnanswered, RedisOK
  <2> QED
    BY <2>1, <2>2, <2>3, <2>4, <2>5
<1>25. ASSUME NEW m \in Match, Tick(m) PROVE TypeInv'
  <2>1. EnvironmentOK'
    BY <1>25, BoundAssumption DEF Tick, EnvironmentOK
  <2>2. DatabaseOK' /\ RedisOK' /\ HandlersOK' /\ HistoryOK' /\ ReadBound'
    BY <1>25 DEF Tick, DatabaseOK, RedisOK, HandlersOK, HistoryOK, ReadBound
  <2> QED
    BY <2>1, <2>2
<1>26. CASE Crash
  <2>1. HandlersOK' /\ ReadBound'
    BY <1>26, EmptySeq DEF Crash, HandlersOK, ReadBound, Steps
  <2>2. EnvironmentOK'
    BY <1>26, BoundAssumption DEF Crash, EnvironmentOK
  <2>3. DatabaseOK' /\ RedisOK' /\ HistoryOK'
    BY <1>26 DEF Crash, DatabaseOK, RedisOK, HistoryOK
  <2> QED
    BY <2>1, <2>2, <2>3
<1>27. CASE UNCHANGED vars
  BY <1>27 DEF vars, DatabaseOK, RedisOK, HandlersOK, HistoryOK, EnvironmentOK, ReadBound
<1> QED
  BY <1>1, <1>2, <1>3, <1>4, <1>5, <1>6, <1>7, <1>8, <1>9, <1>10, <1>11, <1>12, <1>13,
     <1>14, <1>15, <1>16, <1>17, <1>18, <1>19, <1>20, <1>21, <1>22, <1>23, <1>24, <1>25, <1>26,
     <1>27, Zenon DEF Next, HandlerStep, ServerStep

-----------------------------------------------------------------------------
(* The escrow.  As long as no two matches share a player, the locked       *)
(* balance of a player is the entry fee while the match is unsettled and 0 *)
(* otherwise.  A second payout or refund would make it negative, so the    *)
(* CHECK constraint refuses it: this, and not the `resolved` key, is why   *)
(* racing resolutions settle a match once.                                 *)

DisjointPlayers ==
  \A m, n \in Match : m # n => Players(m) \cap Players(n) = {}

EscrowOK(m) ==
  /\ paid[m] + refunded[m] <= 1
  /\ status[m] = "none" => paid[m] + refunded[m] = 0
  /\ \A u \in Players(m) :
       wallets[u].locked =
         IF status[m] # "none" /\ paid[m] + refunded[m] = 0 THEN entryFee[m] ELSE 0

EscrowInv == \A m \in Match : EscrowOK(m)

\* resolveMatch is called with a player of the match as the winner.
WinnerInv == \A h \in Handler : step[h] \in ResolveSteps => win[h] \in Players(h.match)

\* What the table of matches and the handlers that write it know.
RowOK(m) ==
  /\ status[m] = "COMPLETED" => paid[m] = 1 /\ winnerId[m] = payee[m].user
  /\ status[m] = "CANCELLED" => refunded[m] = 1
  /\ stats[m] <= paid[m]

Recording(h) == step[h] \in {"row", "stats"}

RecorderOK(h) ==
  /\ Recording(h) =>
       /\ paid[h.match] = 1 /\ stats[h.match] = 0 /\ payee[h.match].user = win[h]
       /\ \A g \in Handler : g.match = h.match /\ Recording(g) => g = h
  /\ step[h] = "cancelRow" => refunded[h.match] = 1

RecordInv == (\A m \in Match : RowOK(m)) /\ (\A h \in Handler : RecorderOK(h))

IInv == TypeInv /\ EscrowInv /\ WinnerInv /\ RecordInv

\* The players of a match, seen from either of them.
LEMMA PlayersAreUsers ==
  ASSUME NEW m \in Match
  PROVE  /\ Players(m) \subseteq User
         /\ \A u \in Players(m) : Players(m) = {u, Opponent(m, u)}
         /\ \A u : Opponent(m, u) \in Players(m)
BY PlayersType DEF Players, Opponent

\* The column locked_balance is a natural number.
LEMMA LockedType ==
  ASSUME TypeInv, NEW u \in User
  PROVE  wallets[u].locked \in Nat
BY NumericAssumption DEF TypeInv, TypeOK, DatabaseOK, Row, Column

\* What a transaction that adds n to the locked balances of S does to them.
LEMMA AppliedLocked ==
  ASSUME TypeInv, NEW t, NEW S, NEW n \in Int, t.locked = Only(S, n), NEW u \in User,
         wallets' = Applied(wallets, t)
  PROVE  wallets'[u].locked = IF u \in S THEN wallets[u].locked + n ELSE wallets[u].locked
<1>1. wallets'[u].locked = wallets[u].locked + t.locked[u]
  BY DEF Applied, UpdatedRow
<1>2. t.locked[u] = IF u \in S THEN n ELSE 0
  BY DEF Only
<1> QED
  BY <1>1, <1>2, LockedType

\* The effect of the three match transactions on the locked balances.
LEMMA LockEffect ==
  ASSUME TypeInv, NEW m \in Match, NEW u \in User,
         wallets' = Applied(wallets, lockFundsForMatch(playerA[m], playerB[m], entryFee[m]))
  PROVE  wallets'[u].locked =
           IF u \in Players(m) THEN wallets[u].locked + entryFee[m] ELSE wallets[u].locked
<1> DEFINE t == lockFundsForMatch(playerA[m], playerB[m], entryFee[m])
<1>1. t.locked = Only(Players(m), entryFee[m])
  BY DEF lockFundsForMatch, Players
<1>2. entryFee[m] \in Int
  BY PlayersType
<1> HIDE DEF t
<1> QED
  BY <1>1, <1>2, AppliedLocked DEF t

\* What a refund does to each locked balance.
LEMMA RefundEffect ==
  ASSUME TypeInv, NEW m \in Match, Refund(m), NEW u \in User
  PROVE  /\ wallets'[u].locked =
              IF u \in Players(m) THEN wallets[u].locked - entryFee[m] ELSE wallets[u].locked
         /\ wallets'[u].locked >= 0
<1>1. wallets'[u].locked =
        IF u \in Players(m) THEN wallets[u].locked - entryFee[m] ELSE wallets[u].locked
  <2>1. RefundOf(m).locked = Only(Players(m), -entryFee[m])
    BY DEF RefundOf, refundBothPlayers, Players
  <2>2. entryFee[m] \in Int /\ -entryFee[m] \in Int
    BY PlayersType
  <2>3. wallets' = Applied(wallets, RefundOf(m))
    BY DEF Refund
  <2>4. wallets'[u].locked =
          IF u \in Players(m) THEN wallets[u].locked + (-entryFee[m]) ELSE wallets[u].locked
    BY <2>1, <2>2, <2>3, AppliedLocked
  <2> QED
    BY <2>2, <2>4, LockedType
<1>2. wallets'[u].locked \in Column
  BY AppliedType DEF Refund, Row
<1> QED
  BY <1>1, <1>2, NumericAssumption DEF Column

\* What a payout does to each locked balance.
LEMMA ReleaseEffect ==
  ASSUME TypeInv, NEW h \in Handler, win[h] \in Players(h.match), Release(h), NEW u \in User
  PROVE  /\ wallets'[u].locked =
              IF u \in Players(h.match) THEN wallets[u].locked - entryFee[h.match]
                                        ELSE wallets[u].locked
         /\ wallets'[u].locked >= 0
<1>1. Players(h.match) = {win[h], Opponent(h.match, win[h])}
  BY HandlerType, PlayersAreUsers
<1>2. wallets'[u].locked =
        IF u \in Players(h.match) THEN wallets[u].locked - entryFee[h.match]
                                  ELSE wallets[u].locked
  <2>1. ReleaseOf(h).locked = Only(Players(h.match), -entryFee[h.match])
    BY <1>1 DEF ReleaseOf, releaseEscrowToWinner
  <2>2. entryFee[h.match] \in Int /\ -entryFee[h.match] \in Int
    BY PlayersType, HandlerType
  <2>3. wallets' = Applied(wallets, ReleaseOf(h))
    BY DEF Release
  <2>4. wallets'[u].locked =
          IF u \in Players(h.match) THEN wallets[u].locked + (-entryFee[h.match])
                                    ELSE wallets[u].locked
    BY <2>1, <2>2, <2>3, AppliedLocked
  <2> QED
    BY <2>2, <2>4, LockedType
<1>3. wallets'[u].locked \in Column
  BY AppliedType DEF Release, Row
<1> QED
  BY <1>2, <1>3, NumericAssumption DEF Column

\* A step that takes the escrow of m finds it unsettled.
LEMMA SettleStep ==
  ASSUME DisjointPlayers, TypeInv, EscrowInv, NEW m \in Match,
         UNCHANGED status,
         \A u \in User :
           /\ wallets'[u].locked =
                IF u \in Players(m) THEN wallets[u].locked - entryFee[m]
                                    ELSE wallets[u].locked
           /\ wallets'[u].locked >= 0,
         paid'[m] + refunded'[m] = paid[m] + refunded[m] + 1,
         \A n \in Match \ {m} : paid'[n] = paid[n] /\ refunded'[n] = refunded[n]
  PROVE  EscrowInv' /\ status[m] # "none" /\ paid[m] + refunded[m] = 0
<1>1. /\ playerA[m] \in Players(m) /\ playerA[m] \in User
      /\ entryFee[m] \in Nat /\ entryFee[m] > 0
      /\ wallets[playerA[m]].locked \in Nat
  BY PlayersType, LockedType DEF Players
<1>2. status[m] # "none" /\ paid[m] + refunded[m] = 0
  BY <1>1 DEF EscrowInv, EscrowOK
<1>3. EscrowOK(m)'
  <2>1. paid'[m] + refunded'[m] = 1
    BY <1>2
  <2>2. ASSUME NEW u \in Players(m) PROVE wallets'[u].locked = 0
    <3>1. u \in User /\ wallets[u].locked = entryFee[m]
      BY <1>2, PlayersAreUsers DEF EscrowInv, EscrowOK
    <3> QED
      BY <1>1, <3>1
  <2> QED
    BY <1>2, <2>1, <2>2 DEF EscrowOK
<1>4. ASSUME NEW n \in Match, n # m PROVE EscrowOK(n)'
  <2>1. \A u \in Players(n) : u \in User /\ u \notin Players(m)
    BY <1>4, PlayersAreUsers DEF DisjointPlayers
  <2>2. \A u \in Players(n) : wallets'[u].locked = wallets[u].locked
    BY <2>1
  <2> QED
    BY <1>4, <2>2 DEF EscrowInv, EscrowOK
<1> QED
  BY <1>2, <1>3, <1>4 DEF EscrowInv

\* Releases and refunds are such steps.
LEMMA RefundSettles ==
  ASSUME DisjointPlayers, TypeInv, EscrowInv, NEW m \in Match,
         UNCHANGED <<status, paid>>, Refund(m)
  PROVE  EscrowInv' /\ status[m] # "none" /\ paid[m] = 0 /\ refunded[m] = 0 /\ refunded'[m] = 1
<1>1. paid[m] \in Nat /\ refunded[m] \in Nat
  BY DEF TypeInv, TypeOK, HistoryOK
<1>2. /\ refunded'[m] = refunded[m] + 1
      /\ \A n \in Match \ {m} : refunded'[n] = refunded[n]
  BY DEF Refund, TypeInv, TypeOK, HistoryOK
<1>3. EscrowInv' /\ status[m] # "none" /\ paid[m] + refunded[m] = 0
  <2>1. \A u \in User :
          /\ wallets'[u].locked =
               IF u \in Players(m) THEN wallets[u].locked - entryFee[m] ELSE wallets[u].locked
          /\ wallets'[u].locked >= 0
    BY RefundEffect
  <2>2. paid'[m] + refunded'[m] = paid[m] + refunded[m] + 1
    BY <1>1, <1>2
  <2>3. \A n \in Match \ {m} : paid'[n] = paid[n] /\ refunded'[n] = refunded[n]
    BY <1>2
  <2> QED
    BY <2>1, <2>2, <2>3, SettleStep
<1> QED
  BY <1>1, <1>2, <1>3

\* The first payout of a match is its only settlement.
LEMMA ReleaseSettles ==
  ASSUME DisjointPlayers, TypeInv, EscrowInv, NEW h \in Handler,
         win[h] \in Players(h.match), UNCHANGED <<status, refunded>>, Release(h)
  PROVE  /\ EscrowInv' /\ status[h.match] # "none"
         /\ paid[h.match] = 0 /\ refunded[h.match] = 0 /\ paid'[h.match] = 1
<1> DEFINE m == h.match
<1>1. m \in Match /\ paid[m] \in Nat /\ refunded[m] \in Nat
  BY HandlerType DEF TypeInv, TypeOK, HistoryOK
<1>2. paid'[m] = paid[m] + 1 /\ \A n \in Match \ {m} : paid'[n] = paid[n]
  BY <1>1 DEF Release, TypeInv, TypeOK, HistoryOK
<1>3. \A u \in User :
        /\ wallets'[u].locked =
             IF u \in Players(m) THEN wallets[u].locked - entryFee[m] ELSE wallets[u].locked
        /\ wallets'[u].locked >= 0
  BY ReleaseEffect
<1>4. EscrowInv' /\ status[m] # "none" /\ paid[m] + refunded[m] = 0
  <2>1. paid'[m] + refunded'[m] = paid[m] + refunded[m] + 1
    BY <1>1, <1>2
  <2>2. \A n \in Match \ {m} : paid'[n] = paid[n] /\ refunded'[n] = refunded[n]
    BY <1>2
  <2> HIDE DEF m
  <2> QED
    BY <1>1, <1>3, <2>1, <2>2, SettleStep
<1> QED
  BY <1>1, <1>2, <1>4

\* How a handler that moves on or returns changes the steps and winners.
LEMMA Moved ==
  ASSUME TypeInv, NEW h \in Handler, NEW s, Goto(h, s)
  PROVE  /\ step'[h] = s /\ win'[h] = win[h]
         /\ \A g \in Handler : g # h => step'[g] = step[g] /\ win'[g] = win[g]
BY DEF Goto, TypeInv, TypeOK, HandlersOK

\* How a handler stops.
LEMMA Returned ==
  ASSUME TypeInv, NEW h \in Handler, Return(h)
  PROVE  /\ step'[h] = "idle"
         /\ \A g \in Handler : g # h => step'[g] = step[g] /\ win'[g] = win[g]
BY DEF Return, TypeInv, TypeOK, HandlersOK

\* The settlement counters are natural numbers.
LEMMA Counts ==
  ASSUME TypeInv, NEW m \in Match
  PROVE  paid[m] \in Nat /\ refunded[m] \in Nat /\ stats[m] \in Nat
BY DEF TypeInv, TypeOK, HistoryOK, DatabaseOK

\* Nothing is settled at first.
LEMMA InitInv == Init => IInv
<1> SUFFICES ASSUME Init PROVE IInv
  OBVIOUS
<1>1. EscrowInv
  BY PlayersAreUsers DEF Init, EscrowInv, EscrowOK
<1>2. WinnerInv
  BY DEF Init, WinnerInv, ResolveSteps
<1>3. RecordInv
  BY DEF Init, RecordInv, RowOK, RecorderOK, Recording
<1> QED
  BY <1>1, <1>2, <1>3, InitType DEF IInv

SafeInv == EscrowInv /\ WinnerInv /\ RecordInv

\* Steps of a handler that leave tables and history alone.
LEMMA QuietGoto ==
  ASSUME IInv, UNCHANGED <<database, history>>, NEW h \in Handler,
         NEW s \in Steps \ {"row", "stats", "cancelRow"},
         s \in ResolveSteps => step[h] \in ResolveSteps,
         Goto(h, s)
  PROVE  SafeInv'
<1>1. EscrowInv'
  BY Zenon DEF IInv, EscrowInv, EscrowOK, database, history
<1>2. WinnerInv'
  BY DEF IInv, WinnerInv, Goto, TypeInv, TypeOK, HandlersOK
<1>3. RecordInv'
  BY Zenon DEF IInv, RecordInv, RowOK, RecorderOK, Recording, Goto, database, history,
         TypeInv, TypeOK, HandlersOK
<1> QED
  BY <1>1, <1>2, <1>3 DEF SafeInv

LEMMA QuietReturn ==
  ASSUME IInv, UNCHANGED <<database, history>>, NEW h \in Handler, Return(h)
  PROVE  SafeInv'
<1>1. EscrowInv'
  BY Zenon DEF IInv, EscrowInv, EscrowOK, database, history
<1>2. WinnerInv'
  BY DEF IInv, WinnerInv, Return, ResolveSteps, TypeInv, TypeOK, HandlersOK
<1>3. RecordInv'
  BY Zenon DEF IInv, RecordInv, RowOK, RecorderOK, Recording, Return, database, history,
         TypeInv, TypeOK, HandlersOK
<1> QED
  BY <1>1, <1>2, <1>3 DEF SafeInv

LEMMA QuietResolve ==
  ASSUME IInv, UNCHANGED <<database, history>>, NEW h \in Handler,
         NEW w \in Players(h.match), Resolve(h, w)
  PROVE  SafeInv'
<1>1. EscrowInv'
  BY Zenon DEF IInv, EscrowInv, EscrowOK, database, history
<1>2. WinnerInv'
  BY DEF IInv, WinnerInv, Resolve, TypeInv, TypeOK, HandlersOK
<1>3. RecordInv'
  BY DEF IInv, RecordInv, RowOK, RecorderOK, Recording, Resolve, database, history,
         TypeInv, TypeOK, HandlersOK
<1> QED
  BY <1>1, <1>2, <1>3 DEF SafeInv

LEMMA QuietOther ==
  ASSUME IInv, UNCHANGED <<database, history, step, win>>
  PROVE  SafeInv'
BY DEF IInv, SafeInv, EscrowInv, EscrowOK, WinnerInv, RecordInv, RowOK, RecorderOK,
       Recording, database, history

LEMMA QuietThrow ==
  ASSUME IInv, UNCHANGED <<database, history>>, NEW h \in Handler, Throw(h)
  PROVE  SafeInv'
BY QuietGoto, QuietReturn DEF Throw, Steps, ResolveSteps

\* A refund or a release, with the handler at a step that records nothing.
LEMMA RefundStep ==
  ASSUME DisjointPlayers, IInv, NEW h \in Handler, Refund(h.match),
         UNCHANGED <<status, winnerId, stats, paid, payee>>,
         Return(h) \/ Goto(h, "cancelRow")
  PROVE  SafeInv'
<1> DEFINE m == h.match
<1>1. /\ m \in Match /\ EscrowInv' /\ status[m] # "none"
      /\ paid[m] = 0 /\ refunded[m] = 0 /\ refunded'[m] = 1
  BY HandlerType, RefundSettles, Zenon DEF IInv
<1>2. WinnerInv'
  BY DEF IInv, WinnerInv, Return, Goto, ResolveSteps, TypeInv, TypeOK, HandlersOK
<1>3. \A n \in Match : RowOK(n)'
  <2>1. \A n \in Match \ {m} : refunded'[n] = refunded[n]
    BY DEF Refund, IInv, TypeInv, TypeOK, HistoryOK
  <2> QED
    BY <1>1, <2>1, Zenon DEF IInv, RecordInv, RowOK
<1>4. \A g \in Handler : RecorderOK(g)'
  <2>1. \A n \in Match \ {m} : refunded'[n] = refunded[n]
    BY DEF Refund, IInv, TypeInv, TypeOK, HistoryOK
  <2>2. /\ step'[h] \in {"idle", "cancelRow"}
        /\ \A g \in Handler : g # h => step'[g] = step[g] /\ win'[g] = win[g]
    BY Moved, Returned DEF IInv
  <2>3. \A g \in Handler : Recording(g)' => g # h /\ Recording(g) /\ win'[g] = win[g]
    BY <2>2 DEF Recording
  <2>4. \A g \in Handler : RecorderOK(g)
    BY DEF IInv, RecordInv
  <2>5. ASSUME NEW g \in Handler, Recording(g)'
        PROVE  /\ paid'[g.match] = 1 /\ stats'[g.match] = 0 /\ payee'[g.match].user = win'[g]
               /\ \A k \in Handler : k.match = g.match /\ Recording(k)' => k = g
    BY <2>3, <2>4, <2>5 DEF RecorderOK
  <2>6. ASSUME NEW g \in Handler, step'[g] = "cancelRow" PROVE refunded'[g.match] = 1
    BY <1>1, <2>1, <2>2, <2>4, <2>6, HandlerType DEF RecorderOK
  <2> QED
    BY <2>5, <2>6 DEF RecorderOK
<1> QED
  BY <1>1, <1>2, <1>3, <1>4, Zenon DEF SafeInv, RecordInv

\* The payout, answered or not.
LEMMA ReleaseStep ==
  ASSUME DisjointPlayers, IInv, NEW h \in Handler, step[h] = "payout", Release(h),
         UNCHANGED <<status, winnerId, stats, refunded>>,
         Goto(h, "row") \/ Goto(h, "refund")
  PROVE  SafeInv'
<1> DEFINE m == h.match
<1>1. win[h] \in Players(m)
  BY DEF IInv, WinnerInv, ResolveSteps
<1>2. /\ m \in Match /\ EscrowInv' /\ status[m] # "none"
      /\ paid[m] = 0 /\ refunded[m] = 0 /\ paid'[m] = 1
  BY <1>1, HandlerType, ReleaseSettles, Zenon DEF IInv
<1>3. WinnerInv'
  BY <1>1 DEF IInv, WinnerInv, Goto, ResolveSteps, TypeInv, TypeOK, HandlersOK
<1>4. /\ payee'[m].user = win[h]
      /\ \A n \in Match \ {m} : paid'[n] = paid[n] /\ payee'[n] = payee[n]
  BY <1>2, Zenon DEF Release, IInv, TypeInv, TypeOK, HistoryOK
<1>5. stats[m] = 0 /\ status[m] \notin {"COMPLETED", "CANCELLED"}
  <2>1. stats[m] \in Nat /\ RowOK(m)
    BY <1>2, Counts DEF IInv, RecordInv
  <2>2. paid[m] = 0 /\ refunded[m] = 0
    BY <1>2
  <2> HIDE DEF m
  <2> QED
    BY <2>1, <2>2 DEF RowOK
<1>6. \A n \in Match : RowOK(n)'
  <2>1. RowOK(m)'
    <3>1. status'[m] = status[m] /\ stats'[m] = stats[m] /\ paid'[m] = 1
      BY <1>2
    <3> HIDE DEF m
    <3> QED
      BY <1>5, <3>1 DEF RowOK
  <2>2. ASSUME NEW n \in Match, n # m PROVE RowOK(n)'
    <3>1. RowOK(n) /\ paid'[n] = paid[n] /\ payee'[n] = payee[n]
      BY <1>4, <2>2 DEF IInv, RecordInv
    <3> QED
      BY <3>1 DEF RowOK
  <2> QED
    BY <2>1, <2>2
<1>7. \A g \in Handler : RecorderOK(g)'
  <2>1. /\ step'[h] \in {"row", "refund"} /\ win'[h] = win[h]
        /\ \A g \in Handler : g # h => step'[g] = step[g] /\ win'[g] = win[g]
    BY Moved, Zenon DEF IInv
  <2>2. \A g \in Handler : RecorderOK(g)
    BY DEF IInv, RecordInv
  <2>3. ASSUME NEW g \in Handler, Recording(g) PROVE g.match # m
    <3>1. paid[g.match] = 1
      BY <2>2, <2>3 DEF RecorderOK
    <3>2. paid[m] = 0
      BY <1>2
    <3> HIDE DEF m
    <3> QED
      BY <3>1, <3>2
  <2>4. \A g \in Handler : Recording(g)' => g = h \/ Recording(g)
    BY <2>1 DEF Recording
  <2>5. RecorderOK(h)'
    <3>1. \A k \in Handler : k.match = m /\ Recording(k)' => k = h
      BY <2>3, <2>4
    <3>2. step'[h] # "cancelRow"
      BY <2>1
    <3> QED
      BY <1>2, <1>4, <1>5, <2>1, <3>1, <3>2, Zenon DEF RecorderOK
  <2>6. ASSUME NEW g \in Handler, g # h, Recording(g)'
        PROVE  /\ paid'[g.match] = 1 /\ stats'[g.match] = 0 /\ payee'[g.match].user = win'[g]
               /\ \A k \in Handler : k.match = g.match /\ Recording(k)' => k = g
    <3>1. Recording(g) /\ g.match # m /\ g.match \in Match /\ win'[g] = win[g]
      BY <2>1, <2>3, <2>4, <2>6, HandlerType, Zenon
    <3>2. \A k \in Handler : k.match = g.match /\ Recording(k)' => Recording(k)
      BY <2>4, <3>1
    <3> QED
      BY <1>4, <2>2, <3>1, <3>2 DEF RecorderOK
  <2>7. ASSUME NEW g \in Handler, g # h, step'[g] = "cancelRow" PROVE refunded'[g.match] = 1
    BY <2>1, <2>2, <2>7 DEF RecorderOK
  <2> QED
    BY <2>5, <2>6, <2>7 DEF RecorderOK
<1> QED
  BY <1>2, <1>3, <1>6, <1>7, Zenon DEF SafeInv, RecordInv

\* The creation of a match locks both fees.
LEMMA CreateStep ==
  ASSUME DisjointPlayers, IInv, NEW h \in Handler, CreateMatch(h)
  PROVE  SafeInv'
<1> DEFINE m == h.match
<1>1. /\ m \in Match /\ status[m] = "none" /\ status'[m] = "IN_PROGRESS"
      /\ \A n \in Match \ {m} : status'[n] = status[n]
      /\ UNCHANGED <<winnerId, stats, history>>
  BY HandlerType, Zenon DEF CreateMatch, IInv, TypeInv, TypeOK, DatabaseOK
<1>2. \A u \in User : wallets'[u].locked =
        IF u \in Players(m) THEN wallets[u].locked + entryFee[m] ELSE wallets[u].locked
  BY <1>1, LockEffect, Zenon DEF CreateMatch, IInv
<1>3. EscrowOK(m)'
  <2>1. EscrowOK(m)
    BY <1>1 DEF IInv, EscrowInv
  <2>2. paid[m] + refunded[m] = 0 /\ \A u \in Players(m) : wallets[u].locked = 0
    BY <1>1, <2>1, Zenon DEF EscrowOK
  <2>3. Players(m) \subseteq User /\ entryFee[m] \in Nat
    BY <1>1, PlayersAreUsers, PlayersType
  <2>4. ASSUME NEW u \in Players(m) PROVE wallets'[u].locked = entryFee[m]
    <3>1. u \in User /\ wallets[u].locked = 0
      BY <2>2, <2>3
    <3>2. wallets'[u].locked = wallets[u].locked + entryFee[m]
      BY <1>2, <3>1
    <3> QED
      BY <2>3, <3>1, <3>2
  <2>5. paid' = paid /\ refunded' = refunded
    BY <1>1 DEF history
  <2>6. status'[m] # "none" /\ paid'[m] + refunded'[m] = 0
    BY <1>1, <2>2, <2>5
  <2>7. paid'[m] + refunded'[m] <= 1
    BY <2>6
  <2> HIDE DEF m
  <2> QED
    BY <2>4, <2>6, <2>7, Zenon DEF EscrowOK
<1>4. ASSUME NEW n \in Match, n # m PROVE EscrowOK(n)'
  <2>1. \A u \in Players(n) : u \in User /\ u \notin Players(m)
    BY <1>1, <1>4, PlayersAreUsers DEF DisjointPlayers
  <2>2. \A u \in Players(n) : wallets'[u].locked = wallets[u].locked
    BY <1>2, <2>1
  <2> QED
    BY <1>1, <1>4, <2>2 DEF IInv, EscrowInv, EscrowOK, history
<1>5. WinnerInv'
  BY Zenon DEF CreateMatch, IInv, WinnerInv, Goto, ResolveSteps, TypeInv, TypeOK, HandlersOK
<1>6. \A n \in Match : RowOK(n)'
  BY <1>1, Zenon DEF IInv, RecordInv, RowOK, history
<1>7. \A g \in Handler : RecorderOK(g)'
  <2>1. /\ step'[h] = "publish"
        /\ \A g \in Handler : g # h => step'[g] = step[g] /\ win'[g] = win[g]
    BY Moved, Zenon DEF CreateMatch, IInv
  <2>2. \A g \in Handler : RecorderOK(g)
    BY DEF IInv, RecordInv
  <2>3. \A g \in Handler : Recording(g)' => g # h /\ Recording(g)
    BY <2>1 DEF Recording
  <2>4. paid' = paid /\ refunded' = refunded /\ payee' = payee /\ stats' = stats
    BY <1>1 DEF history
  <2> QED
    BY <2>1, <2>2, <2>3, <2>4, Zenon DEF RecorderOK
<1> QED
  BY <1>3, <1>4, <1>5, <1>6, <1>7 DEF SafeInv, EscrowInv, RecordInv

\* The steps that write the table of matches and the statistics.
LEMMA RowStep ==
  ASSUME IInv, NEW h \in Handler, ResolveRow(h)
  PROVE  SafeInv'
<1> DEFINE m == h.match
<1>1. /\ m \in Match /\ paid[m] = 1 /\ payee[m].user = win[h]
      /\ \A g \in Handler : g.match = m /\ Recording(g) => g = h
  BY HandlerType, Zenon DEF ResolveRow, At, IInv, RecordInv, RecorderOK, Recording
<1>2. /\ status' = [status EXCEPT ![m] = "COMPLETED"]
      /\ winnerId' = [winnerId EXCEPT ![m] = win[h]]
      /\ UNCHANGED <<wallets, stats, paid, refunded, payee>>
  BY DEF ResolveRow, history
<1>3. EscrowInv'
  <2>1. \A n \in Match : paid[n] + refunded[n] = 0 => n # m
    BY <1>1 DEF IInv, TypeInv, TypeOK, HistoryOK
  <2> QED
    BY <1>1, <1>2, <2>1, Zenon DEF IInv, EscrowInv, EscrowOK, TypeInv, TypeOK, DatabaseOK
<1>4. WinnerInv'
  BY DEF ResolveRow, At, IInv, WinnerInv, Goto, ResolveSteps, TypeInv, TypeOK, HandlersOK
<1>5. \A n \in Match : RowOK(n)'
  BY <1>1, <1>2 DEF IInv, RecordInv, RowOK, TypeInv, TypeOK, DatabaseOK
<1>6. \A g \in Handler : RecorderOK(g)'
  <2>1. \A g \in Handler : /\ Recording(g)' <=> Recording(g)
                           /\ step'[g] = "cancelRow" <=> step[g] = "cancelRow"
                           /\ win'[g] = win[g]
    BY DEF ResolveRow, At, Goto, Recording, IInv, TypeInv, TypeOK, HandlersOK
  <2> QED
    BY <1>2, <2>1 DEF IInv, RecordInv, RecorderOK
<1> QED
  BY <1>3, <1>4, <1>5, <1>6 DEF SafeInv, RecordInv

\* The statistics of a match are written once, by the handler that paid.
LEMMA StatsStep ==
  ASSUME IInv, NEW h \in Handler, ResolveStats(h)
  PROVE  SafeInv'
<1> DEFINE m == h.match
<1>1. /\ m \in Match /\ paid[m] = 1 /\ stats[m] = 0
      /\ \A g \in Handler : g.match = m /\ Recording(g) => g = h
  BY HandlerType DEF ResolveStats, At, IInv, RecordInv, RecorderOK, Recording
<1>2. /\ stats'[m] = 1 /\ \A n \in Match \ {m} : stats'[n] = stats[n]
      /\ UNCHANGED <<wallets, status, winnerId, paid, refunded, payee>>
  <2>1. stats' = [stats EXCEPT ![m] = stats[m] + 1]
    BY DEF ResolveStats
  <2>2. stats \in [Match -> Nat]
    BY DEF IInv, TypeInv, TypeOK, DatabaseOK
  <2>3. stats'[m] = 1 /\ \A n \in Match \ {m} : stats'[n] = stats[n]
    BY <1>1, <2>1, <2>2
  <2> QED
    BY <2>3 DEF ResolveStats, history
<1>3. EscrowInv'
  <2>1. ASSUME NEW n \in Match PROVE EscrowOK(n)'
    <3>1. EscrowOK(n)
      BY DEF IInv, EscrowInv
    <3>2. wallets' = wallets /\ status' = status /\ paid' = paid /\ refunded' = refunded
      BY <1>2
    <3> QED
      BY <3>1, <3>2 DEF EscrowOK
  <2> QED
    BY <2>1 DEF EscrowInv
<1>4. WinnerInv'
  BY DEF ResolveStats, IInv, WinnerInv, Return, ResolveSteps, TypeInv, TypeOK, HandlersOK
<1>5. \A n \in Match : RowOK(n)'
  <2>1. ASSUME NEW n \in Match PROVE RowOK(n)'
    <3>1. RowOK(n)
      BY DEF IInv, RecordInv
    <3>2. CASE n = m
      BY <1>1, <1>2, <3>1, <3>2 DEF RowOK
    <3>3. CASE n # m
      BY <1>2, <3>1, <3>3, Zenon DEF RowOK
    <3> QED
      BY <3>2, <3>3
  <2> QED
    BY <2>1
<1>6. \A g \in Handler : RecorderOK(g)'
  <2>1. /\ step'[h] = "idle"
        /\ \A g \in Handler : g # h => step'[g] = step[g] /\ win'[g] = win[g]
    BY Returned DEF ResolveStats, IInv
  <2>2. \A g \in Handler : RecorderOK(g)
    BY DEF IInv, RecordInv
  <2>3. \A g \in Handler : Recording(g)' => g # h /\ Recording(g) /\ g.match # m
    BY <1>1, <2>1 DEF Recording
  <2>4. ASSUME NEW g \in Handler, Recording(g)'
        PROVE  /\ paid'[g.match] = 1 /\ stats'[g.match] = 0 /\ payee'[g.match].user = win'[g]
               /\ \A k \in Handler : k.match = g.match /\ Recording(k)' => k = g
    <3>1. g # h /\ Recording(g) /\ g.match \in Match \ {m}
      BY <2>3, <2>4, HandlerType
    <3> QED
      BY <1>2, <2>1, <2>2, <2>3, <3>1, Zenon DEF RecorderOK
  <2>5. ASSUME NEW g \in Handler, step'[g] = "cancelRow" PROVE refunded'[g.match] = 1
    BY <1>2, <2>1, <2>2, <2>5 DEF RecorderOK
  <2> QED
    BY <2>4, <2>5 DEF RecorderOK
<1> QED
  BY <1>3, <1>4, <1>5, <1>6 DEF SafeInv, RecordInv

\* Only a refunded match is cancelled.
LEMMA CancelStep ==
  ASSUME IInv, NEW h \in Handler, JudgeErrorCancel(h)
  PROVE  SafeInv'
<1> DEFINE m == h.match
<1>1. m \in Match /\ refunded[m] = 1
  BY HandlerType DEF JudgeErrorCancel, At, IInv, RecordInv, RecorderOK
<1>2. /\ status' = [status EXCEPT ![m] = "CANCELLED"]
      /\ UNCHANGED <<wallets, winnerId, stats, paid, refunded, payee>>
  BY DEF JudgeErrorCancel, history
<1>3. EscrowInv'
  <2>1. \A n \in Match : paid[n] + refunded[n] = 0 => n # m
    BY <1>1 DEF IInv, TypeInv, TypeOK, HistoryOK
  <2> QED
    BY <1>1, <1>2, <2>1 DEF IInv, EscrowInv, EscrowOK, TypeInv, TypeOK, DatabaseOK
<1>4. WinnerInv'
  BY DEF JudgeErrorCancel, IInv, WinnerInv, Return, ResolveSteps, TypeInv, TypeOK, HandlersOK
<1>5. \A n \in Match : RowOK(n)'
  BY <1>1, <1>2 DEF IInv, RecordInv, RowOK, TypeInv, TypeOK, DatabaseOK
<1>6. \A g \in Handler : RecorderOK(g)'
  BY <1>2, Zenon DEF JudgeErrorCancel, Return, IInv, RecordInv, RecorderOK, Recording,
              TypeInv, TypeOK, HandlersOK
<1> QED
  BY <1>3, <1>4, <1>5, <1>6 DEF SafeInv, RecordInv

\* The inductive step, one case per action.
LEMMA StepInv ==
  ASSUME DisjointPlayers, IInv, [Next]_vars
  PROVE  IInv'
<1>1. TypeInv'
  BY StepType DEF IInv
<1> SUFFICES SafeInv'
  BY <1>1 DEF IInv, SafeInv
<1> USE DEF At, Steps, ResolveSteps
<1>2. ASSUME NEW h \in Handler, CreateMatch(h) PROVE SafeInv'
  BY <1>2, CreateStep
<1>3. ASSUME NEW h \in Handler, PublishState(h) PROVE SafeInv'
  BY <1>3, QuietGoto DEF PublishState
<1>4. ASSUME NEW h \in Handler, SubmitStart(h) PROVE SafeInv'
  BY <1>4, QuietGoto DEF SubmitStart
<1>5. ASSUME NEW h \in Handler, SubmitTime(h) PROVE SafeInv'
  BY <1>5, QuietGoto DEF SubmitTime
<1>6. ASSUME NEW h \in Handler, SubmitJudged(h) PROVE SafeInv'
  BY <1>6, QuietGoto DEF SubmitJudged
<1>7. ASSUME NEW h \in Handler, SubmitJudgeError(h) PROVE SafeInv'
  BY <1>7, QuietGoto DEF SubmitJudgeError
<1>8. ASSUME NEW h \in Handler, ResolveSet(h) PROVE SafeInv'
  BY <1>8, QuietGoto DEF ResolveSet
<1>9. ASSUME NEW h \in Handler, ResolveState(h) PROVE SafeInv'
  BY <1>9, QuietGoto DEF ResolveState
<1>10. ASSUME NEW h \in Handler, ArmTimer(h) PROVE SafeInv'
  BY <1>10, QuietReturn DEF ArmTimer
<1>11. ASSUME NEW h \in Handler, SubmitLock(h) PROVE SafeInv'
  BY <1>11, QuietGoto, QuietReturn DEF SubmitLock
<1>12. ASSUME NEW h \in Handler, ResolveGet(h) PROVE SafeInv'
  BY <1>12, QuietGoto, QuietReturn DEF ResolveGet
<1>13. ASSUME NEW h \in Handler, SubmitCompare(h) PROVE SafeInv'
  BY <1>13, QuietResolve, QuietReturn, HandlerType, Zenon DEF SubmitCompare, determineWinner, Players
<1>14. ASSUME NEW h \in Handler, forfeit_request(h) PROVE SafeInv'
  BY <1>14, QuietResolve, HandlerType, PlayersAreUsers, Zenon DEF forfeit_request
<1>15. ASSUME NEW h \in Handler, handleDisconnectForfeit(h) PROVE SafeInv'
  BY <1>15, QuietResolve, HandlerType, PlayersAreUsers DEF handleDisconnectForfeit
<1>16. ASSUME NEW h \in Handler, handleTimerExpiry(h) PROVE SafeInv'
  BY <1>16, QuietGoto, QuietOther DEF handleTimerExpiry, proc
<1>17. ASSUME NEW h \in Handler, ExpiryRead(h) PROVE SafeInv'
  BY <1>17, QuietResolve, QuietOther, HandlerType DEF ExpiryRead, timeUpWinner, Players
<1>18. ASSUME NEW h \in Handler, JudgeErrorRefund(h) PROVE SafeInv'
  BY <1>18, RefundStep, QuietReturn DEF JudgeErrorRefund, RefundRefused, database, history
<1>19. ASSUME NEW h \in Handler, ResolveRefund(h) PROVE SafeInv'
  BY <1>19, RefundStep, QuietReturn DEF ResolveRefund, RefundRefused, database, history
<1>20. ASSUME NEW h \in Handler, ResolvePayout(h) PROVE SafeInv'
  BY <1>20, ReleaseStep, QuietGoto DEF ResolvePayout, database, history
<1>21. ASSUME NEW h \in Handler, JudgeErrorCancel(h) PROVE SafeInv'
  BY <1>21, CancelStep
<1>22. ASSUME NEW h \in Handler, ResolveRow(h) PROVE SafeInv'
  BY <1>22, RowStep
<1>23. ASSUME NEW h \in Handler, ResolveStats(h) PROVE SafeInv'
  BY <1>23, StatsStep
<1>24. ASSUME NEW h \in Handler, StatementFails(h) PROVE SafeInv'
  BY <1>24, QuietThrow DEF StatementFails
<1>25. ASSUME NEW h \in Handler, CommitUnanswered(h) PROVE SafeInv'
  BY <1>25, ReleaseStep, RefundStep DEF CommitUnanswered, Throw
<1>26. ASSUME NEW m \in Match, Tick(m) PROVE SafeInv'
  BY <1>26, QuietOther DEF Tick, proc
<1>27. CASE Crash
  BY <1>27, Zenon DEF Crash, database, history, IInv, SafeInv, EscrowInv, EscrowOK, WinnerInv,
     RecordInv, RowOK, RecorderOK, Recording
<1>28. CASE UNCHANGED vars
  BY <1>28, QuietOther DEF vars, proc
<1> QED
  BY <1>2, <1>3, <1>4, <1>5, <1>6, <1>7, <1>8, <1>9, <1>10, <1>11, <1>12, <1>13, <1>14,
     <1>15, <1>16, <1>17, <1>18, <1>19, <1>20, <1>21, <1>22, <1>23, <1>24, <1>25, <1>26, <1>27,
     <1>28
     DEF Next, HandlerStep, ServerStep

-----------------------------------------------------------------------------
(* Theorems.                                                               *)

\* Type correctness of matches, wallets and handlers, for any matches, even
\* ones that share players: no wallet column is ever negative or too large.
THEOREM TypeCorrect == Spec => []TypeOK
<1>1. Init => TypeInv
  BY InitType
<1>2. TypeInv /\ [Next]_vars => TypeInv'
  BY StepType
<1>3. TypeInv => TypeOK
  BY DEF TypeInv
<1> QED
  BY <1>1, <1>2, <1>3, PTL DEF Spec

\* If no two matches share a player, the inductive invariant holds.
THEOREM Invariance ==
  ASSUME DisjointPlayers
  PROVE  Spec => []IInv
<1>1. Init => IInv
  BY InitInv
<1>2. IInv /\ [Next]_vars => IInv'
  BY StepInv
<1> QED
  BY <1>1, <1>2, PTL DEF Spec

\* If no two matches share a player, no interleaving of submissions,
\* forfeits, disconnects and the timer, no failing statement and no restart
\* makes resolveMatch and the refund paths settle a match twice.
THEOREM EscrowSettledOnce ==
  ASSUME DisjointPlayers
  PROVE  Spec => []SettledOnce
<1>1. IInv => SettledOnce
  BY DEF IInv, EscrowInv, EscrowOK, SettledOnce
<1> QED
  BY <1>1, Invariance, PTL

\* If no two matches share a player, the matches table never names a winner
\* who was not paid, nor a cancelled match that was not refunded, and the
\* statistics count only paid matches.
THEOREM RecordsAreTrue ==
  ASSUME DisjointPlayers
  PROVE  Spec => []RecordIsTrue
<1>1. IInv => RecordIsTrue
  BY Zenon DEF IInv, RecordInv, RowOK, RecordIsTrue
<1> QED
  BY <1>1, Invariance, PTL

=============================================================================
