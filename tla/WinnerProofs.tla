---------------------------- MODULE WinnerProofs ----------------------------
(***************************************************************************)
(* The two rules that name a winner, for all scores and times, and the     *)
(* winner that MatchSettlement pays after both submissions were judged.    *)
(***************************************************************************)
EXTENDS MatchSettlementProofs

\* The extra case of handleTimerExpiry, for two players without a time, makes
\* no difference: on the same keys it names the winner that
\* determineAndResolveWinner would name, NaN scores and missing keys included
\* (matchHandler.js:228-238, matchmakingHandler.js:281-291).
THEOREM RulesAgree ==
  ASSUME NEW a, NEW b,
         NEW scoreA \in Int, NEW scoreB \in Int, NEW timeA \in Int, NEW timeB \in Int
  PROVE  determineWinner(a, b, scoreA, scoreB, timeA, timeB)
           = timeUpWinner(a, b, scoreA, scoreB, timeA, timeB)
<1>1. parseTime(timeA) \in Int /\ parseTime(timeB) \in Int
  BY NoTimeAssumption DEF parseTime
<1>2. parseTime(timeA) = NO_TIME /\ parseTime(timeB) = NO_TIME
        => parseTime(timeA) <= parseTime(timeB)
  BY <1>1
<1> QED
  BY <1>2 DEF determineWinner, timeUpWinner

\* Whoever wins does not have the lower score, and with scores that cannot be
\* told apart not the later time, where a missing score counts 0 and a missing
\* time NO_TIME (matchHandler.js:228-238).
THEOREM WinnerIsBest ==
  ASSUME NEW a, NEW b, a # b,
         NEW scoreA \in Int, NEW scoreB \in Int, NEW timeA \in Int, NEW timeB \in Int
  PROVE  LET w == determineWinner(a, b, scoreA, scoreB, timeA, timeB)
             A == parseScore(scoreA)
             B == parseScore(scoreB) IN
         /\ w = a => ~Greater(B, A)
         /\ w = b => ~Greater(A, B)
         /\ w = a /\ ~Greater(A, B) => parseTime(timeA) <= parseTime(timeB)
         /\ w = b /\ ~Greater(B, A) => parseTime(timeB) <= parseTime(timeA)
<1>1. /\ parseTime(timeA) \in Int /\ parseTime(timeB) \in Int
      /\ parseScore(scoreA) \in Int /\ parseScore(scoreB) \in Int
  BY NoTimeAssumption DEF parseTime, parseScore
<1>2. ~(Greater(parseScore(scoreA), parseScore(scoreB))
        /\ Greater(parseScore(scoreB), parseScore(scoreA)))
  BY <1>1 DEF Greater
<1> QED
  BY <1>1, <1>2 DEF determineWinner

-----------------------------------------------------------------------------
(* Who is paid.  A score is written once, by the one submission that took  *)
(* the NX key, after its time; so the winner computed from the four keys   *)
(* is still the best when the payout commits, however long that takes.     *)

\* The keys of a judged submission.
KeyOK(m, u) == score[m][u] # NoKey => u \in submitted[m] /\ time[m][u] # NoKey

\* What JudgedWinnerIsBest says of a winner w.
Best(m, w) ==
  LET l == Opponent(m, w) IN
  /\ score[m][w] # NoKey /\ score[m][l] # NoKey
  /\ ~Greater(score[m][l], score[m][w])
  /\ ~Greater(score[m][w], score[m][l]) => time[m][w] <= time[m][l]

\* The winner that h brings to resolveMatch is the best player.
Chosen(h) == win[h] \in Players(h.match) /\ Best(h.match, win[h])

\* A submission between its NX key and its score is the only one that writes
\* them; one that resolves the match does it for the best player.
JudgeOK(h) ==
  /\ step[h] \in {"lock", "time", "judge", "compare"} => h.kind = "submit"
  /\ step[h] = "read" => h.kind = "expiry"
  /\ step[h] \in {"time", "judge"} =>
       h.user \in submitted[h.match] /\ score[h.match][h.user] = NoKey
  /\ step[h] = "judge" => time[h.match][h.user] # NoKey
  /\ h.kind = "submit" /\ step[h] \in ResolveSteps => Chosen(h)

PaidOK(m) ==
  payee[m].by = "submit" => payee[m].user \in Players(m) /\ Best(m, payee[m].user)

Judged ==
  /\ \A m \in Match, u \in User : KeyOK(m, u)
  /\ \A h \in Handler : JudgeOK(h)
  /\ \A m \in Match : PaidOK(m)

JudgedInv == TypeInv /\ Judged

\* Two submissions of one user to one match are the same handler.
LEMMA OneSubmission ==
  ASSUME NEW g \in Handler, NEW h \in Handler,
         g.kind = h.kind, g.match = h.match, g.user = h.user
  PROVE  g = h
BY DEF Handler

\* A key is absent or holds a value.
LEMMA KeyType ==
  ASSUME TypeInv, NEW m \in Match, NEW u \in User
  PROVE  /\ score[m][u] \in Int /\ time[m][u] \in Int
         /\ score[m][u] \in Score \cup {NoKey} /\ time[m][u] \in Nat \cup {NoKey}
<1>1. score[m][u] \in Score \cup {NoKey} /\ time[m][u] \in Nat \cup {NoKey}
  BY DEF TypeInv, TypeOK, RedisOK
<1>2. Score \subseteq Int /\ NoKey \in Int
  BY BoundAssumption DEF NoKey, NaN
<1>3. score[m][u] \in Int
  BY <1>1, <1>2, Zenon
<1>4. time[m][u] \in Int
  BY <1>1, <1>2
<1> QED
  BY <1>1, <1>3, <1>4

\* Moves of a handler that write no key and choose no winner from the scores.
Plain(h) ==
  \/ \E s : /\ Goto(h, s)
            /\ s \notin {"time", "judge"}
            /\ s \in {"lock", "compare"} => h.kind = "submit"
            /\ s = "read" => h.kind = "expiry"
            /\ s \in ResolveSteps => step[h] \in ResolveSteps
  \/ Return(h)
  \/ h.kind # "submit" /\ \E w : Resolve(h, w)

\* Such a move goes to a step, returns, or resolves without a comparison.
LEMMA PlainGoto ==
  ASSUME NEW h \in Handler, NEW s, Goto(h, s), s \notin {"time", "judge"},
         s \in {"lock", "compare"} => h.kind = "submit",
         s = "read" => h.kind = "expiry",
         s \in ResolveSteps => step[h] \in ResolveSteps
  PROVE  Plain(h)
BY DEF Plain

LEMMA PlainReturn == ASSUME NEW h \in Handler, Return(h) PROVE Plain(h)
BY DEF Plain

LEMMA PlainResolve ==
  ASSUME NEW h \in Handler, h.kind # "submit", NEW w, Resolve(h, w)
  PROVE  Plain(h)
BY DEF Plain

\* Such a move keeps what is known of all handlers.
LEMMA PlainMove ==
  ASSUME JudgedInv, NEW h \in Handler, Plain(h), UNCHANGED <<submitted, score, time>>
  PROVE  \A g \in Handler : JudgeOK(g)'
<1>1. \A g \in Handler : g # h => step'[g] = step[g] /\ win'[g] = win[g]
  BY DEF Plain, Goto, Return, Resolve, JudgedInv, TypeInv, TypeOK, HandlersOK
<1>2. JudgeOK(h)'
  <2>1. ASSUME NEW s, Goto(h, s), s \notin {"time", "judge"},
               s \in {"lock", "compare"} => h.kind = "submit",
               s = "read" => h.kind = "expiry",
               s \in ResolveSteps => step[h] \in ResolveSteps
        PROVE  JudgeOK(h)'
    <3>1. step'[h] = s /\ win'[h] = win[h]
      BY <2>1, Moved DEF JudgedInv
    <3> QED
      BY <2>1, <3>1 DEF JudgedInv, Judged, JudgeOK, Chosen, Best
  <2>2. CASE Return(h)
    <3>1. step'[h] = "idle"
      BY <2>2, Returned DEF JudgedInv
    <3> QED
      BY <3>1 DEF JudgeOK, ResolveSteps
  <2>3. CASE h.kind # "submit" /\ \E w : Resolve(h, w)
    <3>1. step'[h] = "get"
      BY <2>3 DEF Resolve, JudgedInv, TypeInv, TypeOK, HandlersOK
    <3> QED
      BY <2>3, <3>1 DEF JudgeOK
  <2> QED
    BY <2>1, <2>2, <2>3 DEF Plain
<1>3. ASSUME NEW g \in Handler, g # h PROVE JudgeOK(g)'
  BY <1>1, <1>3 DEF JudgedInv, Judged, JudgeOK, Chosen, Best
<1> QED
  BY <1>2, <1>3

\* A step that writes no key and pays nobody.
LEMMA PlainStep ==
  ASSUME JudgedInv, NEW h \in Handler, Plain(h), UNCHANGED <<submitted, score, time, payee>>
  PROVE  Judged'
<1>1. \A g \in Handler : JudgeOK(g)'
  BY PlainMove
<1>2. (\A m \in Match, u \in User : KeyOK(m, u)') /\ (\A m \in Match : PaidOK(m)')
  BY DEF JudgedInv, Judged, KeyOK, PaidOK, Best
<1> QED
  BY <1>1, <1>2 DEF Judged

\* A payout: the winner that the handler brought is the best one.
LEMMA PaidStep ==
  ASSUME JudgedInv, NEW h \in Handler, Plain(h), step[h] = "payout", Release(h),
         UNCHANGED <<submitted, score, time>>
  PROVE  Judged'
<1>1. \A g \in Handler : JudgeOK(g)'
  BY PlainMove
<1>2. \A m \in Match, u \in User : KeyOK(m, u)'
  BY DEF JudgedInv, Judged, KeyOK
<1>3. ASSUME NEW m \in Match PROVE PaidOK(m)'
  <2>1. CASE m # h.match
    <3>1. payee'[m] = payee[m]
      BY <2>1 DEF Release, JudgedInv, TypeInv, TypeOK, HistoryOK
    <3> QED
      BY <3>1 DEF JudgedInv, Judged, PaidOK, Best
  <2>2. CASE m = h.match
    <3>1. payee'[m] = [user |-> win[h], by |-> h.kind]
      BY <2>2 DEF Release, JudgedInv, TypeInv, TypeOK, HistoryOK
    <3>2. h.kind = "submit" => win[h] \in Players(m) /\ Best(m, win[h])
      BY <2>2 DEF JudgedInv, Judged, JudgeOK, Chosen, ResolveSteps
    <3> QED
      BY <3>1, <3>2 DEF PaidOK, Best
  <2> QED
    BY <2>1, <2>2
<1> QED
  BY <1>1, <1>2, <1>3 DEF Judged

\* A step that writes only keys of submissions without a score leaves the
\* winners that were chosen the best.
LEMMA KeysKept ==
  ASSUME JudgedInv, UNCHANGED payee, NEW h \in Handler,
         \A g \in Handler : g # h => step'[g] = step[g] /\ win'[g] = win[g],
         \A m \in Match, u \in User :
           score[m][u] # NoKey => score'[m][u] = score[m][u] /\ time'[m][u] = time[m][u]
  PROVE  /\ \A m \in Match : PaidOK(m)'
         /\ \A g \in Handler : g # h /\ g.kind = "submit" /\ step'[g] \in ResolveSteps => Chosen(g)'
<1>1. ASSUME NEW m \in Match, NEW w \in Players(m), Best(m, w) PROVE Best(m, w)'
  <2>1. w \in User /\ Opponent(m, w) \in User
    BY PlayersType, PlayersAreUsers
  <2> QED
    BY <1>1, <2>1 DEF Best, Opponent
<1>2. \A m \in Match : PaidOK(m)'
  BY <1>1 DEF JudgedInv, Judged, PaidOK, Best
<1>3. ASSUME NEW g \in Handler, g # h, g.kind = "submit", step'[g] \in ResolveSteps
      PROVE  Chosen(g)'
  <2>1. step[g] \in ResolveSteps /\ win'[g] = win[g]
    BY <1>3
  <2>2. win[g] \in Players(g.match) /\ Best(g.match, win[g])
    BY <1>3, <2>1 DEF JudgedInv, Judged, JudgeOK, Chosen
  <2>3. ASSUME NEW w, w = win[g] PROVE Best(g.match, w)'
    BY <1>1, <2>2, <2>3, HandlerType
  <2> QED
    BY <2>1, <2>2, <2>3 DEF Chosen, Best
<1> QED
  BY <1>2, <1>3

\* SET NX: the first submission of a user goes on, any other stops.
LEMMA LockStep ==
  ASSUME JudgedInv, NEW h \in Handler, SubmitLock(h)
  PROVE  Judged'
<1> DEFINE m == h.match
           u == h.user
<1>1. /\ m \in Match /\ u \in User /\ step[h] = "lock" /\ h.kind = "submit"
      /\ UNCHANGED <<score, time, payee>>
      /\ u \in submitted'[m] /\ \A n \in Match : submitted[n] \subseteq submitted'[n]
  BY HandlerType DEF SubmitLock, At, JudgedInv, Judged, JudgeOK, TypeInv, TypeOK, RedisOK, redis,
                     history
<1>2. /\ step'[h] \in {"idle", "time"}
      /\ step'[h] = "time" => u \notin submitted[m]
      /\ \A g \in Handler : g # h => step'[g] = step[g] /\ win'[g] = win[g]
  BY Moved, Returned DEF SubmitLock, JudgedInv
<1>3. /\ \A n \in Match : PaidOK(n)'
      /\ \A g \in Handler : g # h /\ g.kind = "submit" /\ step'[g] \in ResolveSteps => Chosen(g)'
  BY <1>1, <1>2, KeysKept
<1>4. \A n \in Match, v \in User : KeyOK(n, v)'
  BY <1>1 DEF JudgedInv, Judged, KeyOK
<1>5. JudgeOK(h)'
  <2>1. step'[h] = "time" => score[m][u] = NoKey
    BY <1>1, <1>2 DEF JudgedInv, Judged, KeyOK
  <2> QED
    BY <1>1, <1>2, <2>1 DEF JudgeOK, ResolveSteps
<1>6. ASSUME NEW g \in Handler, g # h PROVE JudgeOK(g)'
  <2>1. JudgeOK(g) /\ g.match \in Match
    BY HandlerType DEF JudgedInv, Judged
  <2> QED
    BY <1>1, <1>2, <1>3, <1>6, <2>1 DEF JudgeOK
<1> QED
  BY <1>3, <1>4, <1>5, <1>6 DEF Judged

\* The time key is written while the score is missing.
LEMMA TimeStep ==
  ASSUME JudgedInv, NEW h \in Handler, SubmitTime(h)
  PROVE  Judged'
<1> DEFINE m == h.match
           u == h.user
<1>1. /\ m \in Match /\ u \in User /\ step[h] = "time" /\ h.kind = "submit"
      /\ score[m][u] = NoKey /\ u \in submitted[m]
      /\ UNCHANGED <<submitted, score, payee>>
  BY HandlerType DEF SubmitTime, At, JudgedInv, Judged, JudgeOK, history
<1>2. /\ step'[h] = "judge"
      /\ \A g \in Handler : g # h => step'[g] = step[g] /\ win'[g] = win[g]
  BY Moved DEF SubmitTime, JudgedInv
<1>3. /\ time'[m][u] # NoKey
      /\ \A n \in Match, v \in User : n # m \/ v # u => time'[n][v] = time[n][v]
  <2>1. time' = [time EXCEPT ![m][u] = clock[m]] /\ time \in [Match -> [User -> Nat \cup {NoKey}]]
    BY DEF SubmitTime, JudgedInv, TypeInv, TypeOK, RedisOK
  <2>2. clock[m] \in Nat
    BY <1>1, BoundAssumption DEF JudgedInv, TypeInv, TypeOK, EnvironmentOK
  <2>3. clock[m] # NoKey
    BY <2>2 DEF NoKey
  <2> QED
    BY <1>1, <2>1, <2>3
<1>4. /\ \A n \in Match : PaidOK(n)'
      /\ \A g \in Handler : g # h /\ g.kind = "submit" /\ step'[g] \in ResolveSteps => Chosen(g)'
  BY <1>1, <1>2, <1>3, KeysKept
<1>5. \A n \in Match, v \in User : KeyOK(n, v)'
  BY <1>1, <1>3 DEF JudgedInv, Judged, KeyOK
<1>6. JudgeOK(h)'
  BY <1>1, <1>2, <1>3 DEF JudgeOK, ResolveSteps
<1>7. ASSUME NEW g \in Handler, g # h PROVE JudgeOK(g)'
  <2>1. JudgeOK(g) /\ g.match \in Match /\ g.user \in User
    BY HandlerType DEF JudgedInv, Judged
  <2>2. step[g] = "judge" => time'[g.match][g.user] # NoKey
    BY <1>3, <2>1 DEF JudgeOK
  <2> QED
    BY <1>1, <1>2, <1>4, <1>7, <2>1, <2>2 DEF JudgeOK
<1> QED
  BY <1>4, <1>5, <1>6, <1>7 DEF Judged

\* The score key is written once, after the time.
LEMMA ScoreStep ==
  ASSUME JudgedInv, NEW h \in Handler, SubmitJudged(h)
  PROVE  Judged'
<1> DEFINE m == h.match
           u == h.user
<1>1. /\ m \in Match /\ u \in User /\ step[h] = "judge" /\ h.kind = "submit"
      /\ score[m][u] = NoKey /\ u \in submitted[m] /\ time[m][u] # NoKey
      /\ UNCHANGED <<submitted, time, payee>>
  BY HandlerType DEF SubmitJudged, At, JudgedInv, Judged, JudgeOK, history
<1>2. /\ step'[h] = "compare"
      /\ \A g \in Handler : g # h => step'[g] = step[g] /\ win'[g] = win[g]
  BY Moved DEF SubmitJudged, JudgedInv
<1>3. \A n \in Match, v \in User : n # m \/ v # u => score'[n][v] = score[n][v]
  <2>1. PICK s \in Score : score' = [score EXCEPT ![m][u] = s]
    BY Zenon DEF SubmitJudged
  <2>2. score \in [Match -> [User -> Score \cup {NoKey}]]
    BY DEF JudgedInv, TypeInv, TypeOK, RedisOK
  <2> QED
    BY <1>1, <2>1, <2>2
<1>4. /\ \A n \in Match : PaidOK(n)'
      /\ \A g \in Handler : g # h /\ g.kind = "submit" /\ step'[g] \in ResolveSteps => Chosen(g)'
  BY <1>1, <1>2, <1>3, KeysKept
<1>5. \A n \in Match, v \in User : KeyOK(n, v)'
  BY <1>1, <1>3 DEF JudgedInv, Judged, KeyOK
<1>6. JudgeOK(h)'
  BY <1>1, <1>2 DEF JudgeOK, ResolveSteps
<1>7. ASSUME NEW g \in Handler, g # h PROVE JudgeOK(g)'
  <2>1. JudgeOK(g) /\ g.match \in Match /\ g.user \in User
    BY HandlerType DEF JudgedInv, Judged
  <2>2. step[g] \in {"time", "judge"} => g.match # m \/ g.user # u
    BY <1>1, <1>7, <2>1, OneSubmission DEF JudgeOK
  <2>3. step[g] \in {"time", "judge"} => score'[g.match][g.user] = NoKey
    BY <1>3, <2>1, <2>2 DEF JudgeOK
  <2> QED
    BY <1>1, <1>2, <1>4, <1>7, <2>1, <2>3 DEF JudgeOK
<1> QED
  BY <1>4, <1>5, <1>6, <1>7 DEF Judged

\* determineAndResolveWinner names the best of two judged players.
LEMMA DeterminedIsBest ==
  ASSUME JudgedInv, NEW m \in Match,
         score[m][playerA[m]] # NoKey, score[m][playerB[m]] # NoKey,
         NEW w, w = determineWinner(playerA[m], playerB[m],
                      score[m][playerA[m]], score[m][playerB[m]],
                      time[m][playerA[m]], time[m][playerB[m]])
  PROVE  w \in Players(m) /\ Best(m, w)
<1> DEFINE a == playerA[m]
           b == playerB[m]
<1>1. /\ a \in User /\ b \in User /\ a # b
      /\ score[m][a] \in Int /\ score[m][b] \in Int /\ time[m][a] \in Int /\ time[m][b] \in Int
  BY PlayersType, KeyType DEF JudgedInv
<1>2. /\ parseScore(score[m][a]) = score[m][a] /\ parseScore(score[m][b]) = score[m][b]
      /\ parseTime(time[m][a]) = time[m][a] /\ parseTime(time[m][b]) = time[m][b]
  BY <1>1 DEF JudgedInv, Judged, KeyOK, parseScore, parseTime
<1>3. w = a \/ w = b
  BY DEF determineWinner
<1>4. /\ w = a => ~Greater(score[m][b], score[m][a])
      /\ w = b => ~Greater(score[m][a], score[m][b])
      /\ w = a /\ ~Greater(score[m][a], score[m][b]) => time[m][a] <= time[m][b]
      /\ w = b /\ ~Greater(score[m][b], score[m][a]) => time[m][b] <= time[m][a]
  <2> DEFINE A == parseScore(score[m][a])
             B == parseScore(score[m][b])
             S == parseTime(time[m][a])
             T == parseTime(time[m][b])
  <2>1. /\ w = a => ~Greater(B, A)
        /\ w = b => ~Greater(A, B)
        /\ w = a /\ ~Greater(A, B) => S <= T
        /\ w = b /\ ~Greater(B, A) => T <= S
    BY <1>1, WinnerIsBest
  <2> QED
    BY <1>2, <2>1, Zenon
<1>5. Opponent(m, a) = b /\ Opponent(m, b) = a
  BY <1>1 DEF Opponent
<1> QED
  BY <1>3, <1>4, <1>5, Zenon DEF Best, Players

\* The comparison resolves the match for the best player, or not at all.
LEMMA CompareStep ==
  ASSUME JudgedInv, NEW h \in Handler, SubmitCompare(h)
  PROVE  Judged'
<1> DEFINE m == h.match
           a == playerA[m]
           b == playerB[m]
           w == determineWinner(a, b, score[m][a], score[m][b], time[m][a], time[m][b])
<1>1. m \in Match /\ h.kind = "submit" /\ UNCHANGED <<submitted, score, time, payee>>
  BY HandlerType, Zenon DEF SubmitCompare, At, JudgedInv, Judged, JudgeOK, redis, history
<1>2. CASE ~(score[m][a] # NoKey /\ score[m][b] # NoKey)
  <2>1. Return(h)
    BY <1>2, Zenon DEF SubmitCompare
  <2>2. Plain(h)
    BY <2>1, PlainReturn
  <2> QED
    BY <1>1, <2>2, PlainStep
<1>3. CASE score[m][a] # NoKey /\ score[m][b] # NoKey
  <2>1. Resolve(h, w)
    BY <1>3 DEF SubmitCompare
  <2>2. w \in Players(m) /\ Best(m, w)
    BY <1>1, <1>3, DeterminedIsBest
  <2> HIDE DEF w
  <2>3. /\ step'[h] = "get" /\ win'[h] = w
        /\ \A g \in Handler : g # h => step'[g] = step[g] /\ win'[g] = win[g]
    BY <2>1 DEF Resolve, JudgedInv, TypeInv, TypeOK, HandlersOK
  <2>4. JudgeOK(h)'
    BY <1>1, <2>2, <2>3 DEF JudgeOK, Chosen, Best
  <2>5. ASSUME NEW g \in Handler, g # h PROVE JudgeOK(g)'
    <3>1. JudgeOK(g) /\ step'[g] = step[g] /\ win'[g] = win[g]
      BY <2>3, <2>5 DEF JudgedInv, Judged
    <3> QED
      BY <1>1, <3>1, Zenon DEF JudgeOK, Chosen, Best
  <2>6. (\A n \in Match, v \in User : KeyOK(n, v)') /\ (\A n \in Match : PaidOK(n)')
    BY <1>1 DEF JudgedInv, Judged, KeyOK, PaidOK, Best
  <2> QED
    BY <2>4, <2>5, <2>6 DEF Judged
<1> QED
  BY <1>2, <1>3

\* Handlers that stand still, or all stop.
LEMMA StillStep ==
  ASSUME JudgedInv, UNCHANGED <<submitted, score, time, payee>>,
         \A h \in Handler : step'[h] = "idle" \/ (step'[h] = step[h] /\ win'[h] = win[h])
  PROVE  Judged'
<1>1. ASSUME NEW h \in Handler PROVE JudgeOK(h)'
  <2>1. CASE step'[h] = "idle"
    BY <2>1 DEF JudgeOK, ResolveSteps
  <2>2. CASE step'[h] = step[h] /\ win'[h] = win[h]
    <3>1. JudgeOK(h)
      BY DEF JudgedInv, Judged
    <3> QED
      BY <2>2, <3>1, Zenon DEF JudgeOK, Chosen, Best
  <2> QED
    BY <2>1, <2>2
<1>2. (\A m \in Match, u \in User : KeyOK(m, u)') /\ (\A m \in Match : PaidOK(m)')
  BY DEF JudgedInv, Judged, KeyOK, PaidOK, Best
<1> QED
  BY <1>1, <1>2 DEF Judged

\* Nothing is submitted or paid at first.
LEMMA InitJudged == Init => JudgedInv
<1> SUFFICES ASSUME Init PROVE Judged
  BY InitType DEF JudgedInv
<1>1. \A m \in Match, u \in User : KeyOK(m, u)
  BY DEF Init, KeyOK
<1>2. \A h \in Handler : JudgeOK(h)
  BY DEF Init, JudgeOK, ResolveSteps
<1>3. \A m \in Match : PaidOK(m)
  BY DEF Init, PaidOK
<1> QED
  BY <1>1, <1>2, <1>3 DEF Judged

\* One case per action.
LEMMA StepJudged == JudgedInv /\ [Next]_vars => JudgedInv'
<1> SUFFICES ASSUME JudgedInv, [Next]_vars PROVE Judged'
  BY StepType DEF JudgedInv
<1> USE DEF database, redis, history, timers, failures, proc
<1>1. ASSUME NEW h \in Handler, CreateMatch(h) \/ PublishState(h) \/ ArmTimer(h) PROVE Judged'
  <2>1. Plain(h)
    BY <1>1, PlainGoto, PlainReturn DEF CreateMatch, PublishState, ArmTimer, ResolveSteps
  <2> QED
    BY <1>1, <2>1, PlainStep, Zenon DEF CreateMatch, PublishState, ArmTimer
<1>2. ASSUME NEW h \in Handler, SubmitStart(h) \/ SubmitJudgeError(h) PROVE Judged'
  <2>1. Plain(h)
    <3>1. CASE SubmitStart(h)
      BY <3>1, PlainGoto, Zenon DEF SubmitStart, ResolveSteps
    <3>2. CASE SubmitJudgeError(h)
      BY <3>2, PlainGoto, Zenon DEF SubmitJudgeError, ResolveSteps
    <3> QED
      BY <1>2, <3>1, <3>2
  <2> QED
    BY <1>2, <2>1, PlainStep, Zenon DEF SubmitStart, SubmitJudgeError
<1>3. ASSUME NEW h \in Handler, SubmitLock(h) PROVE Judged'
  BY <1>3, LockStep
<1>4. ASSUME NEW h \in Handler, SubmitTime(h) PROVE Judged'
  BY <1>4, TimeStep
<1>5. ASSUME NEW h \in Handler, SubmitJudged(h) PROVE Judged'
  BY <1>5, ScoreStep
<1>6. ASSUME NEW h \in Handler, SubmitCompare(h) PROVE Judged'
  BY <1>6, CompareStep
<1>7. ASSUME NEW h \in Handler, JudgeErrorRefund(h) \/ JudgeErrorCancel(h) \/ ResolveRefund(h)
      PROVE  Judged'
  <2>1. Plain(h)
    BY <1>7, PlainGoto, PlainReturn DEF JudgeErrorRefund, JudgeErrorCancel, ResolveRefund, ResolveSteps
  <2> QED
    BY <1>7, <2>1, PlainStep DEF JudgeErrorRefund, JudgeErrorCancel, ResolveRefund
<1>8. ASSUME NEW h \in Handler, forfeit_request(h) \/ handleDisconnectForfeit(h) PROVE Judged'
  <2>1. Plain(h)
    BY <1>8, PlainGoto, PlainReturn, PlainResolve DEF forfeit_request, handleDisconnectForfeit
  <2> QED
    BY <1>8, <2>1, PlainStep, Zenon DEF forfeit_request, handleDisconnectForfeit
<1>9. ASSUME NEW h \in Handler, handleTimerExpiry(h) \/ ExpiryRead(h) PROVE Judged'
  <2>1. Plain(h) \/ UNCHANGED <<step, win>>
    <3>1. CASE handleTimerExpiry(h)
      BY <3>1, PlainGoto DEF handleTimerExpiry, ResolveSteps
    <3>2. CASE ExpiryRead(h)
      <4>1. h.kind = "expiry"
        BY <3>2 DEF ExpiryRead, At, JudgedInv, Judged, JudgeOK
      <4> QED
        BY <3>2, <4>1, PlainResolve DEF ExpiryRead
    <3> QED
      BY <1>9, <3>1, <3>2
  <2>2. UNCHANGED <<submitted, score, time, payee>>
    BY <1>9, Zenon DEF handleTimerExpiry, ExpiryRead
  <2> QED
    BY <2>1, <2>2, PlainStep, StillStep
<1>10. ASSUME NEW h \in Handler, ResolveGet(h) \/ ResolveSet(h) \/ ResolveState(h)
       PROVE  Judged'
  <2>1. Plain(h)
    BY <1>10, PlainGoto, PlainReturn DEF ResolveGet, ResolveSet, ResolveState, At, ResolveSteps
  <2> QED
    BY <1>10, <2>1, PlainStep DEF ResolveGet, ResolveSet, ResolveState
<1>11. ASSUME NEW h \in Handler, ResolvePayout(h) PROVE Judged'
  <2>1. Plain(h)
    BY <1>11, PlainGoto, PlainReturn DEF ResolvePayout, At, ResolveSteps
  <2> QED
    BY <1>11, <2>1, PlainStep, PaidStep DEF ResolvePayout, At
<1>12. ASSUME NEW h \in Handler, ResolveRow(h) \/ ResolveStats(h) PROVE Judged'
  <2>1. Plain(h)
    BY <1>12, PlainGoto, PlainReturn DEF ResolveRow, ResolveStats, At, ResolveSteps
  <2> QED
    BY <1>12, <2>1, PlainStep DEF ResolveRow, ResolveStats
<1>13. ASSUME NEW h \in Handler, StatementFails(h) PROVE Judged'
  <2>1. Plain(h)
    BY <1>13, PlainGoto, PlainReturn, Zenon DEF StatementFails, Throw, ResolveSteps
  <2> QED
    BY <1>13, <2>1, PlainStep DEF StatementFails
<1>14. ASSUME NEW h \in Handler, CommitUnanswered(h) PROVE Judged'
  <2>1. Plain(h)
    BY <1>14, PlainGoto, PlainReturn, Zenon DEF CommitUnanswered, Throw, ResolveSteps
  <2> QED
    BY <1>14, <2>1, PlainStep, PaidStep DEF CommitUnanswered, At
<1>15. ASSUME NEW m \in Match, Tick(m) PROVE Judged'
  BY <1>15, StillStep, Zenon DEF Tick
<1>16. CASE Crash
  BY <1>16, StillStep, Zenon DEF Crash
<1>17. CASE UNCHANGED vars
  BY <1>17, StillStep DEF vars
<1> QED
  BY <1>1, <1>2, <1>3, <1>4, <1>5, <1>6, <1>7, <1>8, <1>9, <1>10, <1>11, <1>12, <1>13, <1>14,
     <1>15, <1>16, <1>17
     DEF Next, HandlerStep, ServerStep

\* Whoever resolveMatch pays after both submissions were judged has the better
\* score, or an equal one and the earlier submission: whatever submissions,
\* forfeits, timers, failures and restarts come between the comparison and the
\* payout (matchHandler.js:221-238).
THEOREM JudgedWinner == Spec => []JudgedWinnerIsBest
<1>1. JudgedInv => JudgedWinnerIsBest
  BY Zenon DEF JudgedInv, Judged, PaidOK, Best, JudgedWinnerIsBest
<1> QED
  BY <1>1, InitJudged, StepJudged, PTL DEF Spec

=============================================================================
