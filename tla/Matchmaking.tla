---------------------------- MODULE Matchmaking ----------------------------
(***************************************************************************)
(* The in-memory matchmaking queues.  queue:join handlers and the worker's *)
(* ticks run on one event loop and interleave where they await; a handler  *)
(* that takes two players off a queue keeps a reference to the array it    *)
(* took them from, while queue:leave, a disconnect and a repeated join     *)
(* replace that array by a filtered copy.  An attempt whose array has been *)
(* replaced is `stale': what it puts back goes to an array nobody reads.   *)
(*                                                                         *)
(* A player's entry is represented by the user alone; a category without   *)
(* problems by the users who chose it.  Whether the user has a heart left  *)
(* is a free choice.  What follows the match transaction is the subject of *)
(* MatchSettlement; here the handler ends with it.                         *)
(***************************************************************************)
EXTENDS Integers, Sequences, FiniteSets

CONSTANTS
  User,
  Fee,         \* VALID_FEES
  Join, Tick,  \* queue:join handlers, and ticks of the worker
  who,         \* [Join -> User]
  Opening,     \* [User -> Nat], the balances at the start
  Event,       \* events beside queue:join: "leave", "disconnect", "spend"
  Unserved,    \* users whose category has no problem
  MaxJoins,    \* how many requests each queue:join handler serves
  MaxFaults    \* how many queries may fail

ASSUME MatchmakingAssumption ==
  /\ Fee \subseteq Nat \ {0} /\ Fee # {} /\ Join \cap Tick = {}
  /\ who \in [Join -> User] /\ Opening \in [User -> Nat]
  /\ MaxJoins \in Nat /\ MaxFaults \in Nat

Handler == Join \cup Tick

VARIABLES
  queue,           \* queue[f]: memoryQueues[f]
  balance,         \* balance[u]: wallets.balance
  matches,         \* the matches created, <<player A, player B, fee>>
  step, fee, pair, \* of each handler: where it is, its fee, the players it took
  stale,           \* stale[h]: the array h took its players from was replaced
  online,          \* users with a connected socket
  closing,         \* users whose disconnect handler has not yet cleaned up
  joins, faults    \* joins[j]: requests j has served

queues == <<queue, stale>>
attempt == <<step, fee, pair>>
vars == <<queue, balance, matches, step, fee, pair, stale, online, closing, joins, faults>>

Init ==
  /\ queue = [f \in Fee |-> <<>>]
  /\ balance = Opening
  /\ matches = {}
  /\ step = [h \in Handler |-> "idle"]
  /\ fee = [h \in Handler |-> CHOOSE f \in Fee : TRUE]
  /\ pair = [h \in Handler |-> <<>>]
  /\ stale = [h \in Handler |-> FALSE]
  /\ online = User /\ closing = {}
  /\ joins = [j \in Join |-> 0]
  /\ faults = 0

Elements(s) == {s[i] : i \in DOMAIN s}

\* s.filter(p => p.userId !== u)
Without(s, u) ==
  LET kept[i \in 0..Len(s)] ==
        IF i = 0 THEN <<>>
        ELSE IF s[i] = u THEN kept[i - 1] ELSE Append(kept[i - 1], s[i])
  IN kept[Len(s)]

\* memoryQueues[f] = memoryQueues[f].filter(p => p.userId !== u), for f in F.
RemoveFrom(F, u) ==
  /\ queue' = [f \in Fee |-> IF f \in F THEN Without(queue[f], u) ELSE queue[f]]
  /\ stale' = [h \in Handler |-> stale[h] \/ (fee[h] \in F /\ pair[h] # <<>>)]

Goto(h, s) == step' = [step EXCEPT ![h] = s]

\* The handler returns, letting go of the players it holds.
Return(h) == Goto(h, "idle") /\ pair' = [pair EXCEPT ![h] = <<>>]

-----------------------------------------------------------------------------
(* queue:join.                                                             *)

\* The request arrives; an entry for the same fee is removed.
JoinStart(j, f) ==
  /\ step[j] = "idle" /\ who[j] \in online /\ joins[j] < MaxJoins
  /\ IF who[j] \in Elements(queue[f]) THEN RemoveFrom({f}, who[j]) ELSE UNCHANGED queues
  /\ Goto(j, "check")
  /\ fee' = [fee EXCEPT ![j] = f]
  /\ joins' = [joins EXCEPT ![j] = joins[j] + 1]
  /\ UNCHANGED <<balance, matches, pair, online, closing, faults>>

\* The hearts and the wallet are read.
JoinCheck(j) ==
  /\ step[j] = "check"
  /\ \E hearts \in BOOLEAN :
       Goto(j, IF hearts /\ balance[who[j]] >= fee[j] THEN "push" ELSE "idle")
  /\ UNCHANGED <<queues, balance, matches, fee, pair, online, closing, joins, faults>>

\* The answer of the wallet query arrives: the player is queued.
JoinPush(j) ==
  /\ step[j] = "push"
  /\ queue' = [queue EXCEPT ![fee[j]] = Append(queue[fee[j]], who[j])]
  /\ Goto(j, "track")
  /\ UNCHANGED <<balance, matches, fee, pair, stale, online, closing, joins, faults>>

-----------------------------------------------------------------------------
(* tryCreateMatch, awaited by queue:join and by the worker.                *)

\* Mutant: the two entries are not compared.
TakeAnyTwo(h, f) ==
  /\ Len(queue[f]) >= 2
  /\ Goto(h, "problem")
  /\ pair' = [pair EXCEPT ![h] = <<queue[f][1], queue[f][2]>>]
  /\ stale' = [stale EXCEPT ![h] = FALSE]
  /\ queue' = [queue EXCEPT ![f] = Tail(Tail(queue[f]))]

\* Mutant: two players in the queue are not enough.
TakeTwoOfThree(h, f) ==
  /\ Len(queue[f]) >= 3
  /\ TakeAnyTwo(h, f)

\* The first two players are shifted off the queue.  Of two entries of the
\* same user only the second is put back.
TakeTwo(h, f) ==
  LET a == queue[f][1]
      b == queue[f][2]
      rest == Tail(Tail(queue[f])) IN
  /\ Len(queue[f]) >= 2
  /\ IF a = b
       THEN /\ Goto(h, "idle")
            /\ queue' = [queue EXCEPT ![f] = <<b>> \o rest]
            /\ UNCHANGED <<pair, stale>>
       ELSE /\ Goto(h, "problem")
            /\ pair' = [pair EXCEPT ![h] = <<a, b>>]
            /\ stale' = [stale EXCEPT ![h] = FALSE]
            /\ queue' = [queue EXCEPT ![f] = rest]

\* queue:joined is emitted and tryCreateMatch called.
JoinTry(j) ==
  /\ step[j] = "track"
  /\ \/ TakeTwo(j, fee[j])
     \/ /\ Len(queue[fee[j]]) < 2
        /\ Goto(j, "idle")
        /\ UNCHANGED <<pair, queues>>
  /\ UNCHANGED <<balance, matches, fee, online, closing, joins, faults>>

\* The worker calls tryCreateMatch for each fee in turn, every second.
WorkerTry(t, f) ==
  /\ t \in Tick /\ step[t] = "idle"
  /\ TakeTwo(t, f)
  /\ fee' = [fee EXCEPT ![t] = f]
  /\ UNCHANGED <<balance, matches, online, closing, joins, faults>>

\* Mutant: player B is put back, player A is not.
PutBackOne(h) ==
  queue' = IF stale[h] THEN queue
           ELSE [queue EXCEPT ![fee[h]] = <<pair[h][2]>> \o queue[fee[h]]]

\* queue.unshift(playerB); queue.unshift(playerA)
PutBack(h) ==
  queue' = IF stale[h] THEN queue ELSE [queue EXCEPT ![fee[h]] = pair[h] \o queue[fee[h]]]

\* The category is player A's.
FindProblem(h) ==
  /\ step[h] = "problem"
  /\ IF pair[h][1] \in Unserved
       THEN PutBack(h) /\ Return(h)
       ELSE Goto(h, "lock") /\ UNCHANGED <<queue, pair>>
  /\ UNCHANGED <<balance, matches, fee, stale, online, closing, joins, faults>>

\* Both entry fees can be locked.
Funded(h) == \A u \in Elements(pair[h]) : balance[u] >= fee[h]

\* The match transaction commits.
CreateMatch(h) ==
  /\ step[h] = "lock" /\ Funded(h)
  /\ matches' = matches \cup {<<pair[h][1], pair[h][2], fee[h]>>}
  /\ balance' = [u \in User |-> IF u \in Elements(pair[h]) THEN balance[u] - fee[h]
                                                           ELSE balance[u]]
  /\ Return(h)
  /\ UNCHANGED <<queues, fee, online, closing, joins, faults>>

\* It is rolled back: a balance is too low, or a statement fails.
MatchFails(h) ==
  /\ step[h] = "lock"
  /\ \/ ~Funded(h) /\ UNCHANGED faults
     \/ faults < MaxFaults /\ faults' = faults + 1
  /\ PutBack(h)
  /\ Return(h)
  /\ UNCHANGED <<balance, matches, fee, stale, online, closing, joins>>

\* A query throws outside the try around the transaction: queue:join answers
\* with an error, the worker logs it.
Throw(h) ==
  /\ step[h] \in {"check", "track", "problem"} /\ faults < MaxFaults
  /\ faults' = faults + 1
  /\ Return(h)
  /\ UNCHANGED <<queues, balance, matches, fee, online, closing, joins>>

-----------------------------------------------------------------------------
(* Leaving.                                                                *)

\* queue:leave
Leave(u) ==
  /\ "leave" \in Event /\ u \in online
  /\ RemoveFrom(Fee, u)
  /\ UNCHANGED <<balance, matches, attempt, online, closing, joins, faults>>

Disconnect(u) ==
  /\ "disconnect" \in Event /\ u \in online
  /\ online' = online \ {u} /\ closing' = closing \cup {u}
  /\ UNCHANGED <<queues, balance, matches, attempt, joins, faults>>

\* The disconnect handler, after its first await.
removeFromMemoryQueue(u) ==
  /\ u \in closing
  /\ RemoveFrom(Fee, u)
  /\ closing' = closing \ {u}
  /\ UNCHANGED <<balance, matches, attempt, online, joins, faults>>

Reconnect(u) ==
  /\ u \notin online
  /\ online' = online \cup {u}
  /\ UNCHANGED <<queues, balance, matches, attempt, closing, joins, faults>>

\* The user's balance goes to something else, a withdrawal for instance.
Spend(u) ==
  /\ "spend" \in Event /\ balance[u] > 0
  /\ balance' = [balance EXCEPT ![u] = balance[u] - 1]
  /\ UNCHANGED <<queues, matches, attempt, online, closing, joins, faults>>

Attempt(h) ==
  FindProblem(h) \/ CreateMatch(h) \/ MatchFails(h) \/ Throw(h)

Next ==
  \/ \E j \in Join :
       \/ \E f \in Fee : JoinStart(j, f)
       \/ JoinCheck(j) \/ JoinPush(j) \/ JoinTry(j)
  \/ \E t \in Tick, f \in Fee : WorkerTry(t, f)
  \/ \E h \in Handler : Attempt(h)
  \/ \E u \in User :
       Leave(u) \/ Disconnect(u) \/ removeFromMemoryQueue(u) \/ Reconnect(u) \/ Spend(u)

\* The event loop runs every handler that can go on, and every tick.
Fairness ==
  /\ \A j \in Join : WF_vars(JoinCheck(j) \/ JoinPush(j) \/ JoinTry(j))
  /\ \A t \in Tick, f \in Fee : WF_vars(WorkerTry(t, f))
  /\ \A h \in Handler : WF_vars(Attempt(h))

Spec == Init /\ [][Next]_vars /\ Fairness

-----------------------------------------------------------------------------
(* Properties.                                                             *)

\* Types of the queues, handlers and matches.
TypeOK ==
  /\ queue \in [Fee -> Seq(User)]
  /\ balance \in [User -> Nat]
  /\ matches \subseteq User \X User \X Fee
  /\ step \in [Handler -> {"idle", "check", "push", "track", "problem", "lock"}]
  /\ fee \in [Handler -> Fee]
  /\ \A h \in Handler :
       pair[h] \in IF step[h] \in {"problem", "lock"} THEN User \X User ELSE {<<>>}
  /\ stale \in [Handler -> BOOLEAN]
  /\ online \subseteq User /\ closing \subseteq User
  /\ joins \in [Join -> 0..MaxJoins] /\ faults \in 0..MaxFaults

\* Nobody plays against themselves, although two joins of one user that are
\* in flight together queue the user twice (matchmakingHandler.js:130-134).
NoSelfMatch == \A m \in matches : m[1] # m[2]

\* User u is queued, or held by an attempt to create a match.
Waiting(u) ==
  \/ \E f \in Fee : u \in Elements(queue[f])
  \/ \E h \in Handler : u \in Elements(pair[h])

\* What user u does to stop waiting, or to start again.
OwnStep(u) ==
  \/ Leave(u) \/ removeFromMemoryQueue(u)
  \/ \E j \in Join : who[j] = u /\ joins'[j] > joins[j]

\* A waiting player stops waiting only by being matched, with the fee
\* locked; by leaving, disconnecting or joining anew; or because the attempt
\* that holds the player lost its array or threw
\* (matchmakingHandler.js:126-191).
WaitingIsKept ==
  [][\A u \in User :
       Waiting(u) /\ ~Waiting(u)' =>
         \/ OwnStep(u)
         \/ \E h \in Handler :
              /\ u \in Elements(pair[h]) /\ pair'[h] = <<>>
              /\ balance'[u] = balance[u] - fee[h] \/ stale[h] \/ faults' > faults]_vars

\* "Put players back" (matchmakingHandler.js:158): a waiting player who
\* neither leaves, disconnects nor joins again waits until matched, whoever
\* else comes and goes.
PutBackIsKept ==
  [][\A u \in User :
       Waiting(u) /\ ~Waiting(u)' => OwnStep(u) \/ balance'[u] < balance[u]]_vars

\* The users who wait for an opponent at fee f.
Waiters(f) ==
  {u \in User : \/ u \in Elements(queue[f])
                \/ \E h \in Handler : fee[h] = f /\ u \in Elements(pair[h])}

\* Nobody who waits has spent the fee or chosen a category without problems.
AllCanPlay ==
  \A f \in Fee : \A u \in Waiters(f) : balance[u] >= f /\ u \notin Unserved

\* "Worker as safety net" (src/index.js:37): two users do not wait at one fee
\* for ever.  This holds while everybody who waits can play; a pair that
\* cannot be matched returns to the head of the queue, before all others.
QueueDrains ==
  []AllCanPlay =>
    \A f \in Fee : Cardinality(Waiters(f)) >= 2 ~> Cardinality(Waiters(f)) < 2

=============================================================================
