---------------------------- MODULE LobbyProofs ----------------------------
(***************************************************************************)
(* What happens to a player before and beside a match, for every set of    *)
(* users, sockets and handlers: the matchmaking queues, the presence keys  *)
(* and the hearts.                                                         *)
(***************************************************************************)
EXTENDS Matchmaking, WellFoundedInduction, TLAPS

(* What filter returns.                                                    *)

\* Induction over the natural numbers, for a set of them.
LEMMA NumberInduction ==
  ASSUME NEW G, 0 \in G, \A n \in Nat : n \in G => n + 1 \in G
  PROVE  \A n \in Nat : n \in G
<1> DEFINE Bad == {n \in Nat : n \notin G}
           R == OpToRel(<, Nat)
<1>1. SUFFICES ASSUME Bad # {} PROVE FALSE
  OBVIOUS
<1>2. IsWellFoundedOn(R, Nat) /\ Bad \subseteq Nat
  BY NatLessThanWellFounded, Zenon
<1>3. PICK n \in Bad : \A k \in Bad : <<k, n>> \notin R
  <2> HIDE DEF Bad, R
  <2> QED
    BY <1>1, <1>2, WFMin, Zenon
<1>4. n \in Nat /\ n # 0
  OBVIOUS
<1>5. n - 1 \in Nat /\ <<n - 1, n>> \in R
  BY <1>4 DEF OpToRel
<1>6. n - 1 \in G
  BY <1>3, <1>5, Zenon
<1>7. (n - 1) + 1 \in G
  BY <1>5, <1>6, Zenon
<1> QED
  BY <1>4, <1>7

\* The users in a queue, after its operations.
LEMMA ElementsEmpty == Elements(<<>>) = {}
BY DEF Elements

\* rPush: the entries of the list and the new one.
LEMMA ElementsAppend ==
  ASSUME NEW S, NEW s \in Seq(S), NEW x \in S
  PROVE  Elements(Append(s, x)) = Elements(s) \cup {x}
<1> DEFINE t == Append(s, x)
           n == Len(s)
<1>1. /\ n \in Nat /\ DOMAIN s = 1..n /\ DOMAIN t = 1..(n + 1)
      /\ \A i \in 1..n : t[i] = s[i]
      /\ t[n + 1] = x
  OBVIOUS
<1>2. 1..(n + 1) = (1..n) \cup {n + 1}
  BY <1>1
<1> HIDE DEF t, n
<1>3. {t[i] : i \in 1..(n + 1)} = {s[i] : i \in 1..n} \cup {x}
  BY <1>1, <1>2
<1> QED
  BY <1>1, <1>3 DEF Elements, t

\* A list of two entries.
LEMMA PairElements ==
  ASSUME NEW S, NEW p \in S \X S
  PROVE  p \in Seq(S) /\ p # <<>> /\ Elements(p) = {p[1], p[2]}
<1>1. PICK a \in S, b \in S : p = <<a, b>>
  OBVIOUS
<1>2. <<a, b>> \in Seq(S) /\ DOMAIN <<a, b>> = {1, 2} /\ <<a, b>> # <<>>
  OBVIOUS
<1> QED
  BY <1>1, <1>2 DEF Elements

\* Two lists joined.
LEMMA ElementsConcat ==
  ASSUME NEW S, NEW s \in Seq(S), NEW t \in Seq(S)
  PROVE  s \o t \in Seq(S) /\ Elements(s \o t) = Elements(s) \cup Elements(t)
<1> DEFINE m == Len(s)
           n == Len(t)
           r == s \o t
<1>1. /\ m \in Nat /\ n \in Nat /\ r \in Seq(S)
      /\ DOMAIN s = 1..m /\ DOMAIN t = 1..n /\ DOMAIN r = 1..(m + n)
  OBVIOUS
<1>2. \A i \in 1..m : r[i] = s[i]
  OBVIOUS
<1>3. \A i \in 1..n : r[i + m] = t[i]
  OBVIOUS
<1>4. \A i \in 1..(m + n) : i \in 1..m \/ (i - m \in 1..n /\ i = (i - m) + m)
  BY <1>1
<1>5. \A i \in 1..m : i \in 1..(m + n)
  BY <1>1
<1>6. \A i \in 1..n : i + m \in 1..(m + n)
  BY <1>1
<1> HIDE DEF m, n, r
<1>7. {r[i] : i \in 1..(m + n)} \subseteq {s[i] : i \in 1..m} \cup {t[i] : i \in 1..n}
  BY <1>2, <1>3, <1>4
<1>8. {s[i] : i \in 1..m} \subseteq {r[i] : i \in 1..(m + n)}
  BY <1>2, <1>5
<1>9. {t[i] : i \in 1..n} \subseteq {r[i] : i \in 1..(m + n)}
  BY <1>3, <1>6
<1> QED
  BY <1>1, <1>7, <1>8, <1>9, Zenon DEF Elements, r

\* lPush: the new entry and those of the list.
LEMMA ElementsUnshift ==
  ASSUME NEW S, NEW x \in S, NEW t \in Seq(S)
  PROVE  Elements(<<x>> \o t) = {x} \cup Elements(t)
<1> DEFINE s == <<x>>
<1>1. s \in Seq(S)
  OBVIOUS
<1>2. Elements(s) = {x}
  BY DEF Elements
<1> HIDE DEF s
<1>3. Elements(s \o t) = {x} \cup Elements(t)
  BY <1>1, <1>2, ElementsConcat
<1> QED
  BY <1>3 DEF s

\* lPop: the first entry, and the rest.
LEMMA ElementsShift ==
  ASSUME NEW S, NEW s \in Seq(S), Len(s) >= 1
  PROVE  s[1] \in S /\ Tail(s) \in Seq(S) /\ Elements(s) = {s[1]} \cup Elements(Tail(s))
<1> DEFINE x == s[1]
           t == Tail(s)
<1>1. x \in S /\ t \in Seq(S)
  OBVIOUS
<1>2. s = <<x>> \o t
  OBVIOUS
<1> HIDE DEF x, t
<1>3. Elements(<<x>> \o t) = {x} \cup Elements(t)
  BY <1>1, ElementsUnshift
<1>4. Elements(s) = {x} \cup Elements(t)
  BY <1>2, <1>3, Zenon
<1> QED
  BY <1>1, <1>4 DEF x, t

\* The first two entries, and the rest.
LEMMA ElementsShiftTwo ==
  ASSUME NEW S, NEW s \in Seq(S), Len(s) >= 2
  PROVE  /\ s[1] \in S /\ s[2] \in S /\ Tail(Tail(s)) \in Seq(S)
         /\ Elements(s) = {s[1], s[2]} \cup Elements(Tail(Tail(s)))
<1>1. s[1] \in S /\ Tail(s) \in Seq(S) /\ Elements(s) = {s[1]} \cup Elements(Tail(s))
  BY ElementsShift
<1>2. Len(Tail(s)) >= 1 /\ Tail(s)[1] = s[2]
  OBVIOUS
<1>3. /\ Tail(s)[1] \in S /\ Tail(Tail(s)) \in Seq(S)
      /\ Elements(Tail(s)) = {Tail(s)[1]} \cup Elements(Tail(Tail(s)))
  BY <1>1, <1>2, ElementsShift, Zenon
<1> QED
  BY <1>1, <1>2, <1>3

\* f filters the first n entries of s.
Filters(f, s, u, n) ==
  f = [i \in 0..n |-> IF i = 0 THEN <<>>
                      ELSE IF s[i] = u THEN f[i - 1] ELSE Append(f[i - 1], s[i])]

\* There is such a function for every n.
LEMMA FiltersExist ==
  ASSUME NEW s, NEW u
  PROVE  \A n \in Nat : \E f : Filters(f, s, u, n)
<1> DEFINE G == {n \in Nat : \E f : Filters(f, s, u, n)}
<1>1. 0 \in G
  <2>1. Filters([i \in 0..0 |-> <<>>], s, u, 0)
    BY DEF Filters
  <2> QED
    BY <2>1
<1>2. ASSUME NEW n \in Nat, n \in G PROVE n + 1 \in G
  <2>1. PICK f : Filters(f, s, u, n)
    BY <1>2
  <2> DEFINE x == IF s[n + 1] = u THEN f[n] ELSE Append(f[n], s[n + 1])
             g == [i \in 0..(n + 1) |-> IF i = n + 1 THEN x ELSE f[i]]
             F(i) == IF i = 0 THEN <<>>
                     ELSE IF s[i] = u THEN g[i - 1] ELSE Append(g[i - 1], s[i])
  <2>2. ASSUME NEW i \in 0..(n + 1) PROVE g[i] = F(i)
    <3>1. CASE i = n + 1
      <4>1. i # 0 /\ i - 1 = n /\ n \in 0..(n + 1) /\ n # n + 1
        BY <3>1
      <4>2. g[n] = f[n]
        BY <4>1
      <4> QED
        BY <3>1, <4>1, <4>2
    <3>2. CASE i # n + 1 /\ i # 0
      <4>1. i \in 0..n /\ i - 1 \in 0..n /\ i - 1 # n + 1 /\ i - 1 \in 0..(n + 1)
        BY <3>2
      <4>2. f[i] = IF s[i] = u THEN f[i - 1] ELSE Append(f[i - 1], s[i])
        BY <2>1, <3>2, <4>1, Zenon DEF Filters
      <4>3. g[i] = f[i] /\ g[i - 1] = f[i - 1]
        BY <3>2, <4>1
      <4> QED
        BY <3>2, <4>2, <4>3
    <3>3. CASE i = 0
      <4>1. i # n + 1 /\ i \in 0..n
        BY <3>3
      <4>2. f[i] = <<>>
        BY <2>1, <3>3, <4>1 DEF Filters
      <4> QED
        BY <3>3, <4>1, <4>2
    <3> QED
      BY <3>1, <3>2, <3>3
  <2>3. g = [i \in 0..(n + 1) |-> F(i)]
    BY <2>2
  <2>4. Filters(g, s, u, n + 1)
    BY <2>3 DEF Filters
  <2> QED
    BY <2>4
<1>3. \A n \in Nat : n \in G
  <2> HIDE DEF G
  <2> QED
    BY <1>1, <1>2, NumberInduction
<1> QED
  BY <1>3

\* Without is the last value of such a function.
LEMMA WithoutFilters ==
  ASSUME NEW s, Len(s) \in Nat, NEW u
  PROVE  \E f : Filters(f, s, u, Len(s)) /\ Without(s, u) = f[Len(s)]
<1> DEFINE f == CHOOSE g : Filters(g, s, u, Len(s))
<1>1. Filters(f, s, u, Len(s))
  BY FiltersExist
<1>2. Without(s, u) = f[Len(s)]
  BY DEF Without, Filters
<1> QED
  BY <1>1, <1>2, Zenon

\* Filtering a queue leaves the entries of all other users in it.
LEMMA WithoutElements ==
  ASSUME NEW S, NEW s \in Seq(S), NEW u
  PROVE  Without(s, u) \in Seq(S) /\ Elements(Without(s, u)) = Elements(s) \ {u}
<1>1. PICK f : Filters(f, s, u, Len(s)) /\ Without(s, u) = f[Len(s)]
  BY WithoutFilters
<1> DEFINE First(n) == {s[i] : i \in 1..n}
           G == {n \in Nat : n <= Len(s) =>
                                f[n] \in Seq(S) /\ Elements(f[n]) = First(n) \ {u}}
<1>2. 0 \in G
  <2>1. f[0] = <<>>
    BY <1>1 DEF Filters
  <2>2. 1..0 = {} /\ f[0] \in Seq(S)
    BY <2>1
  <2>3. First(0) = {}
    BY <2>2
  <2>4. Elements(f[0]) = {}
    BY <2>1, ElementsEmpty
  <2> HIDE DEF First
  <2> QED
    BY <2>2, <2>3, <2>4
<1>3. ASSUME NEW n \in Nat, n \in G PROVE n + 1 \in G
  <2> SUFFICES ASSUME n + 1 <= Len(s)
               PROVE  f[n + 1] \in Seq(S) /\ Elements(f[n + 1]) = First(n + 1) \ {u}
    OBVIOUS
  <2>1. f[n] \in Seq(S) /\ Elements(f[n]) = First(n) \ {u}
    BY <1>3
  <2>2. f[n + 1] = IF s[n + 1] = u THEN f[n] ELSE Append(f[n], s[n + 1])
    <3>1. n + 1 \in 0..Len(s) /\ n + 1 # 0 /\ (n + 1) - 1 = n
      OBVIOUS
    <3> QED
      BY <1>1, <3>1, Zenon DEF Filters
  <2>3. s[n + 1] \in S
    OBVIOUS
  <2>4. First(n + 1) = First(n) \cup {s[n + 1]}
    OBVIOUS
  <2>5. Elements(Append(f[n], s[n + 1])) = Elements(f[n]) \cup {s[n + 1]}
    BY <2>1, <2>3, ElementsAppend
  <2> HIDE DEF First
  <2> QED
    BY <2>1, <2>2, <2>3, <2>4, <2>5
<1>4. \A n \in Nat : n \in G
  <2> HIDE DEF G
  <2> QED
    BY <1>2, <1>3, NumberInduction
<1>5. First(Len(s)) = Elements(s)
  BY DEF Elements
<1>6. Len(s) \in Nat /\ Len(s) <= Len(s)
  OBVIOUS
<1> HIDE DEF First
<1>7. f[Len(s)] \in Seq(S) /\ Elements(f[Len(s)]) = First(Len(s)) \ {u}
  BY <1>4, <1>6
<1> QED
  BY <1>1, <1>5, <1>7

-----------------------------------------------------------------------------
(* The matchmaking queues.  The invariant adds to the types that the two   *)
(* players an attempt holds are different users.                           *)

QueuesOK == queue \in [Fee -> Seq(User)] /\ stale \in [Handler -> BOOLEAN]

AttemptOK(h) ==
  /\ pair[h] \in IF step[h] \in {"problem", "lock"} THEN User \X User ELSE {<<>>}
  /\ pair[h] # <<>> => pair[h][1] # pair[h][2]

AttemptsOK ==
  /\ step \in [Handler -> {"idle", "check", "push", "track", "problem", "lock"}]
  /\ fee \in [Handler -> Fee]
  /\ DOMAIN pair = Handler
  /\ \A h \in Handler : AttemptOK(h)

MatchesOK ==
  /\ balance \in [User -> Nat]
  /\ matches \subseteq User \X User \X Fee
  /\ NoSelfMatch

OthersOK ==
  /\ online \subseteq User /\ closing \subseteq User
  /\ joins \in [Join -> 0..MaxJoins] /\ faults \in 0..MaxFaults

QueueInv == QueuesOK /\ AttemptsOK /\ MatchesOK /\ OthersOK

\* Every handler is a queue:join of a user, or a tick.
LEMMA JoinType ==
  ASSUME NEW j \in Join
  PROVE  j \in Handler /\ who[j] \in User
BY MatchmakingAssumption DEF Handler

\* Filtered queues are queues.
LEMMA RemoveType ==
  ASSUME QueuesOK, NEW F, NEW u, RemoveFrom(F, u)
  PROVE  QueuesOK'
<1>1. queue' \in [Fee -> Seq(User)]
  <2>1. ASSUME NEW f \in Fee
        PROVE  (IF f \in F THEN Without(queue[f], u) ELSE queue[f]) \in Seq(User)
    <3>1. queue[f] \in Seq(User)
      BY DEF QueuesOK
    <3>2. Without(queue[f], u) \in Seq(User)
      BY <3>1, WithoutElements
    <3> QED
      BY <3>1, <3>2
  <2> QED
    BY <2>1 DEF RemoveFrom
<1>2. stale' \in [Handler -> BOOLEAN]
  BY DEF RemoveFrom
<1> QED
  BY <1>1, <1>2 DEF QueuesOK

\* A handler that holds no players goes to a step where it needs none.
LEMMA GotoOK ==
  ASSUME AttemptsOK, NEW h \in Handler, step[h] \notin {"problem", "lock"},
         NEW s \in {"idle", "check", "push", "track"}, Goto(h, s), UNCHANGED pair,
         fee' \in [Handler -> Fee]
  PROVE  AttemptsOK'
BY Zenon DEF AttemptsOK, AttemptOK, Goto

\* An attempt that goes back to where its caller waits stays well-formed.
LEMMA ReturnOK ==
  ASSUME AttemptsOK, NEW h \in Handler, Return(h), UNCHANGED fee
  PROVE  AttemptsOK'
BY DEF AttemptsOK, AttemptOK, Goto, Return

\* The two players taken off a queue are users, and not the same one.
LEMMA TakeTwoOK ==
  ASSUME QueuesOK, AttemptsOK, NEW h \in Handler, step[h] \notin {"problem", "lock"},
         NEW f \in Fee, TakeTwo(h, f), fee' \in [Handler -> Fee]
  PROVE  QueuesOK' /\ AttemptsOK'
<1> DEFINE a == queue[f][1]
           b == queue[f][2]
           rest == Tail(Tail(queue[f]))
<1>1. queue[f] \in Seq(User) /\ Len(queue[f]) >= 2
  BY DEF QueuesOK, TakeTwo
<1>2. a \in User /\ b \in User /\ rest \in Seq(User)
  BY <1>1, ElementsShiftTwo
<1> HIDE DEF a, b, rest
<1>3. CASE a = b
  <2>1. /\ Goto(h, "idle") /\ UNCHANGED <<pair, stale>>
        /\ queue' = [queue EXCEPT ![f] = <<b>> \o rest]
    BY <1>3, Zenon DEF TakeTwo, a, b, rest
  <2>2. <<b>> \o rest \in Seq(User)
    BY <1>2
  <2>3. QueuesOK'
    BY <2>1, <2>2 DEF QueuesOK
  <2> QED
    BY <2>1, <2>3, GotoOK
<1>4. CASE a # b
  <2>1. /\ Goto(h, "problem") /\ pair' = [pair EXCEPT ![h] = <<a, b>>]
        /\ stale' = [stale EXCEPT ![h] = FALSE] /\ queue' = [queue EXCEPT ![f] = rest]
    BY <1>4 DEF TakeTwo, a, b, rest
  <2>2. QueuesOK'
    BY <1>2, <2>1 DEF QueuesOK
  <2>3. AttemptsOK'
    BY <1>2, <1>4, <2>1 DEF AttemptsOK, AttemptOK, Goto
  <2> QED
    BY <2>2, <2>3
<1> QED
  BY <1>3, <1>4

\* The catch block that pushes the pair back keeps the queues well-formed.
LEMMA PutBackOK ==
  ASSUME QueuesOK, AttemptsOK, NEW h \in Handler, step[h] \in {"problem", "lock"},
         PutBack(h), UNCHANGED stale
  PROVE  QueuesOK'
<1>1. fee[h] \in Fee /\ pair[h] \in User \X User
  BY DEF AttemptsOK, AttemptOK
<1>2. pair[h] \in Seq(User)
  BY <1>1, PairElements
<1>3. queue[fee[h]] \in Seq(User)
  BY <1>1 DEF QueuesOK
<1>4. pair[h] \o queue[fee[h]] \in Seq(User)
  BY <1>2, <1>3, ElementsConcat
<1> QED
  BY <1>1, <1>4 DEF PutBack, QueuesOK

\* The invariant holds of the empty queues.
LEMMA InitQueue == Init => QueueInv
<1> SUFFICES ASSUME Init PROVE QueueInv
  OBVIOUS
<1> USE MatchmakingAssumption DEF Init
<1>1. QueuesOK
  BY DEF QueuesOK
<1>2. AttemptsOK
  BY DEF AttemptsOK, AttemptOK
<1>3. MatchesOK
  BY DEF MatchesOK, NoSelfMatch
<1>4. OthersOK
  BY DEF OthersOK
<1> QED
  BY <1>1, <1>2, <1>3, <1>4 DEF QueueInv

\* One case per action.
LEMMA StepQueue == QueueInv /\ [Next]_vars => QueueInv'
<1> SUFFICES ASSUME QueueInv, [Next]_vars PROVE QueueInv'
  OBVIOUS
<1>0. QueuesOK /\ AttemptsOK /\ MatchesOK /\ OthersOK
  BY DEF QueueInv
<1> USE DEF queues, attempt
<1>1. ASSUME NEW j \in Join, NEW f \in Fee, JoinStart(j, f) PROVE QueueInv'
  <2>1. QueuesOK'
    BY <1>0, <1>1, RemoveType DEF JoinStart, QueuesOK
  <2>2. fee' \in [Handler -> Fee] /\ j \in Handler
    BY <1>0, <1>1, JoinType DEF JoinStart, AttemptsOK
  <2>3. AttemptsOK'
    BY <1>0, <1>1, <2>2, GotoOK DEF JoinStart
  <2>4. OthersOK'
    BY <1>0, <1>1, MatchmakingAssumption DEF JoinStart, OthersOK
  <2> QED
    BY <1>0, <1>1, <2>1, <2>3, <2>4 DEF JoinStart, QueueInv, MatchesOK, NoSelfMatch
<1>2. ASSUME NEW j \in Join, JoinCheck(j) PROVE QueueInv'
  <2>1. AttemptsOK'
    BY <1>0, <1>2, JoinType, GotoOK DEF JoinCheck, AttemptsOK
  <2> QED
    BY <1>0, <1>2, <2>1 DEF JoinCheck, QueueInv, QueuesOK, MatchesOK, OthersOK, NoSelfMatch
<1>3. ASSUME NEW j \in Join, JoinPush(j) PROVE QueueInv'
  <2>1. AttemptsOK'
    BY <1>0, <1>3, JoinType, GotoOK DEF JoinPush, AttemptsOK
  <2>2. fee[j] \in Fee /\ who[j] \in User
    BY <1>0, JoinType DEF AttemptsOK
  <2>3. QueuesOK'
    BY <1>0, <1>3, <2>2 DEF JoinPush, QueuesOK
  <2> QED
    BY <1>0, <1>3, <2>1, <2>3 DEF JoinPush, QueueInv, MatchesOK, OthersOK, NoSelfMatch
<1>4. ASSUME NEW j \in Join, JoinTry(j) PROVE QueueInv'
  <2>1. j \in Handler /\ fee[j] \in Fee /\ fee' \in [Handler -> Fee] /\ step[j] = "track"
    BY <1>0, <1>4, JoinType DEF AttemptsOK, JoinTry
  <2>2. QueuesOK' /\ AttemptsOK'
    <3>1. CASE TakeTwo(j, fee[j])
      BY <1>0, <2>1, <3>1, TakeTwoOK
    <3>2. CASE Goto(j, "idle") /\ UNCHANGED <<pair, queues>>
      BY <1>0, <2>1, <3>2, GotoOK DEF QueuesOK
    <3> QED
      BY <1>4, <3>1, <3>2 DEF JoinTry
  <2> QED
    BY <1>0, <1>4, <2>2 DEF JoinTry, QueueInv, MatchesOK, OthersOK, NoSelfMatch
<1>5. ASSUME NEW t \in Tick, NEW f \in Fee, WorkerTry(t, f) PROVE QueueInv'
  <2>1. t \in Handler /\ fee' \in [Handler -> Fee] /\ step[t] = "idle"
    BY <1>0, <1>5 DEF AttemptsOK, WorkerTry, Handler
  <2>2. QueuesOK' /\ AttemptsOK'
    BY <1>0, <1>5, <2>1, TakeTwoOK DEF WorkerTry
  <2> QED
    BY <1>0, <1>5, <2>2 DEF WorkerTry, QueueInv, MatchesOK, OthersOK, NoSelfMatch
<1>6. ASSUME NEW h \in Handler, FindProblem(h) PROVE QueueInv'
  <2>1. QueuesOK' /\ AttemptsOK'
    <3>1. CASE PutBack(h) /\ Return(h)
      BY <1>0, <1>6, <3>1, PutBackOK, ReturnOK DEF FindProblem
    <3>2. CASE Goto(h, "lock") /\ UNCHANGED <<queue, pair>>
      BY <1>0, <1>6, <3>2 DEF FindProblem, QueuesOK, AttemptsOK, AttemptOK, Goto
    <3> QED
      BY <1>6, <3>1, <3>2 DEF FindProblem
  <2> QED
    BY <1>0, <1>6, <2>1 DEF FindProblem, QueueInv, MatchesOK, OthersOK, NoSelfMatch
<1>7. ASSUME NEW h \in Handler, CreateMatch(h) PROVE QueueInv'
  <2>1. AttemptsOK'
    BY <1>0, <1>7, ReturnOK DEF CreateMatch
  <2>2. /\ pair[h] \in User \X User /\ pair[h][1] # pair[h][2]
        /\ fee[h] \in Fee /\ fee[h] \in Nat
    <3>1. AttemptOK(h) /\ fee[h] \in Fee /\ step[h] = "lock"
      BY <1>0, <1>7 DEF CreateMatch, AttemptsOK
    <3>2. pair[h] \in User \X User
      BY <3>1 DEF AttemptOK
    <3>3. pair[h] # <<>>
      BY <3>2, PairElements
    <3> QED
      BY <3>1, <3>2, <3>3, MatchmakingAssumption, Zenon DEF AttemptOK
  <2>3. balance' \in [User -> Nat]
    BY <1>0, <1>7, <2>2 DEF CreateMatch, Funded, MatchesOK
  <2>4. matches' \subseteq User \X User \X Fee /\ NoSelfMatch'
    BY <1>0, <1>7, <2>2 DEF CreateMatch, MatchesOK, NoSelfMatch
  <2> QED
    BY <1>0, <1>7, <2>1, <2>3, <2>4 DEF CreateMatch, QueueInv, QueuesOK, MatchesOK, OthersOK
<1>8. ASSUME NEW h \in Handler, MatchFails(h) PROVE QueueInv'
  <2>1. QueuesOK' /\ AttemptsOK'
    BY <1>0, <1>8, PutBackOK, ReturnOK DEF MatchFails
  <2>2. OthersOK'
    BY <1>0, <1>8, MatchmakingAssumption DEF MatchFails, OthersOK
  <2> QED
    BY <1>0, <1>8, <2>1, <2>2 DEF MatchFails, QueueInv, MatchesOK, NoSelfMatch
<1>9. ASSUME NEW h \in Handler, Throw(h) PROVE QueueInv'
  <2>1. AttemptsOK'
    BY <1>0, <1>9, ReturnOK DEF Throw
  <2>2. OthersOK'
    BY <1>0, <1>9, MatchmakingAssumption DEF Throw, OthersOK
  <2> QED
    BY <1>0, <1>9, <2>1, <2>2 DEF Throw, QueueInv, QueuesOK, MatchesOK, NoSelfMatch
<1>10. ASSUME NEW u \in User, Leave(u) \/ removeFromMemoryQueue(u) PROVE QueueInv'
  <2>1. QueuesOK'
    BY <1>0, <1>10, RemoveType DEF Leave, removeFromMemoryQueue
  <2> QED
    BY <1>0, <1>10, <2>1
       DEF Leave, removeFromMemoryQueue, QueueInv, AttemptsOK, AttemptOK, MatchesOK, OthersOK,
           NoSelfMatch
<1>11. ASSUME NEW u \in User, Disconnect(u) \/ Reconnect(u) PROVE QueueInv'
  BY <1>0, <1>11 DEF Disconnect, Reconnect, QueueInv, QueuesOK, AttemptsOK, AttemptOK, MatchesOK,
                     OthersOK, NoSelfMatch
<1>12. ASSUME NEW u \in User, Spend(u) PROVE QueueInv'
  <2>1. MatchesOK'
    BY <1>0, <1>12 DEF Spend, MatchesOK, NoSelfMatch
  <2> QED
    BY <1>0, <1>12, <2>1 DEF Spend, QueueInv, QueuesOK, AttemptsOK, AttemptOK, OthersOK
<1>13. CASE UNCHANGED vars
  BY <1>0, <1>13, Zenon DEF vars, QueueInv, QueuesOK, AttemptsOK, AttemptOK, MatchesOK, OthersOK,
                     NoSelfMatch
<1> QED
  BY <1>1, <1>2, <1>3, <1>4, <1>5, <1>6, <1>7, <1>8, <1>9, <1>10, <1>11, <1>12, <1>13
     DEF Next, Attempt

\* The types of the queues, handlers and matches.
THEOREM QueueTypeCorrect == Spec => []TypeOK
<1>1. QueueInv => TypeOK
  BY Zenon DEF QueueInv, QueuesOK, AttemptsOK, AttemptOK, MatchesOK, OthersOK, TypeOK
<1> QED
  BY <1>1, InitQueue, StepQueue, PTL DEF Spec

\* Nobody is matched with themselves, however many joins of one user are in
\* flight and wherever their entries end up (matchmakingHandler.js:130-134).
THEOREM NobodyPlaysAlone == Spec => []NoSelfMatch
<1>1. QueueInv => NoSelfMatch
  BY DEF QueueInv, MatchesOK
<1> QED
  BY <1>1, InitQueue, StepQueue, PTL DEF Spec

\* What WaitingIsKept allows for a user who stops waiting.
Released(u) ==
  \E h \in Handler :
    /\ u \in Elements(pair[h]) /\ pair'[h] = <<>>
    /\ balance'[u] = balance[u] - fee[h] \/ stale[h] \/ faults' > faults

\* The filter of one user's entries keeps those of another.
LEMMA RemoveKeeps ==
  ASSUME QueuesOK, NEW F, NEW v, RemoveFrom(F, v), UNCHANGED pair,
         NEW u \in User, u # v, Waiting(u)
  PROVE  Waiting(u)'
<1>1. ASSUME NEW f \in Fee, u \in Elements(queue[f]) PROVE u \in Elements(queue'[f])
  <2>1. queue[f] \in Seq(User)
    BY DEF QueuesOK
  <2>2. Elements(Without(queue[f], v)) = Elements(queue[f]) \ {v}
    BY <2>1, WithoutElements
  <2>3. queue'[f] = IF f \in F THEN Without(queue[f], v) ELSE queue[f]
    BY DEF RemoveFrom
  <2> QED
    BY <1>1, <2>2, <2>3
<1> QED
  BY <1>1 DEF Waiting

\* Two players taken off a queue are in it still, or held by the attempt.
LEMMA TakeTwoKeeps ==
  ASSUME QueuesOK, AttemptsOK, NEW h \in Handler, step[h] \notin {"problem", "lock"},
         NEW f \in Fee, TakeTwo(h, f), NEW u \in User, Waiting(u)
  PROVE  Waiting(u)'
<1> DEFINE a == queue[f][1]
           b == queue[f][2]
           rest == Tail(Tail(queue[f]))
<1>1. queue[f] \in Seq(User) /\ Len(queue[f]) >= 2
  BY DEF QueuesOK, TakeTwo
<1>2. /\ a \in User /\ b \in User /\ rest \in Seq(User)
      /\ Elements(queue[f]) = {a, b} \cup Elements(rest)
  BY <1>1, ElementsShiftTwo
<1> HIDE DEF a, b, rest
<1>3. pair[h] = <<>> /\ Elements(pair[h]) = {}
  BY ElementsEmpty DEF AttemptsOK, AttemptOK
<1>4. CASE a = b
  <2>1. UNCHANGED pair /\ queue' = [queue EXCEPT ![f] = <<b>> \o rest]
    BY <1>4, Zenon DEF TakeTwo, a, b, rest
  <2>2. Elements(<<b>> \o rest) = {b} \cup Elements(rest)
    BY <1>2, ElementsUnshift
  <2>3. \A e \in Fee : Elements(queue'[e]) = Elements(queue[e])
    BY <1>2, <1>4, <2>1, <2>2, Zenon DEF QueuesOK
  <2> QED
    BY <2>1, <2>3 DEF Waiting
<1>5. CASE a # b
  <2>1. pair' = [pair EXCEPT ![h] = <<a, b>>] /\ queue' = [queue EXCEPT ![f] = rest]
    BY <1>5, Zenon DEF TakeTwo, a, b, rest
  <2>2. <<a, b>> \in User \X User
    BY <1>2
  <2>3. Elements(<<a, b>>) = {a, b}
    <3>1. Elements(<<a, b>>) = {<<a, b>>[1], <<a, b>>[2]}
      BY <2>2, PairElements
    <3> QED
      BY <3>1
  <2>4. \A e \in Fee : e # f => queue'[e] = queue[e]
    BY <2>1 DEF QueuesOK
  <2>5. queue'[f] = rest
    BY <2>1 DEF QueuesOK
  <2>6. pair'[h] = <<a, b>> /\ \A g \in Handler : g # h => pair'[g] = pair[g]
    BY <2>1 DEF AttemptsOK
  <2>7. CASE \E e \in Fee : u \in Elements(queue[e])
    BY <1>2, <2>3, <2>4, <2>5, <2>6, <2>7 DEF Waiting
  <2>8. CASE \E g \in Handler : u \in Elements(pair[g])
    BY <1>3, <2>6, <2>8 DEF Waiting
  <2> QED
    BY <2>7, <2>8 DEF Waiting
<1> QED
  BY <1>4, <1>5

\* What is put back to the current array is in the queue again.
LEMMA PutBackKeeps ==
  ASSUME QueuesOK, AttemptsOK, NEW h \in Handler, step[h] \in {"problem", "lock"},
         PutBack(h), Return(h), NEW u \in User, Waiting(u)
  PROVE  Waiting(u)' \/ Released(u)
<1>1. fee[h] \in Fee /\ pair[h] \in User \X User
  BY DEF AttemptsOK, AttemptOK
<1>2. pair[h] \in Seq(User) /\ queue[fee[h]] \in Seq(User)
  BY <1>1, PairElements DEF QueuesOK
<1>3. Elements(pair[h] \o queue[fee[h]]) = Elements(pair[h]) \cup Elements(queue[fee[h]])
  BY <1>2, ElementsConcat
<1>4. pair'[h] = <<>> /\ \A g \in Handler : g # h => pair'[g] = pair[g]
  BY DEF Return, AttemptsOK
<1>5. CASE stale[h]
  <2>1. queue' = queue
    BY <1>5 DEF PutBack
  <2> QED
    BY <1>4, <1>5, <2>1 DEF Waiting, Released
<1>6. CASE ~stale[h]
  <2>1. queue' = [queue EXCEPT ![fee[h]] = pair[h] \o queue[fee[h]]]
    BY <1>6 DEF PutBack
  <2>2. \A e \in Fee : Elements(queue[e]) \subseteq Elements(queue'[e])
    BY <1>1, <1>3, <2>1 DEF QueuesOK
  <2>3. Elements(pair[h]) \subseteq Elements(queue'[fee[h]])
    BY <1>1, <1>3, <2>1 DEF QueuesOK
  <2> QED
    BY <1>1, <1>4, <2>2, <2>3 DEF Waiting
<1> QED
  BY <1>5, <1>6

\* One case per action.
LEMMA WaitingStep ==
  ASSUME QueueInv, [Next]_vars, NEW u \in User, Waiting(u)
  PROVE  Waiting(u)' \/ OwnStep(u) \/ Released(u)
<1>0. QueuesOK /\ AttemptsOK /\ OthersOK
  BY DEF QueueInv
<1> DEFINE Goal == Waiting(u)' \/ OwnStep(u) \/ Released(u)
<1> USE DEF queues, attempt
<1>1. ASSUME NEW j \in Join, NEW f \in Fee, JoinStart(j, f) PROVE Goal
  <2>1. CASE who[j] = u
    <3>1. joins[j] \in Nat /\ joins'[j] = joins[j] + 1
      BY <1>0, <1>1, MatchmakingAssumption DEF OthersOK, JoinStart
    <3>2. joins'[j] > joins[j]
      BY <3>1
    <3> QED
      BY <2>1, <3>2 DEF OwnStep
  <2>2. CASE who[j] # u
    <3>1. CASE RemoveFrom({f}, who[j])
      BY <1>0, <1>1, <2>2, <3>1, RemoveKeeps DEF JoinStart
    <3>2. CASE UNCHANGED queues
      BY <1>1, <3>2 DEF JoinStart, Waiting
    <3> QED
      BY <1>1, <3>1, <3>2 DEF JoinStart
  <2> QED
    BY <2>1, <2>2
<1>2. ASSUME NEW j \in Join, JoinCheck(j) PROVE Goal
  BY <1>2, Zenon DEF JoinCheck, Waiting
<1>3. ASSUME NEW j \in Join, JoinPush(j) PROVE Goal
  <2>1. fee[j] \in Fee /\ who[j] \in User
    BY <1>0, JoinType DEF AttemptsOK
  <2>2. Elements(Append(queue[fee[j]], who[j])) = Elements(queue[fee[j]]) \cup {who[j]}
    BY <1>0, <2>1, ElementsAppend DEF QueuesOK
  <2>3. \A f \in Fee : Elements(queue[f]) \subseteq Elements(queue'[f])
    BY <1>0, <1>3, <2>1, <2>2 DEF JoinPush, QueuesOK
  <2> QED
    BY <1>3, <2>3 DEF JoinPush, Waiting
<1>4. ASSUME NEW j \in Join, JoinTry(j) PROVE Goal
  <2>1. j \in Handler /\ fee[j] \in Fee /\ step[j] = "track"
    BY <1>0, <1>4, JoinType DEF AttemptsOK, JoinTry
  <2>2. CASE TakeTwo(j, fee[j])
    BY <1>0, <2>1, <2>2, TakeTwoKeeps
  <2>3. CASE UNCHANGED <<pair, queues>>
    BY <2>3 DEF Waiting
  <2> QED
    BY <1>4, <2>2, <2>3 DEF JoinTry
<1>5. ASSUME NEW t \in Tick, NEW f \in Fee, WorkerTry(t, f) PROVE Goal
  <2>1. t \in Handler /\ step[t] = "idle" /\ TakeTwo(t, f)
    BY <1>5 DEF WorkerTry, Handler
  <2> QED
    BY <1>0, <2>1, TakeTwoKeeps
<1>6. ASSUME NEW h \in Handler, FindProblem(h) PROVE Goal
  <2>1. CASE PutBack(h) /\ Return(h)
    BY <1>0, <1>6, <2>1, PutBackKeeps DEF FindProblem
  <2>2. CASE UNCHANGED <<queue, pair>>
    BY <2>2 DEF Waiting
  <2> QED
    BY <1>6, <2>1, <2>2 DEF FindProblem
<1>7. ASSUME NEW h \in Handler, CreateMatch(h) PROVE Goal
  <2>1. pair'[h] = <<>> /\ \A g \in Handler : g # h => pair'[g] = pair[g]
    BY <1>0, <1>7 DEF CreateMatch, Return, AttemptsOK
  <2>2. CASE u \in Elements(pair[h])
    <3>1. balance'[u] = balance[u] - fee[h]
      BY <1>7, <2>2 DEF CreateMatch
    <3> QED
      BY <2>1, <2>2, <3>1 DEF Released
  <2>3. CASE u \notin Elements(pair[h])
    BY <1>7, <2>1, <2>3, Zenon DEF CreateMatch, Waiting
  <2> QED
    BY <2>2, <2>3
<1>8. ASSUME NEW h \in Handler, MatchFails(h) PROVE Goal
  BY <1>0, <1>8, PutBackKeeps DEF MatchFails
<1>9. ASSUME NEW h \in Handler, Throw(h) PROVE Goal
  <2>1. pair'[h] = <<>> /\ \A g \in Handler : g # h => pair'[g] = pair[g]
    BY <1>0, <1>9 DEF Throw, Return, AttemptsOK
  <2>2. faults' > faults
    BY <1>0, <1>9, MatchmakingAssumption DEF Throw, OthersOK
  <2> QED
    BY <1>9, <2>1, <2>2 DEF Throw, Waiting, Released
<1>10. ASSUME NEW v \in User, Leave(v) \/ removeFromMemoryQueue(v) PROVE Goal
  <2>1. CASE u = v
    BY <1>10, <2>1 DEF OwnStep
  <2>2. CASE u # v
    BY <1>0, <1>10, <2>2, RemoveKeeps DEF Leave, removeFromMemoryQueue
  <2> QED
    BY <2>1, <2>2
<1>11. ASSUME NEW v \in User, Disconnect(v) \/ Reconnect(v) \/ Spend(v) PROVE Goal
  BY <1>11 DEF Disconnect, Reconnect, Spend, Waiting
<1>12. CASE UNCHANGED vars
  BY <1>12, Zenon DEF vars, Waiting
<1> QED
  BY <1>1, <1>2, <1>3, <1>4, <1>5, <1>6, <1>7, <1>8, <1>9, <1>10, <1>11, <1>12
     DEF Next, Attempt

\* A waiting player stops waiting only by being matched, with the fee locked;
\* by leaving, disconnecting or joining anew; or because the attempt that holds
\* the player lost its array or threw (matchmakingHandler.js:126-191), for
\* every number of users, fees, handlers and ticks.
THEOREM PlayersAreKept == Spec => WaitingIsKept
<1>1. QueueInv /\ [Next]_vars =>
        [\A u \in User :
           Waiting(u) /\ ~Waiting(u)' =>
             \/ OwnStep(u)
             \/ \E h \in Handler :
                  /\ u \in Elements(pair[h]) /\ pair'[h] = <<>>
                  /\ balance'[u] = balance[u] - fee[h] \/ stale[h] \/ faults' > faults]_vars
  BY WaitingStep DEF Released
<1> QED
  BY <1>1, InitQueue, StepQueue, PTL DEF Spec, WaitingIsKept

-----------------------------------------------------------------------------
(* The presence keys of the same users.  While nobody opens a second       *)
(* socket, the key of a connected user names the one there is.             *)

CONSTANTS Socket, owner, NoSocket, Overlap, EarlyClose
VARIABLES presence, active, forfeited, place

P == INSTANCE Presence WITH step <- place

PresenceInv == P!TypeOK /\ P!PresenceIsCurrent

\* One case per action.
LEMMA StepPresence ==
  ASSUME P!PresenceAssumption, ~Overlap, PresenceInv, [P!Next]_(P!vars)
  PROVE  PresenceInv'
<1> DEFINE Current(s) == place[s] \in {"opening", "open"} => presence[owner[s]] = s
<1>0. P!TypeOK /\ \A s \in Socket : owner[s] \in User /\ s # NoSocket /\ Current(s)
  BY DEF PresenceInv, P!PresenceAssumption, P!PresenceIsCurrent, P!Sockets
<1>1. SUFFICES P!TypeOK' /\ \A s \in Socket : Current(s)'
  BY DEF PresenceInv, P!PresenceIsCurrent, P!Sockets
<1> USE DEF P!TypeOK, P!Goto
<1>2. ASSUME NEW s \in Socket, P!Connect(s) PROVE P!TypeOK' /\ \A t \in Socket : Current(t)'
  <2>1. \A t \in Socket : owner[t] = owner[s] => place[t] \notin {"opening", "open"}
    BY <1>2 DEF P!Connect, P!Connected, P!Sockets
  <2>2. P!TypeOK'
    BY <1>0, <1>2 DEF P!Connect
  <2>3. ASSUME NEW t \in Socket PROVE Current(t)'
    BY <1>0, <1>2, <2>1 DEF P!Connect
  <2> QED
    BY <2>2, <2>3
<1>3. ASSUME NEW s \in Socket,
             P!Register(s) \/ P!CloseEarly(s) \/ P!ReadActive(s) \/ P!Recheck(s) \/ P!Forfeit(s)
      PROVE  P!TypeOK' /\ \A t \in Socket : Current(t)'
  BY <1>0, <1>3 DEF P!Register, P!CloseEarly, P!ReadActive, P!Recheck, P!Forfeit
<1>4. ASSUME NEW s \in Socket, P!Disconnect(s)
      PROVE  P!TypeOK' /\ \A t \in Socket : Current(t)'
  BY <1>0, <1>4 DEF P!Disconnect
<1>5. ASSUME NEW s \in Socket, P!CompareAndDelete(s)
      PROVE  P!TypeOK' /\ \A t \in Socket : Current(t)'
  BY <1>0, <1>5 DEF P!CompareAndDelete
<1>6. ASSUME NEW u \in User, P!StartMatch(u) \/ P!EndMatch(u)
      PROVE  P!TypeOK' /\ \A t \in Socket : Current(t)'
  BY <1>0, <1>6 DEF P!StartMatch, P!EndMatch
<1>7. CASE UNCHANGED P!vars
  BY <1>0, <1>7 DEF P!vars
<1> QED
  BY <1>2, <1>3, <1>4, <1>5, <1>6, <1>7 DEF P!Next, P!Handle

\* The key names the socket of every connected user, through all connections,
\* disconnections and forfeits, as long as a user's sockets do not overlap
\* (socket/index.js:55-56, 67-77).
THEOREM PresenceCurrent ==
  ASSUME P!PresenceAssumption, ~Overlap
  PROVE  P!Spec => []P!PresenceIsCurrent
<1>1. P!Init => PresenceInv
  BY DEF P!Init, PresenceInv, P!TypeOK, P!PresenceIsCurrent, P!Sockets, P!PresenceAssumption
<1>2. PresenceInv /\ [P!Next]_(P!vars) => PresenceInv'
  BY StepPresence
<1>3. PresenceInv => P!PresenceIsCurrent
  BY DEF PresenceInv
<1> QED
  BY <1>1, <1>2, <1>3, PTL DEF P!Spec

\* "Wait 15 seconds to see if player reconnects" (socket/index.js:104): under
\* the same condition a forfeit is decided only against a user without a
\* socket, however often the user comes and goes while the handlers of old
\* sockets wait.
THEOREM DecidedAway ==
  ASSUME P!PresenceAssumption, ~Overlap
  PROVE  P!Spec => P!DecidedWhileAway
<1>1. P!Init => PresenceInv
  BY DEF P!Init, PresenceInv, P!TypeOK, P!PresenceIsCurrent, P!Sockets, P!PresenceAssumption
<1>2. PresenceInv /\ [P!Next]_(P!vars) => PresenceInv'
  BY StepPresence
<1>3. PresenceInv /\ [P!Next]_(P!vars) =>
        [\A s \in Socket : place[s] = "wait" /\ place'[s] = "forfeit"
                             => ~P!Connected(owner[s])]_(P!vars)
  <2> SUFFICES ASSUME PresenceInv, [P!Next]_(P!vars), NEW s \in Socket,
                      place[s] = "wait", place'[s] = "forfeit", P!Connected(owner[s])
               PROVE  FALSE
    OBVIOUS
  <2>1. P!Recheck(s)
    BY DEF PresenceInv, P!TypeOK, P!Next, P!Handle, P!Goto, P!vars, P!Connect, P!Register,
           P!CloseEarly, P!Disconnect, P!CompareAndDelete, P!ReadActive, P!Recheck, P!Forfeit,
           P!StartMatch, P!EndMatch
  <2>2. presence[owner[s]] = NoSocket
    BY <2>1 DEF P!Recheck, P!Goto, PresenceInv, P!TypeOK
  <2>3. PICK t \in P!Sockets(owner[s]) : place[t] \in {"opening", "open"}
    BY DEF P!Connected
  <2> QED
    BY <2>2, <2>3 DEF PresenceInv, P!PresenceIsCurrent, P!Sockets, P!PresenceAssumption
<1> QED
  BY <1>1, <1>2, <1>3, PTL DEF P!Spec, P!DecidedWhileAway

-----------------------------------------------------------------------------
(* The hearts of the same users.                                           *)

CONSTANTS Match, Players, Premium, Null, MaxErrors
VARIABLES hearts, reset, seat, match, lost, newHearts, errors

H == INSTANCE Hearts

\* The column is unset or between 0 and 3, and a user at 0 has a date.
HeartsInv ==
  /\ hearts \in [User -> {Null} \cup 0..3] /\ DOMAIN reset = User
  /\ newHearts \in [Match -> 0..3] /\ lost \in [Match -> User]
  /\ H!EmptyHasDate

\* One case per action that writes a row.
LEMMA StepHearts ==
  ASSUME Null \notin 0..3, Players \in [Match -> SUBSET User], HeartsInv, [H!Next]_(H!vars)
  PROVE  HeartsInv'
<1> USE DEF HeartsInv, H!EmptyHasDate, H!Have
<1>1. ASSUME NEW s \in H!Seat, H!Refill(s) PROVE HeartsInv'
  <2> DEFINE u == s[2]
  <2>1. u \in User
    BY DEF H!Seat
  <2>2. /\ hearts' = [hearts EXCEPT ![u] = 3] /\ reset' = [reset EXCEPT ![u] = "none"]
        /\ UNCHANGED <<newHearts, lost>>
    BY <1>1, Zenon DEF H!Refill
  <2> HIDE DEF u
  <2> QED
    BY <2>1, <2>2
<1>2. ASSUME NEW m \in Match, NEW u \in User, H!ReadLoser(m, u) PROVE HeartsInv'
  BY <1>2 DEF H!ReadLoser
<1>3. ASSUME NEW m \in Match, H!WriteLoser(m) PROVE HeartsInv'
  BY <1>3 DEF H!WriteLoser
<1>4. ASSUME NEW m \in Match, H!RewardWinner(m) PROVE HeartsInv'
  BY <1>4 DEF H!RewardWinner
<1>5. ASSUME NEW u \in User, H!DayPasses(u) PROVE HeartsInv'
  BY <1>5 DEF H!DayPasses
<1>6. CASE UNCHANGED <<hearts, reset, newHearts, lost>>
  BY <1>6
<1> QED
  BY <1>1, <1>2, <1>3, <1>4, <1>5, <1>6, Zenon
     DEF H!Next, H!vars, H!Resolve, H!Ask, H!Check, H!CheckFails, H!Start, H!UpdateFails

\* A user without hearts has a date on which they come back, whatever matches
\* of the user end and joins refill between the two statements of a loss
\* (matchHandler.js:286-297), for every set of users and matches.
THEOREM EmptyHeartsHaveDate ==
  ASSUME Null \notin 0..3, Players \in [Match -> (SUBSET User) \ {{}}]
  PROVE  H!Spec => []H!EmptyHasDate
<1>1. H!Init => HeartsInv
  <2> SUFFICES ASSUME H!Init PROVE HeartsInv
    OBVIOUS
  <2>1. \A m \in Match : \E u \in User : u \in Players[m]
    OBVIOUS
  <2>2. lost \in [Match -> User]
    BY <2>1 DEF H!Init
  <2> QED
    BY <2>2 DEF H!Init, HeartsInv, H!EmptyHasDate
<1>2. HeartsInv /\ [H!Next]_(H!vars) => HeartsInv'
  BY StepHearts
<1>3. HeartsInv => H!EmptyHasDate
  BY DEF HeartsInv
<1> QED
  BY <1>1, <1>2, <1>3, PTL DEF H!Spec

=============================================================================
