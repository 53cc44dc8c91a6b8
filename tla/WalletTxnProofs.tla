-------------------------- MODULE WalletTxnProofs --------------------------
(***************************************************************************)
(* Row-level execution of the money transactions implements the atomic     *)
(* table of module Wallets, for every set of users, connections and        *)
(* amounts.  The rows a transaction has locked do not change until it      *)
(* ends, so what it computed from its reads is still right at COMMIT.      *)
(***************************************************************************)
EXTENDS WalletTxn, TLAPS

\* A transaction has one or two rows of different users, and changes nothing
\* but these rows.
Shape(t) ==
  /\ Len(t.rows) \in 1..2
  /\ \A i \in 1..Len(t.rows) : t.rows[i] \in User
  /\ \A i, j \in 1..Len(t.rows) : t.rows[i] = t.rows[j] => i = j
  /\ t.balance \in [User -> Int] /\ t.locked \in [User -> Int]
  /\ \A u \in User \ RowSet(t) : t.balance[u] = 0 /\ t.locked[u] = 0

\* The amounts of a transaction are integers, 0 outside of S.
LEMMA OnlyType ==
  ASSUME NEW S, NEW n \in Int
  PROVE  Only(S, n) \in [User -> Int] /\ \A u \in User \ S : Only(S, n)[u] = 0
BY DEF Only

\* deposit and withdraw touch one row.
LEMMA OneRow ==
  ASSUME NEW u \in User, NEW n \in Int, NEW t,
         t.rows = <<u>>, t.balance = Only({u}, n), t.locked = Only({}, 0)
  PROVE  Shape(t)
<1>1. Len(t.rows) = 1 /\ t.rows[1] = u
  OBVIOUS
<1>2. RowSet(t) = {u}
  BY <1>1 DEF RowSet
<1> QED
  BY <1>1, <1>2, OnlyType DEF Shape

\* The match transactions touch the rows of both players.
LEMMA TwoRows ==
  ASSUME NEW a \in User, NEW b \in User, a # b, NEW t, t.rows = <<a, b>>,
         NEW S \in SUBSET {a, b}, NEW i \in Int, t.balance = Only(S, i),
         NEW R \in SUBSET {a, b}, NEW j \in Int, t.locked = Only(R, j)
  PROVE  Shape(t)
<1>1. Len(t.rows) = 2 /\ t.rows[1] = a /\ t.rows[2] = b
  OBVIOUS
<1>2. RowSet(t) = {a, b}
  BY <1>1 DEF RowSet
<1> QED
  BY <1>1, <1>2, OnlyType DEF Shape

\* Entry fees and prizes are integers.
LEMMA FeesType ==
  ASSUME NEW f \in EntryFee
  PROVE  f \in Int /\ -f \in Int /\ NetPrize(f) \in Int
<1>1. f \in Int
  BY AmountAssumption
<1>2. GrossPrize(f) * PLATFORM_FEE_PERCENT \in Int
  BY <1>1, PercentAssumption DEF GrossPrize
<1> QED
  BY <1>1, <1>2 DEF NetPrize, PlatformFee, GrossPrize

\* Every transaction of the code has this shape.
LEMMA TxnShape == ASSUME NEW t \in Txns PROVE Shape(t)
<1>1. ASSUME NEW u \in User, NEW n \in Amount, t = deposit(u, n) PROVE Shape(t)
  BY <1>1, OneRow, AmountAssumption DEF deposit
<1>2. ASSUME NEW u \in User, NEW n \in Amount, t = withdraw(u, n) PROVE Shape(t)
  <2>1. -n \in Int
    BY AmountAssumption
  <2> QED
    BY <1>2, <2>1, OneRow DEF withdraw
<1>3. ASSUME NEW a \in User, NEW b \in User, a # b, NEW f \in EntryFee,
             t = lockFundsForMatch(a, b, f)
      PROVE  Shape(t)
  BY <1>3, TwoRows, FeesType DEF lockFundsForMatch
<1>4. ASSUME NEW a \in User, NEW b \in User, a # b, NEW f \in EntryFee,
             t = releaseEscrowToWinner(a, b, f)
      PROVE  Shape(t)
  BY <1>4, TwoRows, FeesType DEF releaseEscrowToWinner
<1>5. ASSUME NEW a \in User, NEW b \in User, a # b, NEW f \in EntryFee,
             t = refundBothPlayers(a, b, f)
      PROVE  Shape(t)
  BY <1>5, TwoRows, FeesType DEF refundBothPlayers
<1> QED
  BY <1>1, <1>2, <1>3, <1>4, <1>5 DEF Txns

-----------------------------------------------------------------------------
(* The inductive invariant.                                                *)

Working(c) == phase[c] \in {"select", "update", "commit"}

\* Where a transaction is among its rows.
ProgressOK(c) ==
  /\ phase[c] = "idle" => pos[c] = 1
  /\ phase[c] # "idle" => txn[c] \in Txns
  /\ phase[c] \in {"select", "update"} => pos[c] <= Len(txn[c].rows)
  /\ phase[c] = "commit" => pos[c] = Len(txn[c].rows) + 1

\* A transaction that goes on holds the lock of every row it has updated,
\* and of the row it has read.
LockOK(c) ==
  /\ Working(c) => \A i \in 1..(pos[c] - 1) : owner[txn[c].rows[i]] = c
  /\ phase[c] = "update" => owner[CurrentRow(c)] = c

\* RowsAreStable for one connection.
StableOK(c) ==
  /\ phase[c] = "update" => read[c] = wallets[CurrentRow(c)]
  /\ Working(c) =>
       \A i \in 1..(pos[c] - 1) :
         LET u == txn[c].rows[i] IN
         written[c][u] = UpdatedRow(wallets[u], txn[c], u)

IInv == TypeOK /\ \A c \in Conn : ProgressOK(c) /\ LockOK(c) /\ StableOK(c)

\* A transaction that waits for a row or has read it works on a row of its own.
LEMMA RowIsUser ==
  ASSUME IInv, NEW c \in Conn
  PROVE  /\ phase[c] # "idle" => Shape(txn[c])
         /\ phase[c] \in {"select", "update"} =>
              CurrentRow(c) \in User /\ pos[c] \in 1..Len(txn[c].rows)
<1>1. phase[c] # "idle" => Shape(txn[c])
  BY TxnShape DEF IInv, ProgressOK
<1>2. ASSUME phase[c] \in {"select", "update"}
      PROVE  CurrentRow(c) \in User /\ pos[c] \in 1..Len(txn[c].rows)
  <2>1. Shape(txn[c]) /\ pos[c] \in 1..3 /\ pos[c] <= Len(txn[c].rows)
    BY <1>1, <1>2 DEF IInv, TypeOK, ProgressOK
  <2>2. pos[c] \in 1..Len(txn[c].rows)
    BY <2>1 DEF Shape
  <2> QED
    BY <2>1, <2>2 DEF Shape, CurrentRow
<1> QED
  BY <1>1, <1>2

\* The invariant holds before the first transaction.
LEMMA InitInv == TInit => IInv
<1> SUFFICES ASSUME TInit PROVE IInv
  OBVIOUS
<1>1. EmptyRow \in Row
  BY NumericAssumption DEF EmptyRow, Row, Column
<1>2. TypeOK
  BY <1>1, OpeningAssumption DEF TInit, Init, TypeOK, Phases
<1>3. \A c \in Conn : ProgressOK(c) /\ LockOK(c) /\ StableOK(c)
  BY DEF TInit, ProgressOK, LockOK, StableOK, Working
<1> QED
  BY <1>2, <1>3 DEF IInv

\* Every step keeps the types.
LEMMA TypeStep == IInv /\ [TNext]_vars => TypeOK'
<1> SUFFICES ASSUME IInv, [TNext]_vars PROVE TypeOK'
  OBVIOUS
<1> USE DEF IInv
<1>0. EmptyRow \in Row
  BY NumericAssumption DEF EmptyRow, Row, Column
<1>1. ASSUME NEW c \in Conn, NEW t \in Txns, Begin(c, t) PROVE TypeOK'
  BY <1>1 DEF Begin, TypeOK, Phases
<1>2. ASSUME NEW c \in Conn, SelectForUpdate(c) PROVE TypeOK'
  <2>1. CurrentRow(c) \in User
    BY <1>2, RowIsUser DEF SelectForUpdate
  <2> QED
    BY <1>2, <2>1 DEF SelectForUpdate, TypeOK, Phases
<1>3. ASSUME NEW c \in Conn, UpdateRow(c) PROVE TypeOK'
  <2> DEFINE new == UpdatedRow(read[c], txn[c], CurrentRow(c))
  <2>1. CurrentRow(c) \in User /\ pos[c] \in 1..2
    BY <1>3, RowIsUser DEF UpdateRow, Shape
  <2>2. CASE ~CheckConstraints(new)
    BY <1>3, <2>2 DEF UpdateRow, TypeOK, Phases
  <2>3. CASE CheckConstraints(new)
    <3>1. new \in Row
      BY <2>3 DEF CheckConstraints, UpdatedRow, Row
    <3>2. /\ written' = [written EXCEPT ![c][CurrentRow(c)] = new]
          /\ pos' = [pos EXCEPT ![c] = pos[c] + 1]
          /\ phase' \in [Conn -> Phases]
          /\ UNCHANGED <<wallets, txn, read, owner>>
      BY <1>3, <2>3, Zenon DEF UpdateRow, TypeOK, Phases
    <3> HIDE DEF new
    <3> QED
      BY <2>1, <3>1, <3>2 DEF TypeOK
  <2> QED
    BY <2>2, <2>3
<1>4. ASSUME NEW c \in Conn, Commit(c) PROVE TypeOK'
  <2>1. wallets' \in [User -> Row]
    BY <1>4 DEF Commit, TypeOK
  <2> QED
    BY <1>0, <1>4, <2>1 DEF Commit, Finish, TypeOK, Phases
<1>5. ASSUME NEW c \in Conn, Rollback(c) PROVE TypeOK'
  BY <1>0, <1>5 DEF Rollback, Finish, TypeOK, Phases
<1>6. ASSUME NEW c \in Conn, DetectDeadlock(c) \/ StatementFails(c) PROVE TypeOK'
  BY <1>6 DEF DetectDeadlock, StatementFails, TypeOK, Phases
<1>7. CASE UNCHANGED vars
  BY <1>7 DEF vars, TypeOK
<1> QED
  BY <1>1, <1>2, <1>3, <1>4, <1>5, <1>6, <1>7 DEF TNext, Step

-----------------------------------------------------------------------------
(* The other connections.                                                  *)

\* What a step of c leaves of another connection's transaction.
Untouched(d) ==
  /\ phase'[d] = phase[d] /\ txn'[d] = txn[d] /\ pos'[d] = pos[d]
  /\ read'[d] = read[d] /\ written'[d] = written[d]
  /\ \A u \in User : owner[u] = d => owner'[u] = d /\ wallets'[u] = wallets[u]

\* No step of c touches the transaction of d, nor a row that d has locked.
LEMMA Others ==
  ASSUME IInv, NEW c \in Conn, NEW d \in Conn, c # d,
         Step(c) \/ StatementFails(c) \/ \E t \in Txns : Begin(c, t)
  PROVE  Untouched(d)
<1> USE DEF IInv, TypeOK, Untouched
<1>1. ASSUME NEW t \in Txns, Begin(c, t) PROVE Untouched(d)
  BY <1>1 DEF Begin
<1>2. CASE SelectForUpdate(c)
  BY <1>2, RowIsUser, NoneAssumption DEF SelectForUpdate
<1>3. CASE UpdateRow(c)
  BY <1>3 DEF UpdateRow
<1>4. CASE Commit(c)
  <2>1. \A u \in RowSet(txn[c]) : owner[u] = c
    <3>1. \A i \in 1..Len(txn[c].rows) : owner[txn[c].rows[i]] = c
      <4>1. Shape(txn[c]) /\ pos[c] = Len(txn[c].rows) + 1
        BY <1>4, RowIsUser DEF Commit, ProgressOK
      <4>2. pos[c] - 1 = Len(txn[c].rows)
        BY <4>1 DEF Shape
      <4> QED
        BY <1>4, <4>2 DEF Commit, LockOK, Working
    <3> QED
      BY <3>1 DEF RowSet
  <2>2. \A u \in User : owner[u] = d => wallets'[u] = wallets[u]
    BY <1>4, <2>1 DEF Commit
  <2>3. \A u \in User : owner[u] = d => owner'[u] = d
    BY <1>4 DEF Commit, Finish
  <2> QED
    BY <1>4, <2>2, <2>3 DEF Commit, Finish
<1>5. CASE Rollback(c)
  BY <1>5 DEF Rollback, Finish
<1>6. CASE DetectDeadlock(c) \/ StatementFails(c)
  BY <1>6 DEF DetectDeadlock, StatementFails
<1> QED
  BY <1>1, <1>2, <1>3, <1>4, <1>5, <1>6 DEF Step

\* A transaction that is left alone keeps its part of the invariant.
LEMMA LeftAlone ==
  ASSUME IInv, NEW d \in Conn, Untouched(d)
  PROVE  ProgressOK(d)' /\ LockOK(d)' /\ StableOK(d)'
<1>1. ProgressOK(d) /\ LockOK(d) /\ StableOK(d)
  BY DEF IInv
<1>2. ProgressOK(d)'
  BY <1>1 DEF Untouched, ProgressOK
<1>3. Working(d) => \A i \in 1..(pos[d] - 1) : txn[d].rows[i] \in User
  <2> SUFFICES ASSUME Working(d), NEW i \in 1..(pos[d] - 1) PROVE txn[d].rows[i] \in User
    OBVIOUS
  <2>1. Shape(txn[d]) /\ pos[d] \in Nat /\ pos[d] <= Len(txn[d].rows) + 1
    <3>1. Shape(txn[d])
      BY RowIsUser DEF Working
    <3>2. pos[d] \in 1..3
      BY DEF IInv, TypeOK
    <3>3. Len(txn[d].rows) \in 1..2
      BY <3>1 DEF Shape
    <3>4. pos[d] <= Len(txn[d].rows) \/ pos[d] = Len(txn[d].rows) + 1
      BY <1>1 DEF Working, ProgressOK
    <3> QED
      BY <3>1, <3>2, <3>3, <3>4
  <2>2. i \in 1..Len(txn[d].rows)
    BY <2>1 DEF Shape
  <2> QED
    BY <2>1, <2>2 DEF Shape
<1>4. LockOK(d)'
  BY <1>1, <1>3, RowIsUser DEF Untouched, LockOK, Working, CurrentRow
<1>5. StableOK(d)'
  <2>1. phase'[d] = "update" => read'[d] = wallets'[txn'[d].rows[pos'[d]]]
    BY <1>1, RowIsUser, Zenon DEF Untouched, LockOK, StableOK, CurrentRow
  <2>2. ASSUME Working(d)', NEW i \in 1..(pos'[d] - 1)
        PROVE  written'[d][txn'[d].rows[i]] =
                 UpdatedRow(wallets'[txn'[d].rows[i]], txn'[d], txn'[d].rows[i])
    <3>1. Working(d) /\ i \in 1..(pos[d] - 1) /\ txn[d].rows[i] \in User
      BY <1>3, <2>2 DEF Untouched, Working
    <3>2. wallets'[txn[d].rows[i]] = wallets[txn[d].rows[i]]
      BY <1>1, <3>1 DEF Untouched, LockOK
    <3>3. written[d][txn[d].rows[i]] = UpdatedRow(wallets[txn[d].rows[i]], txn[d], txn[d].rows[i])
      BY <1>1, <3>1 DEF StableOK
    <3> QED
      BY <3>2, <3>3 DEF Untouched
  <2> QED
    BY <2>1, <2>2 DEF StableOK, CurrentRow
<1> QED
  BY <1>2, <1>4, <1>5

-----------------------------------------------------------------------------
(* The connection that takes the step.                                     *)

Own(c) == ProgressOK(c) /\ LockOK(c) /\ StableOK(c)

\* Reading the row under its lock.
LEMMA SelectOwn ==
  ASSUME IInv, NEW c \in Conn, SelectForUpdate(c)
  PROVE  Own(c)'
<1>1. /\ phase[c] = "select" /\ phase'[c] = "update" /\ CurrentRow(c)' = CurrentRow(c)
      /\ txn' = txn /\ pos' = pos /\ wallets' = wallets /\ written' = written
      /\ read'[c] = wallets[CurrentRow(c)] /\ owner[CurrentRow(c)] = None
      /\ owner' = [owner EXCEPT ![CurrentRow(c)] = c]
  BY DEF SelectForUpdate, CurrentRow, IInv, TypeOK
<1>2. CurrentRow(c) \in User
  BY <1>1, RowIsUser
<1>3. ProgressOK(c) /\ LockOK(c) /\ StableOK(c)
  BY DEF IInv
<1>4. ProgressOK(c)'
  BY <1>1, <1>3 DEF ProgressOK
<1>5. LockOK(c)'
  <2>1. \A i \in 1..(pos[c] - 1) : owner[txn[c].rows[i]] = c
    BY <1>1, <1>3 DEF LockOK, Working
  <2>2. owner'[CurrentRow(c)] = c
    BY <1>1, <1>2 DEF IInv, TypeOK
  <2>3. \A u : owner[u] = c => owner'[u] = c
    BY <1>1, <1>2, NoneAssumption DEF IInv, TypeOK
  <2> QED
    BY <1>1, <2>1, <2>2, <2>3 DEF LockOK, Working
<1>6. StableOK(c)'
  BY <1>1, <1>3 DEF StableOK, Working
<1> QED
  BY <1>4, <1>5, <1>6 DEF Own

\* Computing and writing the new values of the row.
LEMMA UpdateOwn ==
  ASSUME IInv, NEW c \in Conn, UpdateRow(c)
  PROVE  Own(c)'
<1> DEFINE u == CurrentRow(c)
           t == txn[c]
           new == UpdatedRow(read[c], t, u)
<1>1. /\ phase[c] = "update" /\ UNCHANGED <<wallets, txn, read, owner>>
      /\ t \in Txns /\ u \in User /\ Shape(t) /\ pos[c] \in 1..Len(t.rows) /\ pos[c] \in 1..2
  BY RowIsUser DEF UpdateRow, IInv, ProgressOK, Shape
<1>2. ProgressOK(c) /\ LockOK(c) /\ StableOK(c)
  BY DEF IInv
<1>3. CASE ~CheckConstraints(new)
  <2>1. phase'[c] = "rollback"
    BY <1>3 DEF UpdateRow, IInv, TypeOK
  <2> QED
    BY <1>1, <2>1 DEF Own, ProgressOK, LockOK, StableOK, Working
<1>4. CASE CheckConstraints(new)
  <2>1. /\ written' = [written EXCEPT ![c][u] = new]
        /\ pos'[c] = pos[c] + 1
        /\ phase'[c] = IF pos[c] = Len(t.rows) THEN "commit" ELSE "select"
    BY <1>4 DEF UpdateRow, IInv, TypeOK
  <2>2. /\ written'[c][u] = new
        /\ \A v \in User : v # u => written'[c][v] = written[c][v]
    <3> HIDE DEF new, u
    <3> QED
      BY <1>1, <2>1 DEF IInv, TypeOK
  <2>3. ProgressOK(c)'
    <3>1. phase'[c] \in {"commit", "select"}
      BY <2>1
    <3>2. pos[c] = Len(t.rows) \/ pos[c] + 1 <= Len(t.rows)
      BY <1>1 DEF Shape
    <3> QED
      BY <1>1, <2>1, <3>1, <3>2 DEF ProgressOK
  <2>4. LockOK(c)'
    <3>1. \A i \in 1..(pos[c] - 1) : owner[t.rows[i]] = c
      BY <1>1, <1>2 DEF LockOK, Working
    <3>2. owner[t.rows[pos[c]]] = c
      BY <1>1, <1>2 DEF LockOK, CurrentRow
    <3>3. 1..(pos'[c] - 1) = 1..(pos[c] - 1) \cup {pos[c]}
      BY <1>1, <2>1
    <3> QED
      BY <1>1, <2>1, <3>1, <3>2, <3>3 DEF LockOK
  <2>5. StableOK(c)'
    <3>1. ASSUME NEW i \in 1..(pos'[c] - 1)
          PROVE  written'[c][t.rows[i]] = UpdatedRow(wallets[t.rows[i]], t, t.rows[i])
      <4>1. CASE i = pos[c]
        <5>1. read[c] = wallets[u] /\ t.rows[i] = u
          BY <1>1, <1>2, <4>1 DEF StableOK, CurrentRow
        <5> QED
          BY <2>2, <5>1
      <4>2. CASE i # pos[c]
        <5>1. i \in 1..(pos[c] - 1) /\ i \in 1..Len(t.rows)
          BY <1>1, <2>1, <4>2 DEF Shape
        <5>2. t.rows[i] \in User /\ t.rows[i] # u
          BY <1>1, <4>2, <5>1 DEF Shape, CurrentRow
        <5>3. written[c][t.rows[i]] = UpdatedRow(wallets[t.rows[i]], t, t.rows[i])
          BY <1>1, <1>2, <5>1 DEF StableOK, Working
        <5> QED
          BY <2>2, <5>2, <5>3
      <4> QED
        BY <4>1, <4>2
    <3> QED
      BY <1>1, <2>1, <3>1 DEF StableOK
  <2> QED
    BY <2>3, <2>4, <2>5 DEF Own
<1> QED
  BY <1>3, <1>4

\* Beginning, failing and ending.
LEMMA OtherOwn ==
  ASSUME IInv, NEW c \in Conn,
         \/ \E t \in Txns : Begin(c, t)
         \/ Commit(c) \/ Rollback(c) \/ DetectDeadlock(c) \/ StatementFails(c)
  PROVE  Own(c)'
<1>1. ASSUME NEW t \in Txns, Begin(c, t) PROVE Own(c)'
  <2>1. phase'[c] = "select" /\ txn'[c] = t /\ pos'[c] = 1
    BY <1>1 DEF Begin, IInv, TypeOK, ProgressOK
  <2>2. 1 <= Len(t.rows) /\ 1..(pos'[c] - 1) = {}
    <3>1. Shape(t)
      BY TxnShape
    <3>2. Len(t.rows) \in 1..2
      BY <3>1 DEF Shape
    <3>3. 1 <= Len(t.rows)
      BY <3>2
    <3>4. 1..(pos'[c] - 1) = {}
      BY <2>1
    <3> QED
      BY <3>3, <3>4
  <2>3. ProgressOK(c)'
    BY <2>1, <2>2 DEF ProgressOK
  <2>4. LockOK(c)' /\ StableOK(c)'
    BY <2>1, <2>2 DEF LockOK, StableOK
  <2> QED
    BY <2>3, <2>4 DEF Own
<1>2. CASE Commit(c) \/ Rollback(c)
  <2>1. phase'[c] = "idle" /\ pos'[c] = 1
    BY <1>2 DEF Commit, Rollback, Finish, IInv, TypeOK
  <2> QED
    BY <2>1 DEF Own, ProgressOK, LockOK, StableOK, Working
<1>3. CASE DetectDeadlock(c) \/ StatementFails(c)
  <2>1. phase[c] # "idle"
    BY <1>3 DEF DetectDeadlock, StatementFails, Deadlocked, WaitsFor
  <2>2. phase'[c] = "rollback" /\ txn' = txn
    BY <1>3 DEF DetectDeadlock, StatementFails, IInv, TypeOK
  <2> QED
    BY <2>1, <2>2 DEF Own, ProgressOK, LockOK, StableOK, Working, IInv
<1> QED
  BY <1>1, <1>2, <1>3

\* Every step keeps the invariant.
LEMMA StepInv == IInv /\ [TNext]_vars => IInv'
<1> SUFFICES ASSUME IInv, [TNext]_vars PROVE IInv'
  OBVIOUS
<1>1. TypeOK'
  BY TypeStep
<1>2. ASSUME NEW c \in Conn,
             Step(c) \/ StatementFails(c) \/ \E t \in Txns : Begin(c, t)
      PROVE  \A d \in Conn : Own(d)'
  <2>1. Own(c)'
    BY <1>2, SelectOwn, UpdateOwn, OtherOwn DEF Step
  <2>2. \A d \in Conn : d # c => Own(d)'
    BY <1>2, Others, LeftAlone DEF Own
  <2> QED
    BY <2>1, <2>2
<1>3. CASE UNCHANGED vars
  BY <1>3 DEF vars, IInv, TypeOK, ProgressOK, LockOK, StableOK, Working, CurrentRow
<1> QED
  BY <1>1, <1>2, <1>3 DEF TNext, IInv, Own

-----------------------------------------------------------------------------
(* Refinement.                                                             *)

\* COMMIT applies the whole transaction to the table as it is now.
LEMMA CommitApplies ==
  ASSUME IInv, NEW c \in Conn, Commit(c)
  PROVE  txn[c] \in Txns /\ Apply(txn[c])
<1> DEFINE t == txn[c]
<1>1. /\ t \in Txns /\ Shape(t) /\ pos[c] = Len(t.rows) + 1 /\ phase[c] = "commit"
      /\ \A u \in User : wallets[u] \in Row /\ written[c][u] \in Row
  BY RowIsUser DEF Commit, IInv, ProgressOK, TypeOK
<1>2. ASSUME NEW u \in User
      PROVE  /\ wallets'[u] = UpdatedRow(wallets[u], t, u)
             /\ UpdatedRow(wallets[u], t, u) \in Row
  <2>1. CASE u \in RowSet(t)
    <3>1. PICK i \in 1..Len(t.rows) : u = t.rows[i]
      BY <2>1 DEF RowSet
    <3>2. i \in 1..(pos[c] - 1)
      BY <1>1 DEF Shape
    <3>3. written[c][u] = UpdatedRow(wallets[u], t, u)
      BY <1>1, <3>1, <3>2 DEF IInv, StableOK, Working
    <3>4. wallets'[u] = written[c][u]
      BY <2>1 DEF Commit
    <3> QED
      BY <1>1, <3>3, <3>4
  <2>2. CASE u \notin RowSet(t)
    <3>1. t.balance[u] = 0 /\ t.locked[u] = 0
      BY <1>1, <2>2 DEF Shape
    <3>2. UpdatedRow(wallets[u], t, u) = wallets[u]
      BY <1>1, <3>1, NumericAssumption DEF UpdatedRow, Row, Column
    <3>3. wallets'[u] = wallets[u]
      BY <2>2 DEF Commit
    <3> QED
      BY <1>1, <3>2, <3>3
  <2> QED
    BY <2>1, <2>2
<1>3. Allowed(wallets, t)
  BY <1>2 DEF Allowed, CheckConstraints, Row
<1>4. wallets' = Applied(wallets, t)
  <2>1. wallets' = [u \in User |-> wallets'[u]]
    BY DEF Commit
  <2> QED
    BY <1>2, <2>1 DEF Applied
<1> QED
  BY <1>1, <1>3, <1>4 DEF Apply

\* Every step of the row-level execution is a step or a stutter of the table.
LEMMA StepRefines == IInv /\ [TNext]_vars => [Next]_wallets
<1> SUFFICES ASSUME IInv, [TNext]_vars PROVE [Next]_wallets
  OBVIOUS
<1>1. ASSUME NEW c \in Conn, Commit(c) PROVE Next
  BY <1>1, CommitApplies DEF Next
<1>2. ASSUME NEW c \in Conn,
             \/ SelectForUpdate(c) \/ UpdateRow(c) \/ Rollback(c) \/ DetectDeadlock(c)
             \/ StatementFails(c) \/ \E t \in Txns : Begin(c, t)
      PROVE  UNCHANGED wallets
  BY <1>2 DEF SelectForUpdate, UpdateRow, Rollback, DetectDeadlock, StatementFails, Begin
<1> QED
  BY <1>1, <1>2 DEF TNext, Step, vars

\* What a connection read and computed stays right until it commits: for any
\* number of connections, lock orders, deadlocks and failing statements.
THEOREM RowsStable == TSpec => []RowsAreStable
<1>1. IInv => RowsAreStable
  BY DEF IInv, StableOK, RowsAreStable, Working
<1> QED
  BY <1>1, InitInv, StepInv, PTL DEF TSpec

\* No column of a committed row is ever negative or too large.
THEOREM TxnTypeCorrect == TSpec => []TypeOK
<1>1. IInv => TypeOK
  BY DEF IInv
<1> QED
  BY <1>1, InitInv, StepInv, PTL DEF TSpec

\* withTransaction with its row locks implements the atomic wallets table:
\* COMMIT is the transaction of Wallets, every other statement leaves the
\* table as it was.
THEOREM TxnImplementsTable == TSpec => Serializable
<1>1. TInit => Init
  BY DEF TInit
<1>2. TSpec => []IInv
  BY InitInv, StepInv, PTL DEF TSpec
<1> QED
  BY <1>1, <1>2, StepRefines, PTL DEF TSpec, Serializable, Spec
=============================================================================
