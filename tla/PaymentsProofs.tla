--------------------------- MODULE PaymentsProofs ---------------------------
(***************************************************************************)
(* Deposits and withdrawals for every set of payments, requests and        *)
(* failures: the idempotency check of deposits, the lookup of pending      *)
(* withdrawals, and the balances that both change.                         *)
(***************************************************************************)
EXTENDS Cashflow, SumProofs

\* A request is about a payment of some user.
LEMMA RequestTypes ==
  ASSUME NEW r \in Request
  PROVE  /\ about[r] \in Payment /\ payer[about[r]] \in User
         /\ amount[about[r]] \in Nat
BY PaymentAssumption DEF Request

\* A credit keeps the types of balances and ledger.
LEMMA CreditTypes ==
  ASSUME TypeOK, NEW r \in Request, CreditTxn(about[r])
  PROVE  balance' \in [User -> Nat] /\ credited' \in [Payment -> Nat]
BY RequestTypes DEF TypeOK, CreditTxn

\* One case per action.
LEMMA TypeStep == TypeOK /\ [Next]_vars => TypeOK'
<1> SUFFICES ASSUME TypeOK, [Next]_vars PROVE TypeOK'
  OBVIOUS
<1> USE PaymentAssumption
<1>1. ASSUME NEW p \in Payment, createOrder(p) \/ Pay(p) PROVE TypeOK'
  BY <1>1 DEF createOrder, Pay, TypeOK
<1>2. ASSUME NEW r \in Request, ReceiveVerify(r) PROVE TypeOK'
  BY <1>2 DEF ReceiveVerify, TypeOK
<1>3. ASSUME NEW r \in Request, ReceiveWebhook(r) PROVE TypeOK'
  BY <1>3 DEF ReceiveWebhook, TypeOK
<1>4. ASSUME NEW r \in Request, CheckCredited(r) PROVE TypeOK'
  BY <1>4 DEF CheckCredited, TypeOK
<1>5. ASSUME NEW r \in Request, Credit(r) PROVE TypeOK'
  <2>1. balance' \in [User -> Nat] /\ credited' \in [Payment -> Nat]
    BY <1>5, CreditTypes DEF Credit
  <2> QED
    BY <1>5, <2>1 DEF Credit, TypeOK
<1>6. ASSUME NEW r \in Request, CreditUnanswered(r) PROVE TypeOK'
  <2>1. balance' \in [User -> Nat] /\ credited' \in [Payment -> Nat]
    BY <1>6, CreditTypes DEF CreditUnanswered
  <2> QED
    BY <1>6, <2>1 DEF CreditUnanswered, TypeOK
<1>7. ASSUME NEW r \in Request, Fail(r) PROVE TypeOK'
  BY <1>7 DEF Fail, TypeOK
<1>8. CASE UNCHANGED vars
  BY <1>8 DEF vars, TypeOK
<1> QED
  BY <1>1, <1>2, <1>3, <1>4, <1>5, <1>6, <1>7, <1>8 DEF Next

\* Orders, balances, ledger and requests keep their types; in particular no
\* balance becomes negative.
THEOREM TypeCorrect == Spec => []TypeOK
<1>1. Init => TypeOK
  BY PaymentAssumption DEF Init, TypeOK
<1> QED
  BY <1>1, TypeStep, PTL DEF Spec

\* A request that is past its check, or comes to be, is not about a quiet
\* payment; no other step touches the ledger.
LEMMA QuietStep ==
  ASSUME TypeOK, [Next]_vars, NEW p \in Payment, Quiet(p)
  PROVE  Quiet(p)' /\ credited'[p] = credited[p]
<1> USE RequestTypes DEF TypeOK, Quiet
<1>1. ASSUME NEW q \in Payment, createOrder(q) \/ Pay(q)
      PROVE  Quiet(p)' /\ credited'[p] = credited[p]
  BY <1>1 DEF createOrder, Pay
<1>2. ASSUME NEW r \in Request, ReceiveVerify(r) \/ ReceiveWebhook(r) \/ Fail(r)
      PROVE  Quiet(p)' /\ credited'[p] = credited[p]
  BY <1>2 DEF ReceiveVerify, ReceiveWebhook, Fail
<1>3. ASSUME NEW r \in Request, CheckCredited(r)
      PROVE  Quiet(p)' /\ credited'[p] = credited[p]
  BY <1>3 DEF CheckCredited
<1>4. ASSUME NEW r \in Request, Credit(r) \/ CreditUnanswered(r)
      PROVE  Quiet(p)' /\ credited'[p] = credited[p]
  <2>1. about[r] # p
    BY <1>4 DEF Credit, CreditUnanswered
  <2>2. credited'[p] = credited[p]
    BY <1>4, <2>1 DEF Credit, CreditUnanswered, CreditTxn
  <2> QED
    BY <1>4, <2>1, <2>2 DEF Credit, CreditUnanswered
<1>5. CASE UNCHANGED vars
  BY <1>5 DEF vars
<1> QED
  BY <1>1, <1>2, <1>3, <1>4, <1>5 DEF Next

\* Once a payment is credited and no request for it is past its check, no
\* callback, retry or redelivery credits it again (paymentService.js:66-74,
\* 146-154), however many requests there are.
THEOREM LateDuplicatesAreIgnored == Spec => LateDuplicatesIgnored
<1>1. TypeOK /\ [Next]_vars
        => [\A p \in Payment : Quiet(p) => Quiet(p)' /\ credited'[p] = credited[p]]_vars
  BY QuietStep
<1> QED
  BY <1>1, TypeCorrect, PTL DEF Spec, LateDuplicatesIgnored

-----------------------------------------------------------------------------
(* Deposits and withdrawals side by side.                                  *)

\* A request that has not debited the wallet has no row.
RowInv == \A r \in Withdrawal : wstep[r] \in {"idle", "check", "debit"} => row[r] = "none"

CashInv == CashTypeOK /\ RowInv /\ LedgerMatches

\* A withdrawal is of a user with a wallet.
LEMMA WithdrawalTypes ==
  ASSUME NEW r \in Withdrawal
  PROVE  withdrawer[r] \in User /\ withdrawAmount[r] \in Nat
BY CashflowAssumption, PaymentAssumption

\* The actions of a withdrawal.
WithdrawStep(r) ==
  \/ W!Receive(r) \/ W!PendingCheck(r) \/ W!Debit(r) \/ W!Answer(r) \/ W!Fail(r)
  \/ W!Process(r)

\* Every step of the withdrawals is one of these.
LEMMA WithdrawNext == W!Next => \E r \in Withdrawal : WithdrawStep(r)
BY DEF W!Next, WithdrawStep

\* Both components start well typed.
LEMMA CashInitType == CashInit => CashTypeOK /\ RowInv
BY PaymentAssumption DEF CashInit, Init, TypeOK, W!Init, W!TypeOK, CashTypeOK, RowInv

\* A step of a withdrawal keeps the types; the debit is checked against the
\* balance of the locked row.
LEMMA WithdrawType ==
  ASSUME CashTypeOK, RowInv, NEW r \in Withdrawal, WithdrawStep(r),
         UNCHANGED <<order, credited, step>>
  PROVE  CashTypeOK' /\ RowInv'
<1> USE WithdrawalTypes, PaymentAssumption DEF CashTypeOK, TypeOK, W!TypeOK, RowInv
<1>1. CASE W!Receive(r)
  BY <1>1 DEF W!Receive
<1>2. CASE W!PendingCheck(r)
  BY <1>2 DEF W!PendingCheck
<1>3. CASE W!Debit(r)
  <2>1. CASE balance[withdrawer[r]] < withdrawAmount[r]
    BY <1>3, <2>1 DEF W!Debit
  <2>2. CASE ~(balance[withdrawer[r]] < withdrawAmount[r])
    <3>1. balance[withdrawer[r]] - withdrawAmount[r] \in Nat
      BY <2>2
    <3> QED
      BY <1>3, <2>2, <3>1 DEF W!Debit
  <2> QED
    BY <2>1, <2>2
<1>4. CASE W!Answer(r)
  BY <1>4 DEF W!Answer
<1>5. CASE W!Fail(r)
  BY <1>5 DEF W!Fail
<1>6. CASE W!Process(r)
  BY <1>6 DEF W!Process
<1> QED
  BY <1>1, <1>2, <1>3, <1>4, <1>5, <1>6 DEF WithdrawStep

\* Either component moves, or none.
LEMMA CashStepType == CashTypeOK /\ RowInv /\ [CashNext]_cashflow => CashTypeOK' /\ RowInv'
<1> SUFFICES ASSUME CashTypeOK, RowInv, [CashNext]_cashflow PROVE CashTypeOK' /\ RowInv'
  OBVIOUS
<1>1. CASE [Next]_vars /\ UNCHANGED <<row, wstep>>
  <2>1. TypeOK'
    BY <1>1, TypeStep DEF CashTypeOK
  <2> QED
    BY <1>1, <2>1 DEF CashTypeOK, TypeOK, W!TypeOK, RowInv
<1>2. CASE W!Next /\ UNCHANGED <<order, credited, step>>
  BY <1>2, WithdrawNext, WithdrawType
<1> QED
  BY <1>1, <1>2 DEF CashNext, cashflow, vars

\* Both components keep their types while they share the balances: no
\* interleaving of credits and debits makes a balance negative
\* (paymentService.js:77-115, routes/wallet.js:62-103).
THEOREM CashTypeCorrect == CashSpec => []CashTypeOK
BY CashInitType, CashStepType, PTL DEF CashSpec

\* The deposits of u, and the withdrawals of u that have a row.
Paid(u) == {p \in Payment : payer[p] = u}

Taken(u) == W!Rows(u, "PENDING") \cup W!Rows(u, "COMPLETED")

\* Both are finite, and hold numbers.
LEMMA LedgerTypes ==
  ASSUME CashTypeOK, NEW u \in User
  PROVE  /\ IsFiniteSet(Paid(u)) /\ IsFiniteSet(Taken(u))
         /\ \A p \in Paid(u) : Deposited[p] \in Int
         /\ \A r \in Withdrawal : withdrawAmount[r] \in Int
         /\ Taken(u) \subseteq Withdrawal
         /\ balance[u] \in Int
<1>1. Paid(u) \subseteq Payment /\ Taken(u) \subseteq Withdrawal
  BY DEF Paid, Taken, W!Rows
<1>2. IsFiniteSet(Paid(u)) /\ IsFiniteSet(Taken(u))
  BY <1>1, CashflowAssumption, FS_Subset
<1>3. ASSUME NEW p \in Paid(u) PROVE Deposited[p] \in Int
  BY PaymentAssumption DEF Paid, Deposited, CashTypeOK, TypeOK
<1>4. ASSUME NEW r \in Withdrawal PROVE withdrawAmount[r] \in Int
  BY WithdrawalTypes
<1>5. balance[u] \in Int
  BY DEF CashTypeOK, TypeOK
<1> QED
  BY <1>1, <1>2, <1>3, <1>4, <1>5

\* A step that changes no balance, ledger or row.
LEMMA LedgerStays ==
  ASSUME LedgerMatches, UNCHANGED <<balance, credited, row>>
  PROVE  LedgerMatches'
BY DEF LedgerMatches, Deposited, W!Rows

\* A credit adds the amount to the balance and a DEPOSIT row to the ledger.
LEMMA CreditLedger ==
  ASSUME CashTypeOK, CashTypeOK', LedgerMatches, NEW q \in Payment, CreditTxn(q),
         UNCHANGED row
  PROVE  LedgerMatches'
<1>1. CASE payer[q] \notin HasWallet
  BY <1>1, LedgerStays DEF CreditTxn
<1>2. CASE payer[q] \in HasWallet
  <2> SUFFICES ASSUME NEW u \in User
               PROVE  balance'[u] = SumFunctionOnSet(Deposited', Paid(u))
                                      - SumFunctionOnSet(withdrawAmount, Taken(u))
    BY DEF LedgerMatches, Paid, Taken, W!Rows
  <2> DEFINE f == Deposited
             g == Deposited'
  <2>1. balance[u] = SumFunctionOnSet(f, Paid(u)) - SumFunctionOnSet(withdrawAmount, Taken(u))
    BY DEF LedgerMatches, Paid, Taken
  <2>2. /\ SumFunctionOnSet(f, Paid(u)) \in Int
        /\ SumFunctionOnSet(withdrawAmount, Taken(u)) \in Int
    BY LedgerTypes, SumInt
  <2>3. /\ \A p \in Paid(u) : f[p] \in Int /\ g[p] \in Int
        /\ \A p \in Paid(u) \ {q} : f[p] = g[p]
    <3>1. \A p \in Paid(u) : g[p] \in Int
      BY PaymentAssumption DEF Paid, Deposited, CashTypeOK, TypeOK
    <3>2. \A p \in Paid(u) \ {q} : f[p] = g[p]
      BY <1>2 DEF CreditTxn, Deposited, CashTypeOK, TypeOK, Paid
    <3> QED
      BY <3>1, <3>2, LedgerTypes
  <2>4. g[q] - f[q] = amount[q] /\ amount[q] \in Int
    <3>1. credited'[q] = credited[q] + 1 /\ credited[q] \in Int /\ amount[q] \in Int
      BY <1>2, PaymentAssumption DEF CreditTxn, CashTypeOK, TypeOK
    <3>2. f[q] = credited[q] * amount[q] /\ g[q] = credited'[q] * amount[q]
      BY DEF Deposited
    <3>3. (credited[q] + 1) * amount[q] = credited[q] * amount[q] + amount[q]
      BY <3>1
    <3>4. credited[q] * amount[q] \in Int
      BY <3>1
    <3> HIDE DEF f, g
    <3> QED
      BY <3>1, <3>2, <3>3, <3>4
  <2> HIDE DEF f, g
  <2>5. CASE u = payer[q]
    <3>1. q \in Paid(u) /\ IsFiniteSet(Paid(u))
      BY <2>5, LedgerTypes, Zenon DEF Paid
    <3>2. SumFunctionOnSet(g, Paid(u)) = SumFunctionOnSet(f, Paid(u)) + (g[q] - f[q])
      BY <2>3, <3>1, SumChange
    <3>3. balance'[u] = balance[u] + amount[q]
      BY <1>2, <2>5 DEF CreditTxn, CashTypeOK, TypeOK
    <3> QED
      BY <2>1, <2>2, <2>4, <3>2, <3>3 DEF g
  <2>6. CASE u # payer[q]
    <3>1. \A p \in Paid(u) : f[p] = g[p]
      BY <2>3, <2>6 DEF Paid
    <3>2. SumFunctionOnSet(g, Paid(u)) = SumFunctionOnSet(f, Paid(u))
      BY <3>1, LedgerTypes, SumSame
    <3>3. balance'[u] = balance[u]
      BY <1>2, <2>6 DEF CreditTxn, CashTypeOK, TypeOK
    <3> QED
      BY <2>1, <3>2, <3>3 DEF g
  <2> QED
    BY <2>5, <2>6
<1> QED
  BY <1>1, <1>2

\* A debit takes the amount from the balance and adds the row of the request.
LEMMA DebitLedger ==
  ASSUME CashTypeOK, CashTypeOK', RowInv, LedgerMatches, NEW r \in Withdrawal, W!Debit(r),
         UNCHANGED credited
  PROVE  LedgerMatches'
<1>1. CASE balance[withdrawer[r]] < withdrawAmount[r]
  BY <1>1, LedgerStays DEF W!Debit
<1>2. CASE ~(balance[withdrawer[r]] < withdrawAmount[r])
  <2> SUFFICES ASSUME NEW u \in User
               PROVE  balance'[u] = SumFunctionOnSet(Deposited, Paid(u))
                                      - SumFunctionOnSet(withdrawAmount, Taken(u)')
    BY DEF LedgerMatches, Paid, Taken, Deposited
  <2>1. balance[u] = SumFunctionOnSet(Deposited, Paid(u)) - SumFunctionOnSet(withdrawAmount, Taken(u))
    BY DEF LedgerMatches, Paid, Taken
  <2>2. /\ SumFunctionOnSet(Deposited, Paid(u)) \in Int
        /\ SumFunctionOnSet(withdrawAmount, Taken(u)) \in Int
    BY LedgerTypes, SumInt
  <2>3. /\ row' = [row EXCEPT ![r] = "PENDING"] /\ row[r] = "none"
        /\ balance' = [balance EXCEPT ![withdrawer[r]] = balance[withdrawer[r]] - withdrawAmount[r]]
    BY <1>2 DEF W!Debit, RowInv
  <2>4. CASE u = withdrawer[r]
    <3>1. Taken(u)' = Taken(u) \cup {r} /\ r \notin Taken(u)
      BY <2>3, <2>4 DEF Taken, W!Rows, CashTypeOK, W!TypeOK
    <3>2. SumFunctionOnSet(withdrawAmount, Taken(u) \cup {r})
            = SumFunctionOnSet(withdrawAmount, Taken(u)) + withdrawAmount[r]
      BY <3>1, LedgerTypes, SumAdd
    <3>3. balance'[u] = balance[u] - withdrawAmount[r] /\ withdrawAmount[r] \in Int
      BY <2>3, <2>4, WithdrawalTypes DEF CashTypeOK, TypeOK
    <3> QED
      BY <2>1, <2>2, <3>1, <3>2, <3>3
  <2>5. CASE u # withdrawer[r]
    <3>1. Taken(u)' = Taken(u)
      BY <2>3, <2>5 DEF Taken, W!Rows, CashTypeOK, W!TypeOK
    <3>2. balance'[u] = balance[u]
      BY <2>3, <2>5 DEF CashTypeOK, TypeOK
    <3> QED
      BY <2>1, <3>1, <3>2
  <2> QED
    BY <2>4, <2>5
<1> QED
  BY <1>1, <1>2

\* The payout of a pending withdrawal changes the state of its row only.
LEMMA ProcessLedger ==
  ASSUME CashTypeOK, LedgerMatches, NEW r \in Withdrawal, W!Process(r), UNCHANGED credited
  PROVE  LedgerMatches'
<1>1. \A u \in User : Taken(u)' = Taken(u)
  BY DEF W!Process, Taken, W!Rows, CashTypeOK, W!TypeOK
<1> QED
  BY <1>1 DEF LedgerMatches, Taken, W!Process, Deposited

\* Credits and debits change the ledger, and nothing else does.
LEMMA CashStepLedger == CashInv /\ [CashNext]_cashflow => CashInv'
<1> SUFFICES ASSUME CashInv, [CashNext]_cashflow PROVE LedgerMatches'
  BY CashStepType DEF CashInv
<1>0. CashTypeOK /\ RowInv /\ LedgerMatches /\ CashTypeOK'
  BY CashStepType DEF CashInv
<1>1. ASSUME NEW p \in Payment, createOrder(p) \/ Pay(p), UNCHANGED <<row, wstep>>
      PROVE  LedgerMatches'
  BY <1>0, <1>1, LedgerStays DEF createOrder, Pay
<1>2. ASSUME NEW r \in Request, UNCHANGED <<row, wstep>>,
             ReceiveVerify(r) \/ ReceiveWebhook(r) \/ CheckCredited(r) \/ Fail(r)
      PROVE  LedgerMatches'
  BY <1>0, <1>2, LedgerStays DEF ReceiveVerify, ReceiveWebhook, CheckCredited, Fail
<1>3. ASSUME NEW r \in Request, UNCHANGED <<row, wstep>>, Credit(r) \/ CreditUnanswered(r)
      PROVE  LedgerMatches'
  <2>1. about[r] \in Payment /\ CreditTxn(about[r])
    BY <1>3, RequestTypes DEF Credit, CreditUnanswered
  <2> QED
    BY <1>0, <1>3, <2>1, CreditLedger
<1>4. ASSUME NEW r \in Withdrawal, WithdrawStep(r), UNCHANGED <<order, credited, step>>
      PROVE  LedgerMatches'
  <2>1. CASE W!Debit(r)
    BY <1>0, <1>4, <2>1, DebitLedger
  <2>2. CASE W!Process(r)
    BY <1>0, <1>4, <2>2, ProcessLedger
  <2>3. CASE W!Receive(r) \/ W!PendingCheck(r) \/ W!Answer(r) \/ W!Fail(r)
    BY <1>0, <1>4, <2>3, LedgerStays DEF W!Receive, W!PendingCheck, W!Answer, W!Fail
  <2> QED
    BY <1>4, <2>1, <2>2, <2>3 DEF WithdrawStep
<1>5. CASE UNCHANGED cashflow
  BY <1>0, <1>5, LedgerStays DEF cashflow, vars
<1> QED
  BY <1>1, <1>2, <1>3, <1>4, <1>5, WithdrawNext DEF CashNext, Next

\* No deposit and no withdrawal at first.
LEMMA CashInitLedger == CashInit => LedgerMatches
<1> SUFFICES ASSUME CashInit, NEW u \in User
             PROVE  balance[u] = SumFunctionOnSet(Deposited, Paid(u))
                                   - SumFunctionOnSet(withdrawAmount, Taken(u))
  BY DEF LedgerMatches, Paid, Taken
<1>1. Taken(u) = {} /\ balance[u] = 0
  BY DEF CashInit, Init, W!Init, Taken, W!Rows
<1>2. \A p \in Paid(u) : Deposited[p] = 0
  BY PaymentAssumption DEF Paid, Deposited, CashInit, Init
<1>3. SumFunctionOnSet(Deposited, Paid(u)) = 0
  BY <1>2, CashInitType, LedgerTypes, SumZero
<1>4. SumFunctionOnSet(withdrawAmount, {}) = 0
  BY SumEmpty
<1> QED
  BY <1>1, <1>3, <1>4

\* Every balance is the sum of the user's DEPOSIT rows less the sum of the
\* user's withdrawals, at every step of every interleaving of client
\* callbacks, webhooks, withdrawals and failures, and also when a payment is
\* credited twice (paymentService.js:77-115, 158-179, routes/wallet.js:62-103).
THEOREM LedgersMatch == CashSpec => []LedgerMatches
<1>1. CashInit => CashInv
  BY CashInitType, CashInitLedger DEF CashInv
<1>2. CashInv => LedgerMatches
  BY DEF CashInv
<1> QED
  BY <1>1, <1>2, CashStepLedger, PTL DEF CashSpec

\* The withdrawals leave what Quiet is about alone.
LEMMA CashQuiet ==
  ASSUME CashTypeOK, [CashNext]_cashflow, NEW p \in Payment, Quiet(p)
  PROVE  Quiet(p)' /\ credited'[p] = credited[p]
<1>1. CASE [Next]_vars
  BY <1>1, QuietStep DEF CashTypeOK
<1>2. CASE UNCHANGED <<order, credited, step>>
  BY <1>2 DEF Quiet
<1> QED
  BY <1>1, <1>2 DEF CashNext, cashflow, vars

\* The same when the wallets are also debited and failures are shared.
THEOREM CashDuplicatesIgnored == CashSpec => LateDuplicatesIgnored
<1>1. CashTypeOK /\ [CashNext]_cashflow
        => [\A p \in Payment : Quiet(p) => Quiet(p)' /\ credited'[p] = credited[p]]_vars
  BY CashQuiet
<1> QED
  BY <1>1, CashTypeCorrect, PTL DEF CashSpec, LateDuplicatesIgnored

\* While u has a pending withdrawal and no request past its lookup, every
\* lookup of u finds it, so that none gets past.
LEMMA RefusedStep ==
  ASSUME CashTypeOK, [CashNext]_cashflow, NEW u \in User,
         W!Rows(u, "PENDING") # {}, W!Settled(u)
  PROVE  W!Settled(u)' /\ W!Rows(u, "PENDING")' \subseteq W!Rows(u, "PENDING")
<1>1. CASE UNCHANGED <<row, wstep>>
  BY <1>1 DEF W!Settled, W!Rows
<1>2. ASSUME NEW r \in Withdrawal, WithdrawStep(r)
      PROVE  W!Settled(u)' /\ W!Rows(u, "PENDING")' \subseteq W!Rows(u, "PENDING")
  <2> USE DEF CashTypeOK, W!TypeOK, W!Settled, W!Rows
  <2>1. CASE W!Receive(r) \/ W!Answer(r) \/ W!Fail(r)
    BY <2>1 DEF W!Receive, W!Answer, W!Fail
  <2>2. CASE W!PendingCheck(r)
    BY <2>2 DEF W!PendingCheck
  <2>3. CASE W!Debit(r)
    BY <2>3 DEF W!Debit
  <2>4. CASE W!Process(r)
    BY <2>4 DEF W!Process
  <2> QED
    BY <1>2, <2>1, <2>2, <2>3, <2>4 DEF WithdrawStep
<1> QED
  BY <1>1, <1>2, WithdrawNext DEF CashNext, cashflow, vars

\* A withdrawal repeated while one is pending, by a client that was told of a
\* failure after the commit, is refused (routes/wallet.js:54-60), however many
\* requests there are.
THEOREM RepeatsAreRefused == CashSpec => RepeatIsRefused
<1>1. CashTypeOK /\ [CashNext]_cashflow
        => [\A u \in User :
              W!Rows(u, "PENDING") # {} /\ W!Settled(u) =>
                W!Settled(u)' /\ W!Rows(u, "PENDING")' \subseteq W!Rows(u, "PENDING")]_(W!vars)
  BY RefusedStep
<1> QED
  BY <1>1, CashTypeCorrect, PTL DEF CashSpec, RepeatIsRefused, W!RepeatIsRefused

=============================================================================
