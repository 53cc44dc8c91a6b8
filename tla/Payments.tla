------------------------------ MODULE Payments ------------------------------
(***************************************************************************)
(* Deposits through Razorpay: an order is created, the user pays it, and   *)
(* the payment is credited to the wallet by verifyAndCreditWallet (called  *)
(* by the client after the checkout) or by handleWebhook (called by        *)
(* Razorpay, again and again until it is answered).  Both first look for a *)
(* transaction that mentions the payment, and credit the wallet in a       *)
(* database transaction of its own, two awaits later.                      *)
(***************************************************************************)
EXTENDS Integers, FiniteSets

CONSTANTS
  User,        \* users
  HasWallet,   \* users whose wallet row exists
  Payment,     \* payments, one per order
  payer,       \* [Payment -> User]
  amount,      \* [Payment -> Nat], rupees
  Noted,       \* payments whose notes carry the userId
  Verify,      \* client requests, each for one payment
  Webhook,     \* webhook deliveries, each for one payment
  about,       \* [Verify \cup Webhook -> Payment]
  MaxFailures  \* how many credit transactions may fail

ASSUME PaymentAssumption ==
  /\ HasWallet \subseteq User /\ Noted \subseteq Payment
  /\ payer \in [Payment -> User] /\ amount \in [Payment -> Nat]
  /\ Verify \cap Webhook = {}
  /\ about \in [Verify \cup Webhook -> Payment]
  /\ MaxFailures \in Nat

Request == Verify \cup Webhook

VARIABLES
  order,     \* order[p]: "none", "created" or "paid"
  balance,   \* balance[u]: wallets.balance
  credited,  \* credited[p]: number of DEPOSIT rows that mention payment p
  step,      \* step[r]: "idle", "check", "credit", "answered" or "failed"
  failures

vars == <<order, balance, credited, step, failures>>

Init ==
  /\ order = [p \in Payment |-> "none"]
  /\ balance = [u \in User |-> 0]
  /\ credited = [p \in Payment |-> 0]
  /\ step = [r \in Request |-> "idle"]
  /\ failures = 0

\* Minimum and maximum deposit.
createOrder(p) ==
  /\ order[p] = "none" /\ amount[p] >= 10 /\ amount[p] <= 10000
  /\ order' = [order EXCEPT ![p] = "created"]
  /\ UNCHANGED <<balance, credited, step, failures>>

\* The user completes the checkout.
Pay(p) ==
  /\ order[p] = "created"
  /\ order' = [order EXCEPT ![p] = "paid"]
  /\ UNCHANGED <<balance, credited, step, failures>>

\* A request with a valid signature, which exists once the order is paid.
\* verifyAndCreditWallet also fetches the order here.
ReceiveVerify(r) ==
  /\ r \in Verify /\ step[r] = "idle" /\ order[about[r]] = "paid"
  /\ step' = [step EXCEPT ![r] = "check"]
  /\ UNCHANGED <<order, balance, credited, failures>>

\* payment.captured.  Without a userId the event is only acknowledged.
ReceiveWebhook(r) ==
  /\ r \in Webhook /\ step[r] \in {"idle", "failed"} /\ order[about[r]] = "paid"
  /\ step' = [step EXCEPT ![r] = IF about[r] \in Noted THEN "check" ELSE "answered"]
  /\ UNCHANGED <<order, balance, credited, failures>>

\* Mutant: the lookup misses the rows that the other path wrote.
CheckNothing(r) ==
  /\ step[r] = "check"
  /\ step' = [step EXCEPT ![r] = "credit"]
  /\ UNCHANGED <<order, balance, credited, failures>>

\* Mutant: a payment that a client is verifying counts as credited.
CheckReceived(r) ==
  LET taken == \E v \in Verify \ {r} : about[v] = about[r] /\ step[v] # "idle" IN
  /\ step[r] = "check"
  /\ step' = [step EXCEPT ![r] = IF credited[about[r]] > 0 \/ taken THEN "answered" ELSE "credit"]
  /\ UNCHANGED <<order, balance, credited, failures>>

\* The idempotency check, outside the transaction that follows.
CheckCredited(r) ==
  /\ step[r] = "check"
  /\ step' = [step EXCEPT ![r] = IF credited[about[r]] > 0 THEN "answered" ELSE "credit"]
  /\ UNCHANGED <<order, balance, credited, failures>>

\* Mutant: the wallet is updated but no transaction row is written when the
\* user already has a balance.
CreditWithoutRow(p) ==
  /\ balance' = [balance EXCEPT ![payer[p]] = balance[payer[p]] + amount[p]]
  /\ credited' = [credited EXCEPT ![p] = credited[p] + IF balance[payer[p]] = 0 THEN 1 ELSE 0]

\* The transaction: the wallet row and the DEPOSIT row.  Without a wallet the
\* client gets 404, and the webhook is acknowledged with nothing credited.
CreditTxn(p) ==
  IF payer[p] \in HasWallet
    THEN /\ balance' = [balance EXCEPT ![payer[p]] = balance[payer[p]] + amount[p]]
         /\ credited' = [credited EXCEPT ![p] = credited[p] + 1]
    ELSE UNCHANGED <<balance, credited>>

Credit(r) ==
  /\ step[r] = "credit"
  /\ CreditTxn(about[r])
  /\ step' = [step EXCEPT ![r] = "answered"]
  /\ UNCHANGED <<order, failures>>

\* The transaction commits but its answer is lost: the sender sees a failure.
CreditUnanswered(r) ==
  /\ step[r] = "credit" /\ failures < MaxFailures
  /\ CreditTxn(about[r])
  /\ step' = [step EXCEPT ![r] = "failed"]
  /\ failures' = failures + 1
  /\ UNCHANGED order

\* A statement fails, or the process dies: the transaction is rolled back
\* and the request answered with an error, or not at all.
Fail(r) ==
  /\ step[r] \in {"check", "credit"} /\ failures < MaxFailures
  /\ failures' = failures + 1
  /\ step' = [step EXCEPT ![r] = "failed"]
  /\ UNCHANGED <<order, balance, credited>>

Next ==
  \/ \E p \in Payment : createOrder(p) \/ Pay(p)
  \/ \E r \in Request :
       \/ ReceiveVerify(r) \/ ReceiveWebhook(r)
       \/ CheckCredited(r) \/ Credit(r) \/ CreditUnanswered(r) \/ Fail(r)

\* Razorpay delivers every event until it is acknowledged; clients may stop
\* at any time.
Fairness ==
  \A r \in Webhook :
    WF_vars(ReceiveWebhook(r)) /\ WF_vars(CheckCredited(r)) /\ WF_vars(Credit(r))

Spec == Init /\ [][Next]_vars /\ Fairness

-----------------------------------------------------------------------------
(* Properties.                                                             *)

\* Types of orders, balances and requests.
TypeOK ==
  /\ order \in [Payment -> {"none", "created", "paid"}]
  /\ balance \in [User -> Nat]
  /\ credited \in [Payment -> Nat]
  /\ step \in [Request -> {"idle", "check", "credit", "answered", "failed"}]
  /\ failures \in 0..MaxFailures

\* "Check this payment hasn't been credited before (idempotency)"
\* (paymentService.js:65): a payment is credited at most once.
CreditedOnce == \A p \in Payment : credited[p] <= 1

\* Payment p is credited and no request for it is past its check.
Quiet(p) ==
  credited[p] > 0 /\ \A r \in Request : about[r] = p => step[r] # "credit"

\* What the check does achieve: once a payment is credited and no request is
\* between its check and its transaction, no late callback, retry or
\* redelivery ever credits it again (paymentService.js:66-74, 146-154).
LateDuplicatesIgnored ==
  [][\A p \in Payment : Quiet(p) => Quiet(p)' /\ credited'[p] = credited[p]]_vars

\* "Backup to verifyAndCreditWallet in case frontend fails"
\* (paymentService.js:120): a paid order whose payment names a user with a
\* wallet is credited in the end, whatever fails on the way.
PaidIsCredited ==
  \A p \in Payment :
    p \in Noted /\ payer[p] \in HasWallet /\ (\E r \in Webhook : about[r] = p)
      => (order[p] = "paid" ~> credited[p] > 0)

=============================================================================
