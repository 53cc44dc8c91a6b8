---------------------------- MODULE Withdrawals ----------------------------
(***************************************************************************)
(* POST /wallet/withdraw.  A request looks for a pending withdrawal of its *)
(* user, and then debits the wallet and inserts the withdrawal in one      *)
(* database transaction; the e-mail address is read after the commit, and  *)
(* a failure there is reported to the client like any other.               *)
(* Pending withdrawals are paid out by hand, outside this code.            *)
(***************************************************************************)
EXTENDS Integers, FiniteSets

CONSTANTS
  User,       \* users, each with a wallet
  Opening,    \* [User -> Nat], the balances at the start
  Request,    \* requests, each of one user for one amount
  requester,  \* [Request -> User]
  amount,     \* [Request -> Nat]
  MaxFaults   \* how many statements may fail

VARIABLES
  balance,  \* balance[u]: wallets.balance
  row,      \* row[r]: "none", "PENDING" or "COMPLETED", the withdrawals row
  step,     \* step[r]: "idle", "check", "debit", "email", "ok" or "error"
  faults

vars == <<balance, row, step, faults>>

Init ==
  /\ balance = Opening
  /\ row = [r \in Request |-> "none"]
  /\ step = [r \in Request |-> "idle"]
  /\ faults = 0

\* The rows of user u that are in state s.
Rows(u, s) == {r \in Request : requester[r] = u /\ row[r] = s}

\* The validations of the request body.
Receive(r) ==
  /\ step[r] = "idle"
  /\ step' = [step EXCEPT ![r] =
                IF amount[r] < 50 \/ amount[r] > 50000 THEN "error" ELSE "check"]
  /\ UNCHANGED <<balance, row, faults>>

\* Mutant: the pending withdrawals are not looked up.
CheckSkipped(r) ==
  /\ step[r] = "check"
  /\ step' = [step EXCEPT ![r] = "debit"]
  /\ UNCHANGED <<balance, row, faults>>

\* The lookup, outside the transaction that follows.
PendingCheck(r) ==
  /\ step[r] = "check"
  /\ step' = [step EXCEPT ![r] =
                IF Rows(requester[r], "PENDING") # {} THEN "error" ELSE "debit"]
  /\ UNCHANGED <<balance, row, faults>>

\* Mutant: the balance is not checked.
DebitUnchecked(r) ==
  /\ step[r] = "debit"
  /\ balance' = [balance EXCEPT ![requester[r]] = @ - amount[r]]
  /\ row' = [row EXCEPT ![r] = "PENDING"]
  /\ step' = [step EXCEPT ![r] = "email"]
  /\ UNCHANGED faults

\* The transaction: the wallet row is locked, so that balance is current.
Debit(r) ==
  LET u == requester[r] IN
  /\ step[r] = "debit"
  /\ IF balance[u] < amount[r]
       THEN /\ step' = [step EXCEPT ![r] = "error"]
            /\ UNCHANGED <<balance, row>>
       ELSE /\ balance' = [balance EXCEPT ![u] = balance[u] - amount[r]]
            /\ row' = [row EXCEPT ![r] = "PENDING"]
            /\ step' = [step EXCEPT ![r] = "email"]
  /\ UNCHANGED faults

\* The address is read, the e-mail sent in the background, and the request
\* answered.
Answer(r) ==
  /\ step[r] = "email"
  /\ step' = [step EXCEPT ![r] = "ok"]
  /\ UNCHANGED <<balance, row, faults>>

\* A statement fails: whatever was not committed is rolled back.
Fail(r) ==
  /\ step[r] \in {"check", "debit", "email"} /\ faults < MaxFaults
  /\ faults' = faults + 1
  /\ step' = [step EXCEPT ![r] = "error"]
  /\ UNCHANGED <<balance, row>>

\* The payout, done by an operator.
Process(r) ==
  /\ row[r] = "PENDING"
  /\ row' = [row EXCEPT ![r] = "COMPLETED"]
  /\ UNCHANGED <<balance, step, faults>>

Next ==
  \E r \in Request :
    \/ Receive(r) \/ PendingCheck(r) \/ Debit(r) \/ Answer(r) \/ Fail(r)
    \/ Process(r)

Spec == Init /\ [][Next]_vars

-----------------------------------------------------------------------------
(* Properties.                                                             *)

\* Types; the balance never becomes negative.
TypeOK ==
  /\ balance \in [User -> Nat]
  /\ row \in [Request -> {"none", "PENDING", "COMPLETED"}]
  /\ step \in [Request -> {"idle", "check", "debit", "email", "ok", "error"}]
  /\ faults \in 0..MaxFaults

\* No request of u is past its lookup.
Settled(u) == \A r \in Request : requester[r] = u => step[r] # "debit"

\* What the lookup does achieve: while a withdrawal of u is pending and no
\* request of u is past its lookup, no new withdrawal of u appears; a client
\* that repeats a request answered with an error after its commit is refused
\* (routes/wallet.js:54-60).
RepeatIsRefused ==
  [][\A u \in User :
       Rows(u, "PENDING") # {} /\ Settled(u) =>
         Settled(u)' /\ Rows(u, "PENDING")' \subseteq Rows(u, "PENDING")]_vars

=============================================================================
