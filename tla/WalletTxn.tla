----------------------------- MODULE WalletTxn -----------------------------
(***************************************************************************)
(* The money transactions as PostgreSQL executes them: withTransaction     *)
(* takes a connection, BEGINs, and for each row of the transaction waits   *)
(* for the row lock (SELECT ... FOR UPDATE), computes the new values in    *)
(* JavaScript and UPDATEs the row with these absolute values; COMMIT makes *)
(* all of them visible and releases the locks, ROLLBACK only releases.     *)
(*                                                                         *)
(* The rows of two transactions are locked in different orders (queue      *)
(* order, loser first, playerA first), so transactions can deadlock; the   *)
(* server then aborts a transaction of the cycle.                          *)
(***************************************************************************)
EXTENDS Wallets

CONSTANTS
  Conn,    \* connections of the pool
  None     \* no connection, or no transaction

ASSUME NoneAssumption == None \notin Conn /\ None \notin Txns

VARIABLES
  txn,     \* txn[c]: the transaction connection c runs, or None
  phase,   \* phase[c]: the statement c executes next
  pos,     \* pos[c]: index of the row c is working on
  read,    \* read[c]: the row as the last SELECT of c returned it
  written, \* written[c]: rows as updated by c and not yet committed
  owner    \* owner[u]: the connection that holds the lock of u's row

vars == <<wallets, txn, phase, pos, read, written, owner>>

Phases == {"idle", "select", "update", "commit", "rollback"}

CurrentRow(c) == txn[c].rows[pos[c]]

RowSet(t) == {t.rows[i] : i \in 1..Len(t.rows)}

EmptyRow == [balance |-> 0, locked |-> 0]

TInit ==
  /\ Init
  /\ txn = [c \in Conn |-> None]
  /\ phase = [c \in Conn |-> "idle"]
  /\ pos = [c \in Conn |-> 1]
  /\ read = [c \in Conn |-> EmptyRow]
  /\ written = [c \in Conn |-> [u \in User |-> EmptyRow]]
  /\ owner = [u \in User |-> None]

\* BEGIN, on a free connection.
Begin(c, t) ==
  /\ phase[c] = "idle"
  /\ txn' = [txn EXCEPT ![c] = t]
  /\ phase' = [phase EXCEPT ![c] = "select"]
  /\ UNCHANGED <<wallets, pos, read, written, owner>>

\* Mutant: the SELECT without FOR UPDATE does not wait for the lock.
SelectWithoutLock(c) ==
  /\ phase[c] = "select"
  /\ owner' = [owner EXCEPT ![CurrentRow(c)] = c]
  /\ read' = [read EXCEPT ![c] = wallets[CurrentRow(c)]]
  /\ phase' = [phase EXCEPT ![c] = "update"]
  /\ UNCHANGED <<wallets, txn, pos, written>>

\* SELECT ... FOR UPDATE returns once the lock is free, with the row as
\* committed by then.
SelectForUpdate(c) ==
  /\ phase[c] = "select"
  /\ owner[CurrentRow(c)] = None
  /\ owner' = [owner EXCEPT ![CurrentRow(c)] = c]
  /\ read' = [read EXCEPT ![c] = wallets[CurrentRow(c)]]
  /\ phase' = [phase EXCEPT ![c] = "update"]
  /\ UNCHANGED <<wallets, txn, pos, written>>

\* The new values are computed from the row read.  The code throws, or the
\* UPDATE fails a CHECK constraint, when one of them is negative.
UpdateRow(c) ==
  LET new == UpdatedRow(read[c], txn[c], CurrentRow(c)) IN
  /\ phase[c] = "update"
  /\ \/ /\ CheckConstraints(new)
        /\ written' = [written EXCEPT ![c][CurrentRow(c)] = new]
        /\ pos' = [pos EXCEPT ![c] = pos[c] + 1]
        /\ phase' = [phase EXCEPT ![c] =
                       IF pos[c] = Len(txn[c].rows) THEN "commit" ELSE "select"]
     \/ /\ ~CheckConstraints(new)
        /\ phase' = [phase EXCEPT ![c] = "rollback"]
        /\ UNCHANGED <<written, pos>>
  /\ UNCHANGED <<wallets, txn, read, owner>>

\* The end of withTransaction: the locks are released and the connection
\* returns to the pool.
Finish(c) ==
  /\ owner' = [u \in User |-> IF owner[u] = c THEN None ELSE owner[u]]
  /\ phase' = [phase EXCEPT ![c] = "idle"]
  /\ txn' = [txn EXCEPT ![c] = None]
  /\ pos' = [pos EXCEPT ![c] = 1]
  /\ read' = [read EXCEPT ![c] = EmptyRow]
  /\ written' = [written EXCEPT ![c] = [u \in User |-> EmptyRow]]

Commit(c) ==
  /\ phase[c] = "commit"
  /\ wallets' = [u \in User |-> IF u \in RowSet(txn[c])
                              THEN written[c][u] ELSE wallets[u]]
  /\ Finish(c)

\* Mutant: the connection goes back to the pool without a ROLLBACK, its
\* transaction still open and its row locks held.
ReleaseWithoutRollback(c) ==
  /\ phase[c] = "rollback"
  /\ phase' = [phase EXCEPT ![c] = "idle"]
  /\ txn' = [txn EXCEPT ![c] = None]
  /\ pos' = [pos EXCEPT ![c] = 1]
  /\ UNCHANGED <<wallets, read, written, owner>>

Rollback(c) ==
  /\ phase[c] = "rollback"
  /\ UNCHANGED wallets
  /\ Finish(c)

-----------------------------------------------------------------------------
(* PostgreSQL.                                                             *)

WaitsFor(c, d) == phase[c] = "select" /\ d # c /\ owner[CurrentRow(c)] = d

\* A set of transactions that form cycles of the waits-for relation.
Deadlocked(S) ==
  \A c \in S : (\E d \in S : WaitsFor(c, d)) /\ (\E d \in S : WaitsFor(d, c))

\* The deadlock detector fails the statement of one transaction of a cycle.
DetectDeadlock(c) ==
  /\ \E S \in SUBSET Conn : c \in S /\ Deadlocked(S)
  /\ phase' = [phase EXCEPT ![c] = "rollback"]
  /\ UNCHANGED <<wallets, txn, pos, read, written, owner>>

\* Any other failure of a statement before COMMIT takes effect.
StatementFails(c) ==
  /\ phase[c] \in {"select", "update", "commit"}
  /\ phase' = [phase EXCEPT ![c] = "rollback"]
  /\ UNCHANGED <<wallets, txn, pos, read, written, owner>>

-----------------------------------------------------------------------------
Step(c) ==
  \/ SelectForUpdate(c)
  \/ UpdateRow(c)
  \/ Commit(c)
  \/ Rollback(c)
  \/ DetectDeadlock(c)

TNext ==
  \E c \in Conn : Step(c) \/ StatementFails(c) \/ \E t \in Txns : Begin(c, t)

\* The server grants a row lock to its waiters in turn, hence the strong
\* fairness of SelectForUpdate; Node.js runs the continuation of every
\* statement that has returned.
Fairness ==
  \A c \in Conn : SF_vars(SelectForUpdate(c)) /\ WF_vars(Step(c))

TSpec == TInit /\ [][TNext]_vars /\ Fairness

-----------------------------------------------------------------------------
(* Properties.                                                             *)

\* Type correctness: in particular no committed column is ever negative,
\* the CHECK constraints of the wallets table.
TypeOK ==
  /\ wallets \in [User -> Row]
  /\ txn \in [Conn -> Txns \cup {None}]
  /\ phase \in [Conn -> Phases]
  /\ pos \in [Conn -> 1..3]
  /\ read \in [Conn -> Row]
  /\ written \in [Conn -> [User -> Row]]
  /\ owner \in [User -> Conn \cup {None}]

\* The comment "Lock the row to prevent race conditions" (walletService.js:27):
\* the values a transaction computed from its reads are still right for
\* every row it holds, whatever other connections did since the SELECT.
RowsAreStable ==
  \A c \in Conn :
    /\ phase[c] = "update" => read[c] = wallets[CurrentRow(c)]
    /\ phase[c] \in {"select", "update", "commit"} =>
         \A i \in 1..(pos[c] - 1) :
           LET u == txn[c].rows[i] IN
           written[c][u] = UpdatedRow(wallets[u], txn[c], u)

\* Row-level execution implements the atomic table of module Wallets: no
\* update is lost, and no half of a transaction is ever visible.
Serializable == Spec

\* Every transaction ends: lock waits and deadlocks between the different
\* lock orders never leave a player's wallet locked for ever.
EveryTxnEnds == \A c \in Conn : phase[c] # "idle" ~> phase[c] = "idle"

=============================================================================
