---------------------------- MODULE Multi ----------------------------
(***************************************************************************)
(* Transactions of the Redis server (multi.c): MULTI, queued commands,     *)
(* EXEC, DISCARD, WATCH, UNWATCH and RESET of several clients, with the    *)
(* keys that expire under them, FLUSHDB, SWAPDB and, on a replica, the     *)
(* stream of the master.  The server runs one command at a time, so each   *)
(* command is one step; what interleaves is the commands of the clients,   *)
(* the passing of time and the expire cycle.                               *)
(*                                                                         *)
(* A value is not kept: a key is "none", "live" (no TTL), "volatile" (has  *)
(* a TTL) or "expired" (its TTL has passed and it is still in the dict).   *)
(***************************************************************************)
EXTENDS Naturals, Sequences, SequencesExt, FiniteSets

CONSTANTS Clients,      \* the normal clients
          Keys,         \* key names
          Dbs,          \* the databases, 0 .. dbnum - 1
          Ops,          \* the commands on the data set
          Queued,       \* the commands a client queues: records [op, key]
          MaxQueue,     \* bound on the length of a transaction
          Replica       \* TRUE: the server is a read-only replica

VARIABLES db,       \* db[d][k]: the key in the dict and expires of database d
          watch,    \* watch[d][k]: db->watched_keys, the list of watchedKey
          cl,       \* per client: its flags, its queue, its selected database
          asked,    \* history: the <<d, k>> a client has WATCHed since the
                    \* last end of a transaction
          changed   \* history: the clients one of whose asked keys has changed

vars == <<db, watch, cl, asked, changed>>

\* The server's state, threaded through the functions of a command.
S == [db |-> db, watch |-> watch, cl |-> cl, asked |-> asked, changed |-> changed]

Become(s) ==
    /\ db' = s.db /\ watch' = s.watch /\ cl' = s.cl
    /\ asked' = s.asked /\ changed' = s.changed

NewClient == [multi |-> FALSE, cas |-> FALSE, exec |-> FALSE, queue |-> <<>>, sel |-> 0]

Init ==
    /\ db = [d \in Dbs |-> [k \in Keys |-> "none"]]
    /\ watch = [d \in Dbs |-> [k \in Keys |-> <<>>]]
    /\ cl = [c \in Clients |-> NewClient]
    /\ asked = [c \in Clients |-> {}]
    /\ changed = {}

\* The value a client sees: a key past its TTL is as good as absent.
Absent(v) == v \in {"none", "expired"}

\* History: the contents of the items in ks have changed.
Note(s, ks) ==
    [s EXCEPT !.changed = @ \cup {c \in Clients : s.asked[c] \cap ks # {}}]

(***************************************************************************)
(* WATCH bookkeeping                                                       *)
(***************************************************************************)
\* unwatchAllKeys for every client in cs.
UnwatchAll(s, cs) ==
    [s EXCEPT !.watch = [d \in Dbs |-> [k \in Keys |->
        SelectSeq(s.watch[d][k], LAMBDA wk : wk.client \notin cs)]]]

MarkDirty(s, cs) ==
    [s EXCEPT !.cl = [c \in Clients |->
        IF c \in cs THEN [s.cl[c] EXCEPT !.cas = TRUE] ELSE s.cl[c]]]

\* A watch on a key that was already expired stands for a watch on nothing.
ClearExpired(l) == [i \in 1..Len(l) |-> [l[i] EXCEPT !.expired = FALSE]]

\* The loop over the watchers of a key leaves at the first one that watches it
\* as an expired key, if the key is still in the dict.
Reached(s, d, k) ==
    LET l == s.watch[d][k]
        stops == {i \in 1..Len(l) : l[i].expired}
    IN  IF s.db[d][k] = "none" \/ stops = {} THEN Len(l) ELSE Min(stops) - 1

\* Mutant: a deleted key leaves the "watched as expired" flag set.
touchKeepsFlag(s, d, k) ==
    LET l == s.watch[d][k]
        hit == {l[i].client : i \in {j \in 1..Reached(s, d, k) : ~l[j].expired}}
    IN  UnwatchAll(MarkDirty(s, hit), hit)

touchWatchedKey(s, d, k) ==
    LET l == s.watch[d][k]
        hit == {l[i].client : i \in {j \in 1..Reached(s, d, k) : ~l[j].expired}}
        t == UnwatchAll(MarkDirty(s, hit), hit)
    IN  IF s.db[d][k] = "none" THEN [t EXCEPT !.watch[d][k] = ClearExpired(@)] ELSE t

\* touchAllWatchedKeysInDb: database d is emptied, or replaced by the dict new
\* (NoDict: nothing takes its place).
NoDict == [k \in Keys |-> "none"]

\* What becomes of one watcher: "dirty", or the new value of its flag.
Fate(wk, old, new) ==
    CASE wk.expired /\ new = "none" -> "clear"
      [] wk.expired /\ new = "expired" -> "keep"
      [] ~wk.expired /\ old = "none" /\ new = "expired" -> "set"
      [] OTHER -> "dirty"

touchAll(s, d, new) ==
    LET touched == {k \in Keys : s.db[d][k] # "none" \/ new[k] # "none"}
        fate(k, wk) == Fate(wk, s.db[d][k], new[k])
        hit == {c \in Clients : \E k \in touched : \E i \in 1..Len(s.watch[d][k]) :
                   /\ s.watch[d][k][i].client = c
                   /\ fate(k, s.watch[d][k][i]) = "dirty"}
        flag(k, wk) == [wk EXCEPT !.expired = CASE fate(k, wk) = "clear" -> FALSE
                                                [] fate(k, wk) = "set" -> TRUE
                                                [] OTHER -> @]
        lists == [k \in Keys |-> IF k \in touched
                    THEN [i \in 1..Len(s.watch[d][k]) |-> flag(k, s.watch[d][k][i])]
                    ELSE s.watch[d][k]]
    IN  MarkDirty([s EXCEPT !.watch[d] = lists], hit)

(***************************************************************************)
(* The keyspace                                                            *)
(***************************************************************************)
\* deleteExpiredKeyAndPropagate and the deletes of commands: remove, then signal.
Removed(s, d, k) == touchWatchedKey([s EXCEPT !.db[d][k] = "none"], d, k)

\* expireIfNeeded for a key that is accessed: a replica leaves the deletion to
\* its master.
expireIfNeeded(s, d, k) ==
    IF s.db[d][k] = "expired" /\ ~Replica THEN Removed(s, d, k) ELSE s

\* SET without and with a TTL: setGenericCommand, setKey.
SetKey(s, d, k, v) ==
    LET t == expireIfNeeded(s, d, k)
    IN  Note(touchWatchedKey([t EXCEPT !.db[d][k] = v], d, k), {<<d, k>>})

\* DEL: delGenericCommand.
DelKey(s, d, k) ==
    LET t == expireIfNeeded(s, d, k)
    IN  IF t.db[d][k] = "none" THEN t
        ELSE Note(Removed(t, d, k), IF Absent(t.db[d][k]) THEN {} ELSE {<<d, k>>})

\* FLUSHDB: emptyData of one database.
FlushDb(s, d) ==
    Note([touchAll(s, d, NoDict) EXCEPT !.db[d] = NoDict],
         {<<d, k>> : k \in {x \in Keys : ~Absent(s.db[d][x])}})

\* SWAPDB 0 1: dbSwapDatabases.
SwapDb(s) ==
    LET t == touchAll(touchAll(s, 0, s.db[1]), 1, s.db[0])
    IN  Note([t EXCEPT !.db = [d \in Dbs |->
                 CASE d = 0 -> s.db[1] [] d = 1 -> s.db[0] [] OTHER -> s.db[d]]],
             {i \in {0, 1} \X Keys : ~Absent(s.db[0][i[2]]) \/ ~Absent(s.db[1][i[2]])})

\* A command of the data set, on database d.
Call(s, d, cmd) ==
    CASE cmd.op = "get" -> expireIfNeeded(s, d, cmd.key)
      [] cmd.op = "set" -> SetKey(s, d, cmd.key, "live")
      [] cmd.op = "setex" -> SetKey(s, d, cmd.key, "volatile")
      [] cmd.op = "del" -> DelKey(s, d, cmd.key)
      [] cmd.op = "flushdb" -> FlushDb(s, d)
      [] cmd.op = "swapdb" -> SwapDb(s)

IsWrite(cmd) == cmd.op # "get"

Commands == [op : Ops \ {"flushdb", "swapdb"}, key : Keys]
            \cup [op : Ops \cap {"flushdb", "swapdb"}, key : {CHOOSE k \in Keys : TRUE}]

(***************************************************************************)
(* The commands of a client                                                *)
(***************************************************************************)
\* discardTransaction.
discardTransaction(s, c) ==
    [UnwatchAll(s, {c}) EXCEPT
        !.cl[c] = [NewClient EXCEPT !.sel = s.cl[c].sel],
        !.asked[c] = {}, !.changed = @ \ {c}]

\* processCommand, outside MULTI: the command runs; on a replica a write of a
\* client is refused.
Execute(c, cmd) ==
    /\ ~cl[c].multi
    /\ IsWrite(cmd) => ~Replica
    /\ Become(Call(S, cl[c].sel, cmd))

\* processCommand, inside MULTI: queueMultiCommand; a refused command flags the
\* transaction (rejectCommand, flagTransaction).
QueueCommand(c, cmd) ==
    /\ cl[c].multi
    /\ Len(cl[c].queue) < MaxQueue
    /\ IsWrite(cmd) => ~Replica
    /\ ~cl[c].cas /\ ~cl[c].exec
    /\ cl' = [cl EXCEPT ![c].queue = Append(@, cmd)]
    /\ UNCHANGED <<db, watch, asked, changed>>

RejectCommand(c) ==
    /\ cl[c].multi
    /\ cl' = [cl EXCEPT ![c].exec = TRUE]
    /\ UNCHANGED <<db, watch, asked, changed>>

multiCommand(c) ==
    /\ ~cl[c].multi
    /\ cl' = [cl EXCEPT ![c].multi = TRUE]
    /\ UNCHANGED <<db, watch, asked, changed>>

discardCommand(c) ==
    /\ cl[c].multi
    /\ Become(discardTransaction(S, c))

\* watchForKey of one key; a client that is dirty already watches nothing more.
watchCommand(c, k) ==
    LET d == cl[c].sel
        l == watch[d][k]
        wk == [client |-> c, expired |-> db[d][k] = "expired"]
    IN  /\ ~cl[c].multi
        /\ ~cl[c].cas
        /\ \A i \in 1..Len(l) : l[i].client # c
        /\ watch' = [watch EXCEPT ![d][k] = Append(l, wk)]
        /\ asked' = [asked EXCEPT ![c] = @ \cup {<<d, k>>}]
        /\ UNCHANGED <<db, cl, changed>>

\* unwatchCommand.
unwatchCommand(c) ==
    /\ ~cl[c].multi
    /\ Become([UnwatchAll(S, {c}) EXCEPT
            !.cl[c].cas = FALSE, !.asked[c] = {}, !.changed = @ \ {c}])

selectCommand(c, d) ==
    /\ ~cl[c].multi
    /\ cl' = [cl EXCEPT ![c].sel = d]
    /\ UNCHANGED <<db, watch, asked, changed>>

\* isWatchedKeyExpired: keys that had expired before the WATCH are ignored.
isWatchedKeyExpired(c) ==
    \E d \in Dbs, k \in Keys : \E i \in 1..Len(watch[d][k]) :
        /\ watch[d][k][i].client = c
        /\ ~watch[d][k][i].expired
        /\ db[d][k] = "expired"

\* EXEC fails on a change of a watched key.
Aborts(c) == cl[c].cas \/ isWatchedKeyExpired(c)

\* execCommand.
Exec(c) ==
    /\ cl[c].multi
    /\ \/ /\ Aborts(c) \/ cl[c].exec
          /\ Become(discardTransaction(S, c))
       \/ /\ ~Aborts(c) /\ ~cl[c].exec
          /\ LET run(s, cmd) == Call(s, s.cl[c].sel, cmd)
                 ended == [UnwatchAll(S, {c}) EXCEPT !.asked[c] = {}, !.changed = @ \ {c}]
             IN  Become(discardTransaction(FoldLeft(run, ended, cl[c].queue), c))

\* RESET, or the connection goes away and the client comes back (freeClient).
Reset(c) ==
    /\ cl[c] # NewClient \/ asked[c] # {}
    /\ Become([discardTransaction(S, c) EXCEPT !.cl[c] = NewClient])

(***************************************************************************)
(* The rest of the server                                                  *)
(***************************************************************************)
\* Time passes the TTL of a key.
Passes(d, k) ==
    /\ db[d][k] = "volatile"
    /\ Become(Note([S EXCEPT !.db[d][k] = "expired"], {<<d, k>>}))

\* activeExpireCycle, of a master.
ActiveExpire(d, k) ==
    /\ ~Replica
    /\ db[d][k] = "expired"
    /\ Become(Removed(S, d, k))

\* On a replica, a command of the stream: to the master's commands keys are
\* never expired.
FromMaster(d, cmd) ==
    /\ Replica
    /\ IsWrite(cmd)
    /\ Become(Call(S, d, cmd))

Next ==
    \/ \E c \in Clients : \E cmd \in Commands : Execute(c, cmd)
    \/ \E c \in Clients : \E cmd \in Queued : QueueCommand(c, cmd)
    \/ \E c \in Clients : RejectCommand(c) \/ multiCommand(c) \/ discardCommand(c)
    \/ \E c \in Clients, k \in Keys : watchCommand(c, k)
    \/ \E c \in Clients : unwatchCommand(c) \/ Exec(c) \/ Reset(c)
    \/ \E c \in Clients, d \in Dbs : selectCommand(c, d)
    \/ \E d \in Dbs, k \in Keys : Passes(d, k) \/ ActiveExpire(d, k)
    \/ \E d \in Dbs, cmd \in Commands : FromMaster(d, cmd)

Spec == Init /\ [][Next]_vars

-----------------------------------------------------------------------------
\* EXEC runs the queue only if no key the client asked to WATCH has changed
\* since, whether by a command of any client, by a FLUSHDB or SWAPDB, or by
\* its TTL.
ExecSeesNoChange == \A c \in Clients : c \in changed => Aborts(c)

\* EXEC fails for a watched key only if one did change: deleting a key that had
\* expired before the WATCH, or swapping absent keys, aborts nobody.
AbortsForAReason == \A c \in Clients : Aborts(c) => c \in changed

=============================================================================
