---------------------------- MODULE Replication ----------------------------
(***************************************************************************)
(* Asynchronous replication between Redis instances (replication.c, with   *)
(* the part of server.c that restores the replication state at start).     *)
(*                                                                         *)
(* A data set is the sequence of the writes that made it, and a write      *)
(* moves the replication offset by one.  An instance names the history it  *)
(* holds by a replication ID and an offset, and keeps a second ID that is  *)
(* valid up to an offset only: a replica that lost its link shows the ID   *)
(* and the offset it stopped at (its cached master), and the instance it   *)
(* asks decides from these alone whether the missing part of the stream,   *)
(* taken from its backlog, is enough or the whole data set must be sent.   *)
(*                                                                         *)
(* A connection is kept with the replica that opened it: what the other    *)
(* side wrote on it and the replica has not read yet outlives the other    *)
(* side's close.                                                           *)
(***************************************************************************)
EXTENDS Integers, Sequences, FiniteSets

CONSTANTS N,             \* the instances are 1 .. N
          ConfiguredMaster, \* the replicaof line each instance starts with
          BacklogSize,   \* repl-backlog-size, in writes
          MaxWrite,      \* bound: the writes of clients
          MaxId,         \* bound: the replication IDs ever drawn
          MaxFault,      \* bound: REPLICAOF commands, lost links, idle
                         \* backlogs, failed loads and restarts
          Restarting     \* bound: the instances that save and restart

VARIABLES data,     \* data[n]: the writes that made the data set
          repl,     \* repl[n]: replid, replid2, second_replid_offset and
                    \* master_repl_offset
          backlog,  \* backlog[n]: repl_backlog
          master,   \* master[n]: masterhost
          conn,     \* conn[n]: the connection of n to its master
          cached,   \* cached[n]: cached_master, its ID and offset
          rdb,      \* rdb[n]: the snapshot file of n
          writes, ids, faults   \* what the bounds count

vars == <<data, repl, backlog, master, conn, cached, rdb, writes, ids, faults>>

Node == 1 .. N
NoMaster == 0
NoId == 0           \* forty zeroes: no secondary ID
NoBacklog == [first |-> 0, items |-> <<>>]
NoCached == [id |-> NoId, off |-> -1]
NoRdb == [data |-> <<>>, id |-> NoId, off |-> -1]
NoConn == [st |-> "none", open |-> FALSE, id |-> NoId, off |-> -1,
           data |-> <<>>, out |-> <<>>]
Remains == <<0>>    \* what a load that failed leaves of the data set

Init ==
    /\ data = [n \in Node |-> <<>>]
    /\ repl = [n \in Node |-> [id |-> n, id2 |-> NoId, off2 |-> -1, off |-> 0]]
    /\ backlog = [n \in Node |-> NoBacklog]
    /\ master = ConfiguredMaster
    /\ conn = [n \in Node |-> NoConn]
    /\ cached = [n \in Node |-> NoCached]
    /\ rdb = [n \in Node |-> NoRdb]
    /\ writes = 0
    /\ ids = N
    /\ faults = 0

-----------------------------------------------------------------------------
(* The connected replicas of an instance (server.slaves), and what happens *)
(* to all of them at once.                                                 *)

Replicas(n) == {r \in Node : master[r] = n /\ conn[r].open}

\* disconnectSlaves: the replicas read the close after what was sent before.
Dropped(n) == [r \in Node |-> IF r \in Replicas(n)
                                THEN [conn[r] EXCEPT !.open = FALSE]
                                ELSE conn[r]]

\* A write goes to every replica but those that wait for a snapshot to start.
Sent(n, e) == [r \in Node |-> IF r \in Replicas(n) /\ conn[r].st # "wait"
                                THEN [conn[r] EXCEPT !.out = Append(@, e)]
                                ELSE conn[r]]

NewBacklog(off) == [first |-> off + 1, items |-> <<>>]

\* The backlog after one more write: the oldest ones may be trimmed, block by
\* block and never below the configured size.
Fed(b, e) ==
    LET all == Append(b.items, e)
        keep == {k \in 0 .. Len(all) : k = 0 \/ Len(all) - k >= BacklogSize}
    IN  IF b = NoBacklog
          THEN {b}
          ELSE {[first |-> b.first + k, items |-> SubSeq(all, k + 1, Len(all))]
                  : k \in keep}

Fault == faults < MaxFault /\ faults' = faults + 1
FreshId == ids < MaxId /\ ids' = ids + 1

-----------------------------------------------------------------------------
(* Writes and the stream.                                                  *)

\* A client's write on a master.  Without a backlog and without replicas the
\* offset does not move.
Write(n) ==
    /\ master[n] = NoMaster
    /\ writes < MaxWrite
    /\ writes' = writes + 1
    /\ data' = [data EXCEPT ![n] = Append(@, writes')]
    /\ IF backlog[n] = NoBacklog
         THEN UNCHANGED <<repl, backlog, conn>>
         ELSE /\ repl' = [repl EXCEPT ![n].off = @ + 1]
              /\ \E b \in Fed(backlog[n], writes') :
                   backlog' = [backlog EXCEPT ![n] = b]
              /\ conn' = Sent(n, writes')
    /\ UNCHANGED <<master, cached, rdb, ids, faults>>

\* A replica applies the next write of its master, and passes it on to its
\* own replicas as it came.
ApplyStream(r) ==
    /\ conn[r].st = "online"
    /\ conn[r].out # <<>>
    /\ LET e == Head(conn[r].out)
       IN  /\ data' = [data EXCEPT ![r] = Append(@, e)]
           /\ repl' = [repl EXCEPT ![r].off = @ + 1]
           /\ \E b \in Fed(backlog[r], e) :
                backlog' = [backlog EXCEPT ![r] = b]
           /\ conn' = [Sent(r, e) EXCEPT ![r].out = Tail(@)]
    /\ UNCHANGED <<master, cached, rdb, writes, ids, faults>>

-----------------------------------------------------------------------------
(* Synchronization.                                                        *)

\* masterTryPartialResynchronization: m accepts to continue history id from
\* offset o on.
CanContinue(m, id, o) ==
    /\ id = repl[m].id \/ (id = repl[m].id2 /\ o <= repl[m].off2)
    /\ backlog[m] # NoBacklog
    /\ o >= backlog[m].first
    /\ o <= backlog[m].first + Len(backlog[m].items)

\* The connected part of syncCommand: m answers only when it is a master or
\* is itself connected to one.
Answers(m) == master[m] = NoMaster \/ conn[m].st = "online"

\* r asks its master to continue, and the master accepts.
PsyncContinue(r) ==
    LET m == master[r]
        o == cached[r].off + 1
    IN  /\ m # NoMaster
        /\ conn[r].st = "none"
        /\ Answers(m)
        /\ cached[r] # NoCached
        /\ CanContinue(m, cached[r].id, o)
        /\ conn' = [conn EXCEPT ![r] =
             [NoConn EXCEPT !.st = "cont", !.open = TRUE, !.id = repl[m].id,
                            !.out = SubSeq(backlog[m].items,
                                           o - backlog[m].first + 1,
                                           Len(backlog[m].items))]]
        /\ UNCHANGED <<data, repl, backlog, master, cached, rdb, writes, ids,
                       faults>>

\* r asks and needs the whole data set: it waits for a snapshot, or shares
\* the one being sent to another replica together with the writes since.
\* The first replica of an instance without a backlog makes it create one,
\* under a new ID.
PsyncFull(r) ==
    LET m == master[r]
    IN  /\ m # NoMaster
        /\ conn[r].st = "none"
        /\ Answers(m)
        /\ \/ cached[r] = NoCached
           \/ ~CanContinue(m, cached[r].id, cached[r].off + 1)
        /\ IF backlog[m] = NoBacklog /\ Replicas(m) = {}
             THEN /\ FreshId
                  /\ repl' = [repl EXCEPT ![m].id = ids', ![m].id2 = NoId,
                                          ![m].off2 = -1]
                  /\ backlog' = [backlog EXCEPT ![m] = NewBacklog(repl[m].off)]
             ELSE UNCHANGED <<repl, backlog, ids>>
        /\ conn' \in {[conn EXCEPT ![r] = c] :
               c \in {[NoConn EXCEPT !.st = "wait", !.open = TRUE]}
                     \cup {conn[q] : q \in {q \in Replicas(m) :
                                              conn[q].st = "full"}}}
        /\ UNCHANGED <<data, master, cached, rdb, writes, faults>>

\* rdbPopulateSaveInfo: what a snapshot tells about its place in a history.
SaveInfo(n) == \/ master[n] = NoMaster /\ backlog[n] # NoBacklog
               \/ conn[n].st = "online"
               \/ cached[n] # NoCached

\* startBgsaveForReplication: one snapshot for all that wait for it.
StartBgsave(m) ==
    LET waiting == {r \in Replicas(m) : conn[r].st = "wait"}
        snapshot == [NoConn EXCEPT !.st = "full", !.open = TRUE,
                                   !.id = repl[m].id, !.off = repl[m].off,
                                   !.data = data[m]]
    IN  /\ waiting # {}
        /\ conn' = [r \in Node |->
                      IF r \notin waiting THEN conn[r]
                      ELSE IF SaveInfo(m) THEN snapshot
                      ELSE [conn[r] EXCEPT !.open = FALSE]]
        /\ UNCHANGED <<data, repl, backlog, master, cached, rdb, writes, ids,
                       faults>>

\* The reading half of slaveTryPartialResynchronization, for +CONTINUE.
ReadContinue(r) ==
    LET id == conn[r].id
        online == [conn[r] EXCEPT !.st = "online", !.id = NoId]
    IN  /\ conn[r].st = "cont"
        /\ IF id # cached[r].id
             THEN /\ repl' = [repl EXCEPT ![r] =
                       [id |-> id, id2 |-> cached[r].id,
                        off2 |-> @.off + 1, off |-> @.off]]
                  /\ conn' = [Dropped(r) EXCEPT ![r] = online]
             ELSE /\ UNCHANGED repl
                  /\ conn' = [conn EXCEPT ![r] = online]
        /\ cached' = [cached EXCEPT ![r] = NoCached]
        /\ backlog' = IF backlog[r] = NoBacklog
                        THEN [backlog EXCEPT ![r] = NewBacklog(repl[r].off)]
                        ELSE backlog
        /\ UNCHANGED <<data, master, rdb, writes, ids, faults>>

\* readSyncBulkPayload: the whole snapshot arrived and is loaded in place of
\* the data set; a file that was received on disk is also the instance's own
\* snapshot from now on.
Load(r) ==
    LET c == conn[r]
    IN  /\ c.st = "full"
        /\ data' = [data EXCEPT ![r] = c.data]
        /\ repl' = [repl EXCEPT ![r] = [id |-> c.id, id2 |-> NoId,
                                        off2 |-> -1, off |-> c.off]]
        /\ backlog' = [backlog EXCEPT ![r] = NewBacklog(c.off)]
        /\ cached' = [cached EXCEPT ![r] = NoCached]
        /\ conn' = [Dropped(r) EXCEPT ![r] =
                      [NoConn EXCEPT !.st = "online", !.open = c.open,
                                     !.out = c.out]]
        /\ rdb' \in {rdb} \cup {[rdb EXCEPT ![r] = [data |-> c.data,
                                    id |-> c.id, off |-> c.off]]
                                  : x \in {r} \cap Restarting}
        /\ UNCHANGED <<master, writes, ids, faults>>

\* readSyncBulkPayload: the load fails half way.  The old data set, the
\* backlog and the cached master are gone; the ID and the offset are not.
LoadFails(r) ==
    /\ conn[r].st = "full"
    /\ Fault
    /\ data' = [data EXCEPT ![r] = Remains]
    /\ backlog' = [backlog EXCEPT ![r] = NoBacklog]
    /\ cached' = [cached EXCEPT ![r] = NoCached]
    /\ conn' = [Dropped(r) EXCEPT ![r] = NoConn]
    /\ UNCHANGED <<repl, master, rdb, writes, ids>>

-----------------------------------------------------------------------------
(* Lost links and changes of role.                                         *)

\* The cached master of r once its connection is gone.
Cached(r) == IF conn[r].st = "online"
               THEN [id |-> repl[r].id, off |-> repl[r].off]
               ELSE cached[r]

\* The connection of r ends: it reads a close, or the link is lost.
LinkLost(r) ==
    /\ conn[r].st # "none"
    /\ IF conn[r].open THEN Fault ELSE UNCHANGED faults
    /\ cached' = [cached EXCEPT ![r] = Cached(r)]
    /\ conn' = [conn EXCEPT ![r] = NoConn]
    /\ UNCHANGED <<data, repl, backlog, master, rdb, writes, ids>>

\* REPLICAOF host port: a former master caches itself, and its replicas stay.
SetMaster(n, m) ==
    /\ n # m
    /\ master[n] # m
    /\ Fault
    /\ master' = [master EXCEPT ![n] = m]
    /\ cached' = [cached EXCEPT ![n] =
                    IF master[n] = NoMaster
                      THEN [id |-> repl[n].id, off |-> repl[n].off]
                      ELSE Cached(n)]
    /\ conn' = [conn EXCEPT ![n] = NoConn]
    /\ UNCHANGED <<data, repl, backlog, rdb, writes, ids>>

\* Mutant: the second ID is valid one offset too far.
ShiftedTooFar(s, id) ==
    [id |-> id, id2 |-> s.id, off2 |-> s.off + 2, off |-> s.off]

\* shiftReplicationId: the ID so far becomes the second one, up to the next
\* offset, and a new one is drawn.
Shifted(s, id) == [id |-> id, id2 |-> s.id, off2 |-> s.off + 1, off |-> s.off]

\* REPLICAOF NO ONE.
UnsetMaster(n) ==
    /\ master[n] # NoMaster
    /\ Fault
    /\ FreshId
    /\ master' = [master EXCEPT ![n] = NoMaster]
    /\ cached' = [cached EXCEPT ![n] = NoCached]
    /\ repl' = [repl EXCEPT ![n] = Shifted(@, ids')]
    /\ conn' = [Dropped(n) EXCEPT ![n] = NoConn]
    /\ UNCHANGED <<data, backlog, rdb, writes>>

\* replicationCron: a master that had no replica for a while frees its
\* backlog, and gives up the history others may know under its ID.
FreeIdleBacklog(n) ==
    /\ master[n] = NoMaster
    /\ backlog[n] # NoBacklog
    /\ Replicas(n) = {}
    /\ Fault
    /\ FreshId
    /\ repl' = [repl EXCEPT ![n].id = ids', ![n].id2 = NoId, ![n].off2 = -1]
    /\ backlog' = [backlog EXCEPT ![n] = NoBacklog]
    /\ UNCHANGED <<data, master, conn, cached, rdb, writes>>

-----------------------------------------------------------------------------
(* Snapshots on disk and restarts.                                         *)

Save(n) ==
    /\ n \in Restarting
    /\ rdb' = [rdb EXCEPT ![n] =
                 IF SaveInfo(n)
                   THEN [data |-> data[n], id |-> repl[n].id, off |-> repl[n].off]
                   ELSE [data |-> data[n], id |-> NoId, off |-> -1]]
    /\ rdb' # rdb
    /\ UNCHANGED <<data, repl, backlog, master, conn, cached, writes, ids,
                   faults>>

\* loadDataFromDisk: n starts again from its snapshot, as a master or as the
\* replica it was.  A master takes the saved ID as its second one, and puts
\* the keys that expired meanwhile (at most one here) into its backlog as
\* deletions; a replica takes the saved ID and offset for its cached master.
Restart(n, m, expired) ==
    LET s == rdb[n]
        known == s.id # NoId
        e == writes + expired
        gone == IF expired = 1 THEN <<e>> ELSE <<>>
    IN  /\ n \in Restarting
        /\ m \in {NoMaster, master[n]}
        /\ expired = 1 => (m = NoMaster /\ writes < MaxWrite /\ s.data # <<>>)
        /\ Fault
        /\ FreshId
        /\ writes' = e
        /\ master' = [master EXCEPT ![n] = m]
        /\ data' = [data EXCEPT ![n] = s.data \o gone]
        /\ repl' = [repl EXCEPT ![n] =
             IF m = NoMaster
               THEN IF known
                      THEN [id |-> ids', id2 |-> s.id, off2 |-> s.off + 1,
                            off |-> s.off + expired]
                      ELSE [id |-> ids', id2 |-> NoId, off2 |-> -1,
                            off |-> expired]
               ELSE IF known
                      THEN [id |-> s.id, id2 |-> NoId, off2 |-> -1,
                            off |-> s.off]
                      ELSE [id |-> ids', id2 |-> NoId, off2 |-> -1, off |-> 0]]
        /\ backlog' = [backlog EXCEPT ![n] =
             IF m = NoMaster /\ known
               THEN [first |-> s.off + 1, items |-> gone]
               ELSE NoBacklog]
        /\ cached' = [cached EXCEPT ![n] =
             IF m # NoMaster /\ known THEN [id |-> s.id, off |-> s.off]
             ELSE NoCached]
        /\ conn' = [Dropped(n) EXCEPT ![n] = NoConn]
        /\ UNCHANGED rdb

-----------------------------------------------------------------------------
Next ==
    \E n \in Node :
        \/ Write(n)
        \/ ApplyStream(n)
        \/ PsyncContinue(n)
        \/ PsyncFull(n)
        \/ StartBgsave(n)
        \/ ReadContinue(n)
        \/ Load(n)
        \/ LoadFails(n)
        \/ LinkLost(n)
        \/ \E m \in Node : SetMaster(n, m)
        \/ UnsetMaster(n)
        \/ FreeIdleBacklog(n)
        \/ Save(n)
        \/ \E m \in Node \cup {NoMaster}, x \in {0, 1} : Restart(n, m, x)

Spec == Init /\ [][Next]_vars

-----------------------------------------------------------------------------
(* Properties.                                                             *)

\* A replica on a live link lacks exactly what its master has sent and it has
\* not read: its data set and these writes are its master's data set, and the
\* offsets say so, whether it was synchronized in whole or continued an older
\* history, under the first or the second ID, after a failover or a restart.
InSync ==
    \A r \in Node :
        LET m == master[r]
        IN  conn[r].open /\ conn[r].st \in {"cont", "online"} =>
              /\ data[m] = data[r] \o conn[r].out
              /\ repl[m].off = repl[r].off + Len(conn[r].out)

\* Two instances that would show the same ID and the same offset hold the
\* same data set.  An instance whose load failed shows nothing: it has
\* neither a master nor a cached one.
OneHistory ==
    \A n, p \in Node :
        /\ SaveInfo(n) /\ SaveInfo(p)
        /\ repl[n].id = repl[p].id
        /\ repl[n].off = repl[p].off
        => data[n] = data[p]
=============================================================================
