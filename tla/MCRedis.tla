------------------------------ MODULE MCRedis ------------------------------
(***************************************************************************)
(* Small instances of the parts of Redis.  They share no state and are     *)
(* checked side by side: the initial state chooses the part that runs, and *)
(* v1, v2, ... are the variables of that part, in the order in which its   *)
(* module declares them (0: not used).                                     *)
(***************************************************************************)
EXTENDS Integers, Sequences, TLC

CONSTANTS p1, p2,      \* two replicas, or two consumers: interchangeable
          w1, w2, w3, w4  \* clients, the last three interchangeable

VARIABLES part, v1, v2, v3, v4, v5, v6, v7, v8, v9, v10, v11, v12, v13, v14, v15

Peers == {p1, p2}
Symmetry == Permutations(Peers) \cup Permutations({w2, w3, w4})

Shards == {"A", "B", "C"}
ShardOf == [r \in Peers |-> "A"]
Names == ("A" :> 1) @@ ("B" :> 2) @@ ("C" :> 3) @@ (p1 :> 4) @@ (p2 :> 5)

\* An election of two replicas of A among three masters; no pings.
K == INSTANCE Cluster WITH
       conf <- v1, disk <- v2, auth <- v3, requests <- v4, acks <- v5, faults <-
       v6, votes <- v7, tally <- v8, winners <- v9, forgotten <- v10,
       Shard <- Shards, Replica <- Peers, ReplicaOf <- ShardOf, Id <- Names,
       None <- "none", FirstEpoch <- 3, MaxEpoch <- 4, MaxFault <- 0, Link <- {}

\* A master with two replicas, where one thing goes wrong or one write is made;
\* and two instances that also restart.
Chain == INSTANCE Replication WITH
       data <- v1, repl <- v2, backlog <- v3, master <- v4, conn <- v5, cached
       <- v6, rdb <- v7, writes <- v8, ids <- v9, faults <- v10,
       N <- 3, ConfiguredMaster <- <<0, 1, 1>>, BacklogSize <- 1,
       MaxWrite <- 2, MaxId <- 4, MaxFault <- 1, Restarting <- {}
Failover == INSTANCE Replication WITH
       data <- v1, repl <- v2, backlog <- v3, master <- v4, conn <- v5, cached
       <- v6, rdb <- v7, writes <- v8, ids <- v9, faults <- v10,
       N <- 3, ConfiguredMaster <- <<0, 1, 1>>, BacklogSize <- 1,
       MaxWrite <- 1, MaxId <- 4, MaxFault <- 2, Restarting <- {}
Pair == INSTANCE Replication WITH
       data <- v1, repl <- v2, backlog <- v3, master <- v4, conn <- v5, cached
       <- v6, rdb <- v7, writes <- v8, ids <- v9, faults <- v10,
       N <- 2, ConfiguredMaster <- <<0, 1>>, BacklogSize <- 1,
       MaxWrite <- 2, MaxId <- 4, MaxFault <- 2, Restarting <- {1, 2}

\* Two failures; or one, and BGREWRITEAOF while the AOF is off.
F == INSTANCE Aof WITH
       always <- v1, mem <- v2, buf <- v3, file <- v4, disk <- v5, man <- v6,
       temp <- v7, fd <- v8, child <- v9, state <- v10, pc <- v11, error <- v12,
       acked <- v13, cmds <- v14, faults <- v15,
       MaxCmd <- 2, MaxSeq <- 3, MaxFault <- 2, OffRewrites <- FALSE,
       WriteOutcomes <- {"none"}, PersistOutcomes <- {"early"}
O == INSTANCE Aof WITH
       always <- v1, mem <- v2, buf <- v3, file <- v4, disk <- v5, man <- v6,
       temp <- v7, fd <- v8, child <- v9, state <- v10, pc <- v11, error <- v12,
       acked <- v13, cmds <- v14, faults <- v15,
       MaxCmd <- 2, MaxSeq <- 3, MaxFault <- 1, OffRewrites <- TRUE,
       WriteOutcomes <- {"none"}, PersistOutcomes <- {"early"}

DataOps == {"get", "set", "setex", "del", "flushdb"}
SwapOps == DataOps \cup {"swapdb"}
ToQueue == [op : {"get", "setex"}, key : {"k"}]

\* Two clients of one database, one client of two, one client of a replica.
T2 == INSTANCE Multi WITH
       db <- v1, watch <- v2, cl <- v3, asked <- v4, changed <- v5,
       Clients <- {"x", "y"}, Keys <- {"k"}, Dbs <- {0},
       Ops <- DataOps, Queued <- ToQueue, MaxQueue <- 1, Replica <- FALSE
T1 == INSTANCE Multi WITH
       db <- v1, watch <- v2, cl <- v3, asked <- v4, changed <- v5,
       Clients <- {"x"}, Keys <- {"k"}, Dbs <- {0, 1},
       Ops <- SwapOps, Queued <- ToQueue, MaxQueue <- 1, Replica <- FALSE
TR == INSTANCE Multi WITH
       db <- v1, watch <- v2, cl <- v3, asked <- v4, changed <- v5,
       Clients <- {"x"}, Keys <- {"k"}, Dbs <- {0},
       Ops <- DataOps, Queued <- ToQueue, MaxQueue <- 1, Replica <- TRUE

ListWrites == [op : {"rpush"}, key : {"k", "l"}]
              \cup [op : {"zadd", "set", "del"}, key : {"k"}]

B == INSTANCE Blocked WITH
       val <- v1, parked <- v2, cli <- v3, elems <- v4, line <- v5, got <- v6,
       gone <- v7,
       Clients <- {"x", "y"}, Keys <- {"k", "l"}, Writes <- ListWrites,
       MaxBlock <- 2, MaxElem <- 2, NoTarget <- "none"

D == INSTANCE Dict WITH
       exp <- v1, tab <- v2, idx <- v3, resize <- v4, cursor <- v5, seen <- v6,
       held <- v7, done <- v8,
       Keys <- {0, 1, 3, 5}, Width <- 3, InitialExp <- 0, ForceRatio <- 2,
       MinFill <- 50, EmptyVisits <- 2

G == INSTANCE Streams WITH
       master <- v1, replica <- v2,
       Consumers <- Peers, NoConsumer <- "none", MaxId <- 2, MaxCount <- 2

\* Four clients, enough for the writes to be given to the threads; the first
\* sends a second command, which a thread may read.
I == INSTANCE IoThreads WITH
       main <- v1, ret <- v2, op <- v3, active <- v4, mutex <- v5, pending <- v6,
       list <- v7, thread <- v8, busy <- v9, pr <- v10, pw <- v11, cl <- v12,
       Clients <- {w1, w2, w3, w4}, Num <- 2, NoClient <- "none", DoReads <- TRUE,
       Sends <- [c \in {w1, w2, w3, w4} |-> IF c = w1 THEN 2 ELSE 1]

RedisInit ==
  /\ \/ part = "cluster" /\ K!Init
     \/ part = "chain" /\ Chain!Init
     \/ part = "failover" /\ Failover!Init
     \/ part = "pair" /\ Pair!Init
     \/ part = "aof" /\ F!Init
     \/ part = "off" /\ O!Init
     \/ part = "multi" /\ T2!Init
     \/ part = "swap" /\ T1!Init
     \/ part = "reader" /\ TR!Init
     \/ part = "blocked" /\ B!Init
     \/ part = "dict" /\ D!Init
     \/ part = "stream" /\ G!Init
     \/ part = "threads" /\ I!Init
  /\ part = "stream" => v3 = 0 /\ v4 = 0 /\ v5 = 0
  /\ part \in {"stream", "multi", "swap", "reader"} => v6 = 0 /\ v7 = 0
  /\ part \in {"stream", "multi", "swap", "reader", "blocked"} => v8 = 0
  /\ part \in {"stream", "multi", "swap", "reader", "blocked", "dict"} => v9 = 0 /\ v10 = 0
  /\ part \notin {"aof", "off", "threads"} => v11 = 0 /\ v12 = 0
  /\ part \notin {"aof", "off"} => v13 = 0 /\ v14 = 0 /\ v15 = 0

RedisNext ==
  \/ part = "cluster" /\ K!Next /\ UNCHANGED <<part, v11, v12, v13, v14, v15>>
  \/ part = "chain" /\ Chain!Next /\ UNCHANGED <<part, v11, v12, v13, v14, v15>>
  \/ part = "failover" /\ Failover!Next /\ UNCHANGED <<part, v11, v12, v13, v14, v15>>
  \/ part = "pair" /\ Pair!Next /\ UNCHANGED <<part, v11, v12, v13, v14, v15>>
  \/ part = "aof" /\ F!Next /\ UNCHANGED part
  \/ part = "off" /\ O!Next /\ UNCHANGED part
  \/ /\ part = "multi" /\ T2!Next
     /\ UNCHANGED <<part, v6, v7, v8, v9, v10, v11, v12, v13, v14, v15>>
  \/ /\ part = "swap" /\ T1!Next
     /\ UNCHANGED <<part, v6, v7, v8, v9, v10, v11, v12, v13, v14, v15>>
  \/ /\ part = "reader" /\ TR!Next
     /\ UNCHANGED <<part, v6, v7, v8, v9, v10, v11, v12, v13, v14, v15>>
  \/ /\ part = "blocked" /\ B!Next
     /\ UNCHANGED <<part, v8, v9, v10, v11, v12, v13, v14, v15>>
  \/ /\ part = "dict" /\ D!Next
     /\ UNCHANGED <<part, v9, v10, v11, v12, v13, v14, v15>>
  \/ /\ part = "stream" /\ G!Next
     /\ UNCHANGED <<part, v3, v4, v5, v6, v7, v8, v9, v10, v11, v12, v13, v14, v15>>
  \/ part = "threads" /\ I!Next /\ UNCHANGED <<part, v13, v14, v15>>

RedisSpec ==
  RedisInit /\ [][RedisNext]_<<part, v1, v2, v3, v4, v5, v6, v7, v8, v9, v10,
                              v11, v12, v13, v14, v15>>

----------------------------------------------------------------------------
(* The properties of the parts, each while its part runs.                  *)

\* Two replicas win elections of the same epoch only if one of them counted a
\* vote of an earlier epoch (Cluster).
OneWinnerUnlessStale == part = "cluster" => K!OneWinnerUnlessStale

\* A replica on a live link lacks exactly what is on its way (Replication).
InSync == /\ part = "chain" => Chain!InSync
          /\ part = "failover" => Failover!InSync
          /\ part = "pair" => Pair!InSync

\* The same ID and offset mean the same data set (Replication).
OneHistory == /\ part = "chain" => Chain!OneHistory
              /\ part = "failover" => Failover!OneHistory
              /\ part = "pair" => Pair!OneHistory

\* The files of the manifest can be loaded after a crash at any moment (Aof).
FilesAreLoadable == /\ part = "aof" => F!FilesAreLoadable
                    /\ part = "off" => O!FilesAreLoadable

\* With appendfsync always no acknowledged command is lost (Aof).
AckedIsDurable == /\ part = "aof" => F!AckedIsDurable
                  /\ part = "off" => O!AckedIsDurable

\* EXEC fails exactly if a watched key has changed (Multi; on a replica it may
\* run all the same).
AbortIsExact ==
  /\ part = "multi" => T2!ExecSeesNoChange /\ T2!AbortsForAReason
  /\ part = "swap" => T1!ExecSeesNoChange /\ T1!AbortsForAReason
  /\ part = "reader" => TR!AbortsForAReason

\* No client is left parked on a key that holds what it waits for (Blocked).
NoWakeupIsLost == part = "blocked" => B!NoWakeupIsLost

\* Serving blocked clients neither loses nor repeats an element (Blocked).
ElementsAreConserved == part = "blocked" => B!ElementsAreConserved

\* The clients of a key are served in the order they blocked (Blocked).
ServedInOrder == [][part = "blocked" => B!InOrder]_<<part, v1, v2, v3, v4, v5, v6, v7>>

\* A full SCAN returns every key that was there all the time (Dict).
ScanIsComplete == part = "dict" => D!ScanIsComplete

\* The group's pending list and those of its consumers agree, and the replica
\* knows the pending entries and their owners (Streams).
PendingIsReplicated == part = "stream" => G!PendingListsAgree /\ G!ReplicaKnowsPending

\* The event loop and the commands never run beside an I/O thread (IoThreads).
MainIsAlone == part = "threads" => I!MainIsAlone

\* A freed client is in no queue and in no thread's list (IoThreads).
FreedIsForgotten == part = "threads" => I!FreedIsForgotten

\* No reply and no parsed command is left over (IoThreads).
NothingStranded == part = "threads" => I!NothingStranded

\* A thread with work never waits for the main thread (IoThreads).
WorkIsNotParked == part = "threads" => I!WorkIsNotParked

=============================================================================
