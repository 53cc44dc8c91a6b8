------------------------------ MODULE Cluster ------------------------------
(***************************************************************************)
(* Redis Cluster: the election of a replica, and how the cluster learns    *)
(* who serves the slots.  A replica whose master failed starts a new epoch *)
(* and asks for votes; the masters vote at most once in an epoch; the      *)
(* winner takes its master's slots with the epoch as its configEpoch.  The *)
(* headers of packets and UPDATE messages spread the news: a greater       *)
(* configEpoch takes the slots from a smaller one.                         *)
(*                                                                         *)
(* A shard stands for the slots of one of the original masters, by whose   *)
(* name it goes; a node is a master when it owns its shard and a replica   *)
(* of the owner otherwise.  Neither time nor the failure detector is       *)
(* modelled: a node may hold a master for failed at any moment, and a vote *)
(* that is refused because of the FAIL flag or of voted_time is a request  *)
(* that only tells its epoch.  A PING or PONG is built and processed in one     *)
(* step; requests and votes are in flight for any time, in any order, and  *)
(* are lost when the receiver crashes.  Resharding, replica migration and  *)
(* changes of membership are left out.                                     *)
(***************************************************************************)
EXTENDS Integers, FiniteSets

CONSTANTS
  Shard,        \* the original masters
  Replica,
  ReplicaOf,    \* [Replica -> Shard]
  Id,           \* the nodes' names, as numbers for memcmp; a master's number is
                \* also its first configEpoch (CLUSTER SET-CONFIG-EPOCH)
  None,
  FirstEpoch,   \* currentEpoch when the cluster was created
  MaxEpoch,     \* bound on the epochs of elections and takeovers
  MaxFault,     \* bound on the number of crashes and forced takeovers
  Link          \* the pairs <<n, m>> such that n receives the pings of m

Node == Shard \cup Replica
Home(n) == IF n \in Shard THEN n ELSE ReplicaOf[n]

ASSUME ClusterAssumption ==
  /\ ReplicaOf \in [Replica -> Shard]
  /\ Shard \cap Replica = {} /\ None \notin Node
  /\ Id \in [Node -> Nat] /\ FirstEpoch \in Nat
  /\ \A s \in Shard : Id[s] <= FirstEpoch
  /\ MaxEpoch \in Nat /\ MaxFault \in Nat

VARIABLES
  conf,      \* conf[n]: what nodes.conf would hold: currentEpoch, lastVoteEpoch,
             \* n's own configEpoch, the owner of each shard and its configEpoch
  disk,      \* disk[n]: nodes.conf
  auth,      \* auth[n]: failover_auth_epoch, failover_auth_count, and where the
             \* election is: idle, waiting (for its time), asked or expired
  requests,  \* FAILOVER_AUTH_REQUEST packets in flight
  acks,      \* FAILOVER_AUTH_ACK packets in flight
  faults,
  votes,     \* history: <<voter, candidate, epoch>> of every vote that was sent
  tally,     \* history: tally[n]: <<voter, epoch>> of the votes in the count
  winners,   \* history: node, epoch and tally of every election that was won
  forgotten  \* history: <<voter, epoch>> of votes that were sent but not saved

vars == <<conf, disk, auth, requests, acks, faults,
          votes, tally, winners, forgotten>>

Greater(a, b) == IF a >= b THEN a ELSE b

\* nodeIsMaster and numslots > 0, as configuration c has it
IsMaster(c, n) == c.owner[Home(n)] = n

\* clusterUpdateState: the majority of the masters that serve slots
Quorum(c) == Cardinality({s \in Shard : c.owner[s] # None}) \div 2 + 1

NoAuth == [epoch |-> 0, count |-> 0, phase |-> "idle"]

Init ==
  /\ conf = [n \in Node |-> [currentEpoch |-> FirstEpoch, lastVoteEpoch |-> 0,
                             configEpoch |-> IF n \in Shard THEN Id[n] ELSE 0,
                             owner |-> [s \in Shard |-> s], epoch |-> [s \in Shard |-> Id[s]]]]
  /\ disk = conf
  /\ auth = [n \in Node |-> NoAuth]
  /\ requests = {} /\ acks = {} /\ faults = 0
  /\ votes = {} /\ winners = {} /\ forgotten = {}
  /\ tally = [n \in Node |-> {}]

----------------------------------------------------------------------------
(* Packets change the receiver's configuration.                            *)

\* clusterProcessPacket: the sender's currentEpoch
SeenEpoch(c, epoch) == [c EXCEPT !.currentEpoch = Greater(c.currentEpoch, epoch)]

\* clusterUpdateSlotsConfigWith: node owns shard s with a configEpoch.  A slot
\* changes hands when it has no owner, or the present owner's epoch is smaller.
Claimed(c, s, node, epoch) ==
  IF c.owner[s] \in {None, node} \/ c.epoch[s] < epoch
  THEN [c EXCEPT !.owner = [c.owner EXCEPT ![s] = node],
                 !.epoch = [c.epoch EXCEPT ![s] = IF c.owner[s] = node
                                                  THEN Greater(c.epoch[s], epoch) ELSE epoch]]
  ELSE c

\* clusterProcessPacket, clusterDelNodeSlots: a master turned into a replica.
Demoted(c, node) ==
  [c EXCEPT !.owner = [s \in Shard |-> IF c.owner[s] = node THEN None ELSE c.owner[s]]]

\* Mutant: collisions are left alone.
CollisionIgnored(c, n, node, epoch) == c

\* clusterHandleConfigEpochCollision: of two masters with the same configEpoch,
\* the one with the smaller name takes the next epoch.
ResolveCollision(c, n, node, epoch) ==
  IF IsMaster(c, n) /\ c.epoch[Home(n)] = epoch /\ Id[node] > Id[n]
  THEN [c EXCEPT !.currentEpoch = c.currentEpoch + 1, !.configEpoch = c.currentEpoch + 1,
                 !.epoch = [c.epoch EXCEPT ![Home(n)] = c.currentEpoch + 1]]
  ELSE c

\* A PING or PONG that m builds from configuration h (clusterBuildMessageHdr)
\* is processed by n with configuration c.
AfterPing(n, c, m, h) ==
  LET s == Home(m)
      c1 == SeenEpoch(c, h.currentEpoch)
  IN  IF IsMaster(h, m)
      THEN ResolveCollision(Claimed(c1, s, m, h.epoch[s]), n, m, h.epoch[s])
      ELSE Demoted(c1, m)

\* Mutant: a vote is not saved.
SavedWithoutVote(n, c) ==
  IF c.owner = conf[n].owner /\ c.epoch = conf[n].epoch THEN disk[n] ELSE c

\* clusterBeforeSleep: every change but one of currentEpoch alone is saved.
Saved(n, c) ==
  IF [c EXCEPT !.currentEpoch = 0] = [conf[n] EXCEPT !.currentEpoch = 0] THEN disk[n] ELSE c

Apply(n, c) ==
  /\ conf' = [conf EXCEPT ![n] = c]
  /\ disk' = [disk EXCEPT ![n] = Saved(n, c)]

Ping(n, m) ==
  /\ n # m /\ <<n, m>> \in Link
  /\ Apply(n, AfterPing(n, conf[n], m, conf[m]))
  /\ UNCHANGED <<auth, requests, acks, faults, votes, tally, winners, forgotten>>

\* n claims a shard of which m knows an owner with a greater configEpoch: m
\* answers n's header with an UPDATE, which n processes.
Update(n, m) ==
  LET s == Home(n)
      c == conf[n]
      h == conf[m]
  IN
  /\ n # m /\ <<n, m>> \in Link /\ h.owner[s] \notin {None, n}
  /\ c.owner[s] # None /\ h.owner[s] # c.owner[s]
  /\ h.epoch[s] > c.epoch[s]
  /\ Apply(n, Claimed(SeenEpoch(c, h.currentEpoch), s, h.owner[s], h.epoch[s]))
  /\ UNCHANGED <<auth, requests, acks, faults, votes, tally, winners, forgotten>>

----------------------------------------------------------------------------
(* The candidate: clusterHandleSlaveFailover.                              *)

\* Its preconditions: this node is a replica of a master that serves slots.
CanFailover(n) == conf[n].owner[Home(n)] \notin {None, n}

\* auth_age > auth_retry_time: an election is scheduled.
Schedule(n) ==
  /\ CanFailover(n) /\ auth[n].phase \in {"idle", "expired"}
  /\ auth' = [auth EXCEPT ![n] = [epoch |-> auth[n].epoch, count |-> 0, phase |-> "waiting"]]
  /\ tally' = [tally EXCEPT ![n] = {}]
  /\ UNCHANGED <<conf, disk, requests, acks, faults, votes, winners, forgotten>>

\* auth_age > auth_timeout: it is too late to ask for votes or to win.
Expire(n) ==
  /\ auth[n].phase \in {"waiting", "asked"}
  /\ auth' = [auth EXCEPT ![n] =
       [epoch |-> auth[n].epoch, count |-> auth[n].count, phase |-> "expired"]]
  /\ UNCHANGED <<conf, disk, requests, acks, faults, votes, tally, winners, forgotten>>

\* The delay is over: clusterRequestFailoverAuth in a new epoch.
Start(n) ==
  LET c == SeenEpoch(conf[n], conf[n].currentEpoch + 1) IN
  /\ CanFailover(n) /\ auth[n].phase = "waiting"
  /\ c.currentEpoch <= MaxEpoch
  /\ conf' = [conf EXCEPT ![n] = c]
  /\ disk' = [disk EXCEPT ![n] = c]
  /\ auth' = [auth EXCEPT ![n] =
       [epoch |-> c.currentEpoch, count |-> auth[n].count, phase |-> "asked"]]
  /\ requests' = requests \cup
       {[from |-> n, to |-> m, currentEpoch |-> c.currentEpoch, configEpoch |-> c.epoch[Home(n)]] :
          m \in Node \ {n}}
  /\ UNCHANGED <<acks, faults, votes, tally, winners, forgotten>>

\* clusterFailoverReplaceYourMaster
ReplaceMaster(n, c) ==
  [c EXCEPT !.owner = [c.owner EXCEPT ![Home(n)] = n],
            !.epoch = [c.epoch EXCEPT ![Home(n)] = c.configEpoch]]

\* The quorum is reached.
Win(n) ==
  LET c == conf[n] IN
  /\ CanFailover(n) /\ auth[n].phase = "asked" /\ auth[n].count >= Quorum(c)
  /\ Apply(n, ReplaceMaster(n,
       [c EXCEPT !.configEpoch = Greater(c.configEpoch, auth[n].epoch)]))
  /\ winners' = winners \cup {[node |-> n, epoch |-> auth[n].epoch, tally |-> tally[n]]}
  /\ UNCHANGED <<auth, requests, acks, faults, votes, tally, forgotten>>

\* clusterBumpConfigEpochWithoutConsensus
Bumped(c) ==
  IF /\ c.configEpoch # 0 /\ c.configEpoch >= c.currentEpoch
     /\ \A s \in Shard : c.configEpoch >= c.epoch[s]
  THEN c
  ELSE [c EXCEPT !.currentEpoch = c.currentEpoch + 1, !.configEpoch = c.currentEpoch + 1]

\* CLUSTER FAILOVER TAKEOVER
Takeover(n) ==
  /\ faults < MaxFault /\ faults' = faults + 1
  /\ CanFailover(n)
  /\ Apply(n, ReplaceMaster(n, Bumped(conf[n])))
  /\ UNCHANGED <<auth, requests, acks, votes, tally, winners, forgotten>>

\* A vote: it counts when its sender is a master with slots and its epoch is
\* not older than the election's.
Ack(n, m) ==
  LET c == SeenEpoch(conf[n], m.currentEpoch)
      counts == IsMaster(c, m.from) /\ m.currentEpoch >= auth[n].epoch
  IN
  /\ m \in acks /\ m.to = n
  /\ Apply(n, c)
  /\ auth' = [auth EXCEPT ![n] =
       [epoch |-> auth[n].epoch, count |-> auth[n].count + (IF counts THEN 1 ELSE 0),
        phase |-> auth[n].phase]]
  /\ tally' = [tally EXCEPT ![n] =
       tally[n] \cup (IF counts THEN {<<m.from, m.currentEpoch>>} ELSE {})]
  /\ acks' = acks \ {m}
  /\ UNCHANGED <<requests, faults, votes, winners, forgotten>>

----------------------------------------------------------------------------
(* The voter: clusterSendFailoverAuthIfNeeded.                             *)

\* The configuration of n when it has read the epoch of the request m, and
\* when it has voted for it
Asked(n, m) == SeenEpoch(conf[n], m.currentEpoch)
Voted(n, m) == [Asked(n, m) EXCEPT !.lastVoteEpoch = Asked(n, m).currentEpoch]

\* Mutant: a voter does not remember that it voted in this epoch.
MayVoteAgain(n, m) ==
  LET c == Asked(n, m)
      s == Home(m.from)
  IN
  /\ IsMaster(c, n) /\ m.currentEpoch >= c.currentEpoch /\ ~IsMaster(c, m.from)
  /\ c.owner[s] # None => c.epoch[s] <= m.configEpoch

\* The conditions of a vote: this node is a master with slots, the epoch is not
\* old, it did not vote in it, the sender is a replica, and the sender's master
\* is not older than the slots' present owner.
MayVote(n, m) ==
  LET c == Asked(n, m)
      s == Home(m.from)
  IN
  /\ IsMaster(c, n)
  /\ m.currentEpoch >= c.currentEpoch
  /\ c.lastVoteEpoch # c.currentEpoch
  /\ ~IsMaster(c, m.from)
  /\ c.owner[s] # None => c.epoch[s] <= m.configEpoch

AckOf(n, m) == [from |-> n, to |-> m.from, currentEpoch |-> Voted(n, m).currentEpoch]

Vote(n, m) ==
  /\ m \in requests /\ m.to = n /\ MayVote(n, m)
  /\ Apply(n, Voted(n, m))
  /\ requests' = requests \ {m}
  /\ acks' = acks \cup {AckOf(n, m)}
  /\ votes' = votes \cup {<<n, m.from, m.currentEpoch>>}
  /\ UNCHANGED <<auth, faults, tally, winners, forgotten>>

\* The request is refused: only its epoch is taken.  (One that tells no new epoch
\* may as well never arrive.)
Deny(n, m) ==
  /\ m \in requests /\ m.to = n /\ Asked(n, m) # conf[n]
  /\ Apply(n, Asked(n, m))
  /\ requests' = requests \ {m}
  /\ UNCHANGED <<auth, acks, faults, votes, tally, winners, forgotten>>

----------------------------------------------------------------------------
(* A crash and a restart.                                                  *)

\* clusterLoadConfig: currentEpoch is not smaller than any configEpoch.
Loaded(c) ==
  [c EXCEPT !.currentEpoch =
     CHOOSE e \in {c.currentEpoch} \cup {c.epoch[s] : s \in Shard} :
       e >= c.currentEpoch /\ \A s \in Shard : e >= c.epoch[s]]

Restart(n) ==
  /\ faults < MaxFault /\ faults' = faults + 1
  /\ conf' = [conf EXCEPT ![n] = Loaded(disk[n])]
  /\ auth' = [auth EXCEPT ![n] = NoAuth]
  /\ tally' = [tally EXCEPT ![n] = {}]
  /\ requests' = {m \in requests : m.to # n}
  /\ UNCHANGED <<disk, winners>>

Crash(n) ==
  /\ Restart(n)
  /\ acks' = {m \in acks : m.to # n}
  /\ UNCHANGED <<votes, forgotten>>

\* clusterSendMessage: a link that already had packets to write may send the
\* vote in the same iteration of the event loop, and the process may then die
\* before clusterBeforeSleep saves lastVoteEpoch.
VoteAndCrash(n, m) ==
  /\ m \in requests /\ m.to = n /\ MayVote(n, m)
  /\ Restart(n)
  /\ acks' = {o \in acks : o.to # n} \cup {AckOf(n, m)}
  /\ votes' = votes \cup {<<n, m.from, m.currentEpoch>>}
  /\ forgotten' = forgotten \cup {<<n, m.currentEpoch>>}

----------------------------------------------------------------------------

Next ==
  \E n \in Node :
    \/ \E m \in Node : Ping(n, m) \/ Update(n, m)
    \/ Schedule(n) \/ Expire(n) \/ Start(n) \/ Win(n) \/ Takeover(n) \/ Crash(n)
    \/ \E m \in acks : Ack(n, m)
    \/ \E m \in requests : Vote(n, m) \/ Deny(n, m) \/ VoteAndCrash(n, m)

Spec == Init /\ [][Next]_vars

\* Every node keeps sending its header to every other (clusterCron), and the
\* time of an election runs out.
FairSpec ==
  /\ Spec
  /\ WF_vars(\E n, m \in Node : Ping(n, m) \/ Update(n, m))
  /\ \A n \in Node : WF_vars(Expire(n))

----------------------------------------------------------------------------

\* The votes of w's count that were cast in another epoch than the election's
Late(w) == {v \in w.tally : v[2] # w.epoch}

\* A node never votes for two candidates in one epoch, crashes included, unless
\* the first vote left before it was saved (cluster.c:3415).
VotesOnce ==
  \A v, w \in votes :
    v[1] = w[1] /\ v[3] = w[3] /\ v[2] # w[2] => <<v[1], v[3]>> \in forgotten

\* Two replicas never win elections with the same vote, however old the votes
\* in their counts are (cluster.c:2577).
WinnersShareNoVote ==
  \A v, w \in winners :
    v.node # w.node => \A x \in v.tally \cap w.tally : x \in forgotten

\* Two replicas win elections of the same epoch only if one of them counted a
\* vote of an earlier epoch or a voter lost its vote in a crash.
OneWinnerUnlessStale ==
  \A v, w \in winners :
    v.epoch = w.epoch /\ v.node # w.node =>
      Late(v) # {} \/ Late(w) # {} \/ \E f \in forgotten : f[2] = v.epoch

\* No node knows, or saved, a configEpoch greater than its currentEpoch: the
\* next election's epoch is new (cluster.c:385).
EpochsBounded ==
  \A n \in Node, s \in Shard : /\ conf[n].epoch[s] <= conf[n].currentEpoch
                               /\ disk[n].epoch[s] <= disk[n].currentEpoch

\* When there are no more elections and crashes, all nodes come to agree on the
\* owner of every shard, whichever nodes took the slots with whichever epochs
\* (cluster.c:1867, 1389).
Agreed == \A n, m \in Node : conf[n].owner = conf[m].owner
Converges == <>[]Agreed

=============================================================================
