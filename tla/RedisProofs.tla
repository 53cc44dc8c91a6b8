--------------------------- MODULE RedisProofs ---------------------------
(***************************************************************************)
(* Proofs about two parts of Redis: the elections of Redis Cluster, for    *)
(* any number of shards, replicas, epochs, crashes and takeovers, and      *)
(* threaded I/O, for any number of threads and clients.                    *)
(*                                                                         *)
(* Elections.  The invariant says that nothing a node knows is newer than  *)
(* its currentEpoch, that a vote which was sent is remembered in memory    *)
(* and on disk unless it was forgotten, and that whatever is in flight, in *)
(* a count or in a victory was voted.                                      *)
(***************************************************************************)
EXTENDS Cluster, TLAPS

Conf == [currentEpoch : Nat, lastVoteEpoch : Nat, configEpoch : Nat,
         owner : [Shard -> Node \cup {None}], epoch : [Shard -> Nat]]

TypeOK ==
  /\ conf \in [Node -> Conf] /\ disk \in [Node -> Conf]
  /\ auth \in [Node -> [epoch : Nat, count : Nat, phase : {"idle", "waiting", "asked", "expired"}]]
  /\ requests \subseteq [from : Node, to : Node, currentEpoch : Nat, configEpoch : Nat]
  /\ acks \subseteq [from : Node, to : Node, currentEpoch : Nat]
  /\ votes \subseteq Node \X Node \X Nat
  /\ tally \in [Node -> SUBSET (Node \X Nat)]
  /\ winners \subseteq [node : Node, epoch : Nat, tally : SUBSET (Node \X Nat)]
  /\ forgotten \subseteq Node \X Nat

\* Nothing in a configuration is newer than its currentEpoch.
Good(c) ==
  /\ c \in Conf
  /\ c.lastVoteEpoch <= c.currentEpoch /\ c.configEpoch <= c.currentEpoch
  /\ \A s \in Shard : c.epoch[s] <= c.currentEpoch

\* c2 may follow c: its epoch is not smaller and its last vote is the same.
Follows(c, c2) ==
  Good(c2) /\ c2.currentEpoch >= c.currentEpoch /\ c2.lastVoteEpoch = c.lastVoteEpoch

\* Every node has a home shard.
LEMMA HomeType == ASSUME NEW n \in Node PROVE Home(n) \in Shard
BY ClusterAssumption DEF Home, Node

\* clusterProcessPacket raises currentEpoch to the sender's, and nothing else.
LEMMA SeenEpochFollows ==
  ASSUME NEW c, Good(c), NEW e \in Nat
  PROVE  Follows(c, SeenEpoch(c, e)) /\ SeenEpoch(c, e).currentEpoch >= e
BY DEF Good, Conf, Follows, SeenEpoch, Greater

\* New owners and epochs of the shards, none of them newer than currentEpoch
LEMMA SlotsFollow ==
  ASSUME NEW c, Good(c), NEW o \in [Shard -> Node \cup {None}], NEW p \in [Shard -> Nat],
         \A t \in Shard : p[t] <= c.currentEpoch
  PROVE  Follows(c, [c EXCEPT !.owner = o, !.epoch = p])
<1> DEFINE r == [c EXCEPT !.owner = o, !.epoch = p]
<1>1. c \in Conf
  BY DEF Good
<1>2. r \in Conf
  BY <1>1, Zenon DEF Conf
<1>3. /\ r.currentEpoch = c.currentEpoch /\ r.lastVoteEpoch = c.lastVoteEpoch
      /\ r.configEpoch = c.configEpoch /\ r.epoch = p
  BY <1>1 DEF Conf
<1>4. c.currentEpoch \in Nat
  BY <1>1 DEF Conf
<1> HIDE DEF r
<1>5. Follows(c, r)
  BY <1>2, <1>3, <1>4 DEF Good, Follows
<1> QED
  BY <1>5 DEF r

\* A claim of a shard with a known epoch (clusterUpdateSlotsConfigWith).
LEMMA ClaimedFollows ==
  ASSUME NEW c, Good(c), NEW s \in Shard, NEW m \in Node, NEW e \in Nat, e <= c.currentEpoch
  PROVE  Follows(c, Claimed(c, s, m, e))
<1> DEFINE f == IF c.owner[s] = m THEN Greater(c.epoch[s], e) ELSE e
           o == [c.owner EXCEPT ![s] = m]
           p == [c.epoch EXCEPT ![s] = f]
<1>1. f \in Nat /\ f <= c.currentEpoch
  BY DEF Good, Conf, Greater
<1> HIDE DEF f
<1>2. o \in [Shard -> Node \cup {None}] /\ p \in [Shard -> Nat]
  BY <1>1 DEF Good, Conf
<1>3. \A t \in Shard : p[t] <= c.currentEpoch
  BY <1>1 DEF Good, Conf
<1> DEFINE r == [c EXCEPT !.owner = o, !.epoch = p]
<1>4. Claimed(c, s, m, e) \in {c, r}
  BY DEF Claimed, f
<1> HIDE DEF o, p
<1>5. Follows(c, r)
  BY <1>2, <1>3, SlotsFollow, Zenon
<1>6. Follows(c, c)
  BY DEF Good, Conf, Follows
<1> HIDE DEF r
<1> QED
  BY <1>4, <1>5, <1>6

\* A master that has become a replica loses its shard.
LEMMA DemotedFollows ==
  ASSUME NEW c, Good(c), NEW m
  PROVE  Follows(c, Demoted(c, m))
BY DEF Good, Conf, Follows, Demoted

\* A new epoch after a collision (clusterHandleConfigEpochCollision).
LEMMA ResolveCollisionFollows ==
  ASSUME NEW c, Good(c), NEW n \in Node, NEW m, NEW e
  PROVE  Follows(c, ResolveCollision(c, n, m, e))
<1> DEFINE k == c.currentEpoch + 1
           p == [c.epoch EXCEPT ![Home(n)] = k]
           r == [c EXCEPT !.currentEpoch = k, !.configEpoch = k, !.epoch = p]
<1>1. c \in Conf /\ k \in Nat /\ k > c.currentEpoch
  BY DEF Good, Conf
<1>2. p \in [Shard -> Nat] /\ \A t \in Shard : p[t] <= k
  BY <1>1, HomeType DEF Good, Conf
<1> HIDE DEF k, p
<1>3. r \in Conf
  BY <1>1, <1>2, Zenon DEF Conf
<1>4. /\ r.currentEpoch = k /\ r.lastVoteEpoch = c.lastVoteEpoch
      /\ r.configEpoch = k /\ r.epoch = p
  BY <1>1 DEF Conf
<1>5. c.currentEpoch \in Nat /\ c.lastVoteEpoch \in Nat /\ c.lastVoteEpoch <= c.currentEpoch
  BY DEF Good, Conf
<1>6. ResolveCollision(c, n, m, e) \in {c, r}
  BY DEF ResolveCollision, k, p
<1> HIDE DEF r
<1>7. Follows(c, r)
  BY <1>1, <1>2, <1>3, <1>4, <1>5 DEF Good, Follows
<1>8. Follows(c, c)
  BY <1>5 DEF Follows
<1> QED
  BY <1>6, <1>7, <1>8

\* The shard of a failed-over master (clusterFailoverReplaceYourMaster).
LEMMA ReplaceMasterFollows ==
  ASSUME NEW c, Good(c), NEW n \in Node
  PROVE  Follows(c, ReplaceMaster(n, c))
<1> DEFINE o == [c.owner EXCEPT ![Home(n)] = n]
           p == [c.epoch EXCEPT ![Home(n)] = c.configEpoch]
<1>1. o \in [Shard -> Node \cup {None}] /\ p \in [Shard -> Nat]
  BY HomeType DEF Good, Conf
<1>2. \A t \in Shard : p[t] <= c.currentEpoch
  BY HomeType DEF Good, Conf
<1> HIDE DEF o, p
<1>3. Follows(c, [c EXCEPT !.owner = o, !.epoch = p])
  BY <1>1, <1>2, SlotsFollow, Zenon
<1> QED
  BY <1>3 DEF ReplaceMaster, o, p

\* Follows is transitive on good configurations.
LEMMA Transitive ==
  ASSUME NEW a, NEW b, NEW c, Good(a), Good(b), Follows(a, b), Follows(b, c)
  PROVE  Follows(a, c)
BY DEF Good, Conf, Follows

\* A whole PING: the epoch, the claim and the collision.
LEMMA AfterPingFollows ==
  ASSUME NEW n \in Node, NEW c, Good(c), NEW m \in Node, NEW h, Good(h)
  PROVE  Follows(c, AfterPing(n, c, m, h))
<1> DEFINE s == Home(m)
           c1 == SeenEpoch(c, h.currentEpoch)
           c2 == Claimed(c1, s, m, h.epoch[s])
<1>1. s \in Shard /\ h.currentEpoch \in Nat /\ h.epoch[s] \in Nat /\ h.epoch[s] <= h.currentEpoch
  BY HomeType DEF Good, Conf
<1>2. Follows(c, c1) /\ c1.currentEpoch >= h.currentEpoch
  BY <1>1, SeenEpochFollows
<1>3. Good(c1) /\ c1.currentEpoch \in Nat
  BY <1>2 DEF Follows, Good, Conf
<1>4. AfterPing(n, c, m, h) \in {ResolveCollision(c2, n, m, h.epoch[s]), Demoted(c1, m)}
  BY DEF AfterPing
<1> HIDE DEF s, c1
<1>5. Follows(c1, c2)
  BY <1>1, <1>2, <1>3, ClaimedFollows
<1> HIDE DEF c2
<1>6. Follows(c2, ResolveCollision(c2, n, m, h.epoch[s])) /\ Good(c2)
  BY <1>5, ResolveCollisionFollows DEF Follows
<1>7. Follows(c1, Demoted(c1, m))
  BY <1>3, DemotedFollows
<1>8. Follows(c, c2)
  BY <1>2, <1>3, <1>5, <1>6, Transitive
<1> QED
  BY <1>2, <1>3, <1>4, <1>6, <1>7, <1>8, Transitive

\* A new epoch without agreement (clusterBumpConfigEpochWithoutConsensus).
LEMMA BumpedFollows ==
  ASSUME NEW c, Good(c)
  PROVE  Follows(c, Bumped(c))
<1> DEFINE k == c.currentEpoch + 1
           r == [c EXCEPT !.currentEpoch = k, !.configEpoch = k]
<1>1. c \in Conf /\ k \in Nat /\ k > c.currentEpoch
  BY DEF Good, Conf
<1>2. Bumped(c) \in {c, r}
  BY DEF Bumped
<1> HIDE DEF k
<1>3. r \in Conf
  BY <1>1, Zenon DEF Conf
<1>4. /\ r.currentEpoch = k /\ r.lastVoteEpoch = c.lastVoteEpoch
      /\ r.configEpoch = k /\ r.epoch = c.epoch
  BY <1>1 DEF Conf
<1>5. /\ c.currentEpoch \in Nat /\ c.lastVoteEpoch \in Nat /\ c.lastVoteEpoch <= c.currentEpoch
      /\ \A s \in Shard : c.epoch[s] \in Nat /\ c.epoch[s] <= c.currentEpoch
  BY DEF Good, Conf
<1> HIDE DEF r
<1>6. Follows(c, r)
  BY <1>1, <1>3, <1>4, <1>5 DEF Good, Follows
<1> QED
  BY <1>2, <1>5, <1>6 DEF Follows

----------------------------------------------------------------------------
(* The inductive invariant                                                 *)

\* A vote is on record at its voter, unless it was forgotten.
Remembered(v) ==
  \/ <<v[1], v[3]>> \in forgotten
  \/ conf[v[1]].lastVoteEpoch >= v[3] /\ disk[v[1]].lastVoteEpoch >= v[3]

Confs == \A n \in Node : Good(conf[n]) /\ Good(disk[n])
AuthEpochs == \A n \in Node : auth[n].epoch <= conf[n].currentEpoch
Memory == \A v \in votes : Remembered(v)
AcksAreVotes == \A a \in acks : <<a.from, a.to, a.currentEpoch>> \in votes
TalliesAreVotes == \A n \in Node : \A x \in tally[n] : <<x[1], n, x[2]>> \in votes
WinsAreVotes == \A w \in winners : \A x \in w.tally : <<x[1], w.node, x[2]>> \in votes

IInv ==
  /\ TypeOK /\ Confs /\ AuthEpochs /\ Memory /\ VotesOnce
  /\ AcksAreVotes /\ TalliesAreVotes /\ WinsAreVotes

\* The configuration a node starts with is good.
LEMMA InitConf ==
  ASSUME NEW n \in Node
  PROVE  Good([currentEpoch |-> FirstEpoch, lastVoteEpoch |-> 0,
               configEpoch |-> IF n \in Shard THEN Id[n] ELSE 0,
               owner |-> [s \in Shard |-> s], epoch |-> [s \in Shard |-> Id[s]]])
<1> DEFINE k == IF n \in Shard THEN Id[n] ELSE 0
           o == [s \in Shard |-> s]
           p == [s \in Shard |-> Id[s]]
<1>1. FirstEpoch \in Nat /\ k \in Nat /\ k <= FirstEpoch
  BY ClusterAssumption DEF Node
<1>2. o \in [Shard -> Node \cup {None}] /\ p \in [Shard -> Nat]
  BY ClusterAssumption DEF Node
<1>3. \A s \in Shard : p[s] <= FirstEpoch
  BY ClusterAssumption DEF Node
<1> HIDE DEF k, o, p
<1>4. Good([currentEpoch |-> FirstEpoch, lastVoteEpoch |-> 0, configEpoch |-> k,
            owner |-> o, epoch |-> p])
  BY <1>1, <1>2, <1>3 DEF Good, Conf
<1> QED
  BY <1>4 DEF k, o, p

\* The invariant holds initially.
LEMMA InitInvariant == Init => IInv
<1> SUFFICES ASSUME Init PROVE IInv
  OBVIOUS
<1>1. Confs /\ \A n \in Node : conf[n].currentEpoch = FirstEpoch
  BY InitConf, Zenon DEF Init, Confs
<1>2. conf \in [Node -> Conf] /\ disk \in [Node -> Conf]
  <2>1. \A n \in Node : conf[n] \in Conf
    BY <1>1 DEF Confs, Good
  <2>2. conf = [n \in Node |-> conf[n]] /\ disk = conf
    BY DEF Init
  <2> QED BY <2>1, <2>2
<1>3. auth \in [Node -> [epoch : Nat, count : Nat, phase : {"idle", "waiting", "asked", "expired"}]]
  BY DEF Init, NoAuth
<1>4. TypeOK
  BY <1>2, <1>3, Zenon DEF Init, TypeOK
<1>5. AuthEpochs
  BY <1>1, ClusterAssumption DEF Init, NoAuth, AuthEpochs
<1>6. Memory /\ VotesOnce /\ AcksAreVotes /\ TalliesAreVotes /\ WinsAreVotes
  BY DEF Init, Memory, VotesOnce, AcksAreVotes, TalliesAreVotes, WinsAreVotes
<1> QED
  BY <1>1, <1>4, <1>5, <1>6 DEF IInv

\* A step of the configuration of n to one that follows it, saved or not
LEMMA ConfStep ==
  ASSUME TypeOK, Confs, NEW n \in Node, NEW c, Follows(conf[n], c),
         NEW d, d \in {disk[n], c},
         conf' = [conf EXCEPT ![n] = c], disk' = [disk EXCEPT ![n] = d]
  PROVE  /\ conf' \in [Node -> Conf] /\ disk' \in [Node -> Conf] /\ Confs'
         /\ \A k \in Node : /\ conf'[k].currentEpoch >= conf[k].currentEpoch
                           /\ conf'[k].lastVoteEpoch = conf[k].lastVoteEpoch
                           /\ disk'[k].lastVoteEpoch \in {conf[k].lastVoteEpoch, disk[k].lastVoteEpoch}
<1>1. Good(c) /\ Good(d) /\ c \in Conf /\ d \in Conf
  BY DEF Follows, Confs, Good
<1>2. \A k \in Node : /\ conf'[k] = IF k = n THEN c ELSE conf[k]
                     /\ disk'[k] = IF k = n THEN d ELSE disk[k]
  BY DEF TypeOK
<1>3. conf' \in [Node -> Conf] /\ disk' \in [Node -> Conf]
  BY <1>1 DEF TypeOK
<1>4. Confs'
  BY <1>1, <1>2 DEF Confs
<1>5. ASSUME NEW k \in Node
      PROVE  /\ conf'[k].currentEpoch >= conf[k].currentEpoch
             /\ conf'[k].lastVoteEpoch = conf[k].lastVoteEpoch
             /\ disk'[k].lastVoteEpoch \in {conf[k].lastVoteEpoch, disk[k].lastVoteEpoch}
  <2>1. conf[k].currentEpoch \in Nat
    BY DEF TypeOK, Conf
  <2>2. /\ c.currentEpoch >= conf[n].currentEpoch /\ c.lastVoteEpoch = conf[n].lastVoteEpoch
        /\ d.lastVoteEpoch \in {conf[n].lastVoteEpoch, disk[n].lastVoteEpoch}
    BY DEF Follows
  <2> QED BY <1>2, <2>1, <2>2
<1> QED
  BY <1>3, <1>4, <1>5

\* What is on record stays on record when no lastVoteEpoch gets smaller.
LEMMA MemoryKept ==
  ASSUME TypeOK, Memory, forgotten \subseteq forgotten',
         \A k \in Node : /\ conf'[k].lastVoteEpoch \in {conf[k].lastVoteEpoch, disk[k].lastVoteEpoch}
                        /\ disk'[k].lastVoteEpoch \in {conf[k].lastVoteEpoch, disk[k].lastVoteEpoch}
  PROVE  \A v \in votes : Remembered(v)'
<1> SUFFICES ASSUME NEW v \in votes PROVE Remembered(v)'
  OBVIOUS
<1>1. v[1] \in Node /\ Remembered(v)
  BY DEF TypeOK, Memory
<1> QED
  BY <1>1 DEF Remembered

\* A step that changes a configuration, and nothing of votes and elections
LEMMA ApplyStep ==
  ASSUME IInv, NEW n \in Node, NEW c, Follows(conf[n], c), Apply(n, c),
         UNCHANGED <<auth, requests, acks, votes, tally, winners, forgotten>>
  PROVE  IInv'
<1>0. Saved(n, c) \in {disk[n], c}
  BY DEF Saved
<1>1. /\ conf' \in [Node -> Conf] /\ disk' \in [Node -> Conf] /\ Confs'
      /\ \A k \in Node : /\ conf'[k].currentEpoch >= conf[k].currentEpoch
                        /\ conf'[k].lastVoteEpoch = conf[k].lastVoteEpoch
                        /\ disk'[k].lastVoteEpoch \in {conf[k].lastVoteEpoch, disk[k].lastVoteEpoch}
  BY <1>0, ConfStep, Zenon DEF IInv, Apply
<1>2. TypeOK'
  BY <1>1 DEF IInv, TypeOK
<1>3. AuthEpochs'
  BY <1>1, <1>2 DEF IInv, AuthEpochs, TypeOK, Conf
<1>4. Memory'
  BY <1>1, MemoryKept DEF IInv, Memory
<1>5. (VotesOnce /\ AcksAreVotes /\ TalliesAreVotes /\ WinsAreVotes)'
  BY DEF IInv, VotesOnce, AcksAreVotes, TalliesAreVotes, WinsAreVotes
<1> QED
  BY <1>1, <1>2, <1>3, <1>4, <1>5 DEF IInv

----------------------------------------------------------------------------
(* One lemma per action                                                    *)

\* One lemma per action from here on: a PING or PONG arrives.
LEMMA PingStep ==
  ASSUME IInv, NEW n \in Node, NEW m \in Node, Ping(n, m)
  PROVE  IInv'
<1>1. Good(conf[n]) /\ Good(conf[m])
  BY DEF IInv, Confs
<1>2. Follows(conf[n], AfterPing(n, conf[n], m, conf[m]))
  BY <1>1, AfterPingFollows
<1> QED
  BY <1>2, ApplyStep DEF Ping

\* An UPDATE arrives.
LEMMA UpdateStep ==
  ASSUME IInv, NEW n \in Node, NEW m \in Node, Update(n, m)
  PROVE  IInv'
<1> DEFINE s == Home(n)
           h == conf[m]
           c1 == SeenEpoch(conf[n], h.currentEpoch)
           c2 == Claimed(c1, s, h.owner[s], h.epoch[s])
<1>1. Good(conf[n]) /\ Good(h) /\ s \in Shard
  BY HomeType DEF IInv, Confs
<1>2. /\ h.currentEpoch \in Nat /\ h.epoch[s] \in Nat /\ h.epoch[s] <= h.currentEpoch
      /\ h.owner[s] \in Node
  BY <1>1 DEF Good, Conf, Update
<1>3. Follows(conf[n], c1) /\ c1.currentEpoch >= h.currentEpoch
  BY <1>1, <1>2, SeenEpochFollows
<1>4. Good(c1) /\ c1.currentEpoch \in Nat
  BY <1>3 DEF Follows, Good, Conf
<1>5. Apply(n, c2) /\ UNCHANGED <<auth, requests, acks, votes, tally, winners, forgotten>>
  BY DEF Update
<1> HIDE DEF s, h, c1
<1>6. Follows(c1, c2)
  BY <1>1, <1>2, <1>3, <1>4, ClaimedFollows
<1> HIDE DEF c2
<1>7. Follows(conf[n], c2)
  BY <1>1, <1>3, <1>4, <1>6, Transitive
<1> QED
  BY <1>5, <1>7, ApplyStep

\* CLUSTER FAILOVER TAKEOVER.
LEMMA TakeoverStep ==
  ASSUME IInv, NEW n \in Node, Takeover(n)
  PROVE  IInv'
<1> DEFINE c1 == Bumped(conf[n])
           c2 == ReplaceMaster(n, c1)
<1>1. Good(conf[n])
  BY DEF IInv, Confs
<1>2. Follows(conf[n], c1) /\ Good(c1)
  BY <1>1, BumpedFollows DEF Follows
<1>3. Apply(n, c2) /\ UNCHANGED <<auth, requests, acks, votes, tally, winners, forgotten>>
  BY DEF Takeover
<1> HIDE DEF c1
<1>4. Follows(c1, c2)
  BY <1>2, ReplaceMasterFollows
<1> HIDE DEF c2
<1>5. Follows(conf[n], c2)
  BY <1>1, <1>2, <1>4, Transitive
<1> QED
  BY <1>3, <1>5, ApplyStep

\* A request for a vote is not granted.
LEMMA DenyStep ==
  ASSUME IInv, NEW n \in Node, NEW m \in requests, Deny(n, m)
  PROVE  IInv'
<1>1. Good(conf[n]) /\ m.currentEpoch \in Nat
  BY DEF IInv, Confs, TypeOK
<1>2. Follows(conf[n], Asked(n, m))
  BY <1>1, SeenEpochFollows DEF Asked
<1>3. Saved(n, Asked(n, m)) \in {disk[n], Asked(n, m)}
  BY DEF Saved
<1>4. /\ conf' \in [Node -> Conf] /\ disk' \in [Node -> Conf] /\ Confs'
      /\ \A k \in Node : /\ conf'[k].currentEpoch >= conf[k].currentEpoch
                        /\ conf'[k].lastVoteEpoch = conf[k].lastVoteEpoch
                        /\ disk'[k].lastVoteEpoch \in {conf[k].lastVoteEpoch, disk[k].lastVoteEpoch}
  BY <1>2, <1>3, ConfStep, Zenon DEF IInv, Apply, Deny
<1>5. TypeOK'
  BY <1>4 DEF IInv, TypeOK, Deny
<1>6. AuthEpochs'
  BY <1>4, <1>5 DEF IInv, AuthEpochs, TypeOK, Conf, Deny
<1>7. Memory'
  BY <1>4, MemoryKept DEF IInv, Memory, Deny
<1>8. (VotesOnce /\ AcksAreVotes /\ TalliesAreVotes /\ WinsAreVotes)'
  BY DEF IInv, VotesOnce, AcksAreVotes, TalliesAreVotes, WinsAreVotes, Deny
<1> QED
  BY <1>4, <1>5, <1>6, <1>7, <1>8 DEF IInv

\* An election is scheduled.
LEMMA ScheduleStep ==
  ASSUME IInv, NEW n \in Node, Schedule(n)
  PROVE  IInv'
<1>1. TypeOK'
  BY DEF IInv, TypeOK, Schedule
<1>2. AuthEpochs'
  BY DEF IInv, TypeOK, AuthEpochs, Schedule
<1>3. TalliesAreVotes'
  BY Zenon DEF IInv, TypeOK, TalliesAreVotes, Schedule
<1>4. (Confs /\ Memory /\ VotesOnce /\ AcksAreVotes /\ WinsAreVotes)'
  BY DEF IInv, Confs, Memory, Remembered, VotesOnce, AcksAreVotes, WinsAreVotes, Schedule
<1> QED
  BY <1>1, <1>2, <1>3, <1>4 DEF IInv

\* An election times out.
LEMMA ExpireStep ==
  ASSUME IInv, NEW n \in Node, Expire(n)
  PROVE  IInv'
<1>1. TypeOK'
  BY DEF IInv, TypeOK, Expire
<1>2. AuthEpochs'
  BY DEF IInv, TypeOK, AuthEpochs, Expire
<1>3. (Confs /\ Memory /\ VotesOnce /\ AcksAreVotes /\ TalliesAreVotes /\ WinsAreVotes)'
  BY DEF IInv, Confs, Memory, Remembered, VotesOnce, AcksAreVotes, TalliesAreVotes,
         WinsAreVotes, Expire
<1> QED
  BY <1>1, <1>2, <1>3 DEF IInv

\* The replica asks for votes: the count starts again.
LEMMA StartStep ==
  ASSUME IInv, NEW n \in Node, Start(n)
  PROVE  IInv'
<1> DEFINE c == SeenEpoch(conf[n], conf[n].currentEpoch + 1)
<1>1. Good(conf[n]) /\ conf[n].currentEpoch + 1 \in Nat
  BY DEF IInv, Confs, Good, Conf
<1>2. Follows(conf[n], c)
  BY <1>1, SeenEpochFollows
<1>3. conf' = [conf EXCEPT ![n] = c] /\ disk' = [disk EXCEPT ![n] = c]
  BY DEF Start
<1>4. /\ auth' = [auth EXCEPT ![n] =
             [epoch |-> c.currentEpoch, count |-> auth[n].count, phase |-> "asked"]]
      /\ requests' = requests \cup
           {[from |-> n, to |-> m, currentEpoch |-> c.currentEpoch,
             configEpoch |-> c.epoch[Home(n)]] : m \in Node \ {n}}
      /\ UNCHANGED <<acks, votes, tally, winners, forgotten>>
  BY DEF Start
<1> HIDE DEF c
<1>5. /\ conf' \in [Node -> Conf] /\ disk' \in [Node -> Conf] /\ Confs'
      /\ \A k \in Node : /\ conf'[k].currentEpoch >= conf[k].currentEpoch
                        /\ conf'[k].lastVoteEpoch = conf[k].lastVoteEpoch
                        /\ disk'[k].lastVoteEpoch \in {conf[k].lastVoteEpoch, disk[k].lastVoteEpoch}
  BY <1>2, <1>3, ConfStep, Zenon DEF IInv
<1>6. c.currentEpoch \in Nat /\ c.epoch[Home(n)] \in Nat
  BY <1>2, HomeType DEF Follows, Good, Conf
<1>7. auth' \in [Node -> [epoch : Nat, count : Nat,
                        phase : {"idle", "waiting", "asked", "expired"}]]
  BY <1>4, <1>6 DEF IInv, TypeOK
<1>8. requests' \subseteq [from : Node, to : Node, currentEpoch : Nat, configEpoch : Nat]
  BY <1>4, <1>6 DEF IInv, TypeOK
<1>9. TypeOK'
  BY <1>4, <1>5, <1>7, <1>8 DEF IInv, TypeOK
<1>10. AuthEpochs'
  <2>1. \A k \in Node : auth'[k].epoch = IF k = n THEN c.currentEpoch ELSE auth[k].epoch
    BY <1>4 DEF IInv, TypeOK
  <2>2. conf'[n] = c
    BY <1>3 DEF IInv, TypeOK
  <2>3. \A k \in Node : /\ auth[k].epoch \in Nat /\ auth[k].epoch <= conf[k].currentEpoch
                       /\ conf[k].currentEpoch \in Nat /\ conf'[k].currentEpoch \in Nat
    BY <1>9 DEF IInv, AuthEpochs, TypeOK, Conf
  <2> QED
    BY <1>5, <1>6, <2>1, <2>2, <2>3 DEF AuthEpochs
<1>11. Memory'
  BY <1>4, <1>5, MemoryKept DEF IInv, Memory
<1>12. (VotesOnce /\ AcksAreVotes /\ TalliesAreVotes /\ WinsAreVotes)'
  BY <1>4 DEF IInv, VotesOnce, AcksAreVotes, TalliesAreVotes, WinsAreVotes
<1> QED
  BY <1>5, <1>9, <1>10, <1>11, <1>12 DEF IInv

\* The replica has the majority and takes the shard.
LEMMA WinStep ==
  ASSUME IInv, NEW n \in Node, Win(n)
  PROVE  IInv'
<1> DEFINE c == conf[n]
           k == Greater(c.configEpoch, auth[n].epoch)
           c1 == [c EXCEPT !.configEpoch = k]
           c2 == ReplaceMaster(n, c1)
<1>1. Good(c) /\ c \in Conf
  BY DEF IInv, Confs, Good
<1>2. k \in Nat /\ k <= c.currentEpoch
  BY <1>1 DEF IInv, TypeOK, AuthEpochs, Good, Conf, Greater
<1>3. Apply(n, c2) /\ UNCHANGED <<auth, requests, acks, votes, tally, forgotten>>
  BY DEF Win
<1>4. winners' = winners \cup {[node |-> n, epoch |-> auth[n].epoch, tally |-> tally[n]]}
  BY DEF Win
<1> HIDE DEF c, k
<1>5. Follows(c, c1) /\ Good(c1)
  BY <1>1, <1>2 DEF Good, Conf, Follows
<1> HIDE DEF c1
<1>6. Follows(c1, c2)
  BY <1>5, ReplaceMasterFollows
<1> HIDE DEF c2
<1>7. Follows(conf[n], c2)
  BY <1>1, <1>5, <1>6, Transitive DEF c
<1>8. Saved(n, c2) \in {disk[n], c2}
  BY DEF Saved
<1>9. /\ conf' \in [Node -> Conf] /\ disk' \in [Node -> Conf] /\ Confs'
      /\ \A j \in Node : /\ conf'[j].currentEpoch >= conf[j].currentEpoch
                        /\ conf'[j].lastVoteEpoch = conf[j].lastVoteEpoch
                        /\ disk'[j].lastVoteEpoch \in {conf[j].lastVoteEpoch, disk[j].lastVoteEpoch}
  BY <1>3, <1>7, <1>8, ConfStep, Zenon DEF IInv, Apply
<1>10. TypeOK'
  BY <1>3, <1>4, <1>9 DEF IInv, TypeOK
<1>11. AuthEpochs'
  BY <1>3, <1>9, <1>10 DEF IInv, AuthEpochs, TypeOK, Conf
<1>12. Memory'
  BY <1>3, <1>9, MemoryKept DEF IInv, Memory
<1>13. WinsAreVotes'
  <2> DEFINE z == [node |-> n, epoch |-> auth[n].epoch, tally |-> tally[n]]
  <2>1. z.node = n /\ z.tally = tally[n]
    OBVIOUS
  <2>2. \A x \in z.tally : <<x[1], z.node, x[2]>> \in votes
    BY <2>1 DEF IInv, TalliesAreVotes
  <2>3. winners' = winners \cup {z}
    BY <1>4
  <2> HIDE DEF z
  <2> QED
    BY <1>3, <2>2, <2>3, Zenon DEF IInv, WinsAreVotes
<1>14. (VotesOnce /\ AcksAreVotes /\ TalliesAreVotes)'
  BY <1>3 DEF IInv, VotesOnce, AcksAreVotes, TalliesAreVotes
<1> QED
  BY <1>9, <1>10, <1>11, <1>12, <1>13, <1>14 DEF IInv

\* A vote arrives and is counted.
LEMMA AckStep ==
  ASSUME IInv, NEW n \in Node, NEW m \in acks, Ack(n, m)
  PROVE  IInv'
<1> DEFINE c == SeenEpoch(conf[n], m.currentEpoch)
           counts == IsMaster(c, m.from) /\ m.currentEpoch >= auth[n].epoch
           more == IF counts THEN 1 ELSE 0
           new == IF counts THEN {<<m.from, m.currentEpoch>>} ELSE {}
<1>1. /\ Good(conf[n]) /\ m.currentEpoch \in Nat /\ m.from \in Node /\ m.to = n
      /\ <<m.from, n, m.currentEpoch>> \in votes
  BY DEF IInv, Confs, TypeOK, AcksAreVotes, Ack
<1>2. Follows(conf[n], c)
  BY <1>1, SeenEpochFollows
<1>3. Apply(n, c) /\ UNCHANGED <<votes, winners, forgotten, requests>> /\ acks' \subseteq acks
  BY DEF Ack
<1>4. /\ auth' = [auth EXCEPT ![n] = [epoch |-> auth[n].epoch, count |-> auth[n].count + more,
                                     phase |-> auth[n].phase]]
      /\ tally' = [tally EXCEPT ![n] = tally[n] \cup new]
  BY DEF Ack
<1>5. more \in Nat /\ new \subseteq {<<m.from, m.currentEpoch>>}
  OBVIOUS
<1> HIDE DEF more, new
<1>6. Saved(n, c) \in {disk[n], c}
  BY DEF Saved
<1> HIDE DEF c
<1>7. /\ conf' \in [Node -> Conf] /\ disk' \in [Node -> Conf] /\ Confs'
      /\ \A j \in Node : /\ conf'[j].currentEpoch >= conf[j].currentEpoch
                        /\ conf'[j].lastVoteEpoch = conf[j].lastVoteEpoch
                        /\ disk'[j].lastVoteEpoch \in {conf[j].lastVoteEpoch, disk[j].lastVoteEpoch}
  BY <1>2, <1>3, <1>6, ConfStep, Zenon DEF IInv, Apply
<1>8. auth' \in [Node -> [epoch : Nat, count : Nat,
                        phase : {"idle", "waiting", "asked", "expired"}]]
  BY <1>4, <1>5 DEF IInv, TypeOK
<1>9. tally' \in [Node -> SUBSET (Node \X Nat)]
  BY <1>1, <1>4, <1>5 DEF IInv, TypeOK
<1>10. TypeOK'
  BY <1>3, <1>7, <1>8, <1>9 DEF IInv, TypeOK
<1>11. AuthEpochs'
  <2>1. \A j \in Node : auth'[j].epoch = auth[j].epoch
    BY <1>4 DEF IInv, TypeOK
  <2> QED
    BY <1>7, <1>10, <2>1 DEF IInv, AuthEpochs, TypeOK, Conf
<1>12. Memory'
  BY <1>3, <1>7, MemoryKept DEF IInv, Memory
<1>13. TalliesAreVotes'
  <2>1. \A j \in Node : tally'[j] \subseteq tally[j] \cup (IF j = n THEN new ELSE {})
    BY <1>4 DEF IInv, TypeOK
  <2> SUFFICES ASSUME NEW j \in Node, NEW x \in tally'[j]
               PROVE  <<x[1], j, x[2]>> \in votes
    BY <1>3, Zenon DEF TalliesAreVotes
  <2>2. CASE x \in tally[j]
    BY <2>2 DEF IInv, TalliesAreVotes
  <2>3. CASE j = n /\ x \in new
    BY <1>1, <1>5, <2>3
  <2> QED
    BY <2>1, <2>2, <2>3
<1>14. (VotesOnce /\ AcksAreVotes /\ WinsAreVotes)'
  BY <1>3 DEF IInv, VotesOnce, AcksAreVotes, WinsAreVotes
<1> QED
  BY <1>7, <1>10, <1>11, <1>12, <1>13, <1>14 DEF IInv

\* A voter that may vote has no vote of this epoch on record.
LEMMA VoterIsFree ==
  ASSUME IInv, NEW n \in Node, NEW m \in requests, MayVote(n, m)
  PROVE  /\ m.from \in Node /\ m.currentEpoch \in Nat
         /\ Good(Asked(n, m)) /\ Asked(n, m).currentEpoch = m.currentEpoch
         /\ m.currentEpoch >= conf[n].currentEpoch
         /\ conf[n].lastVoteEpoch < m.currentEpoch
<1>1. Good(conf[n]) /\ m.from \in Node /\ m.currentEpoch \in Nat
  BY DEF IInv, Confs, TypeOK
<1>2. Follows(conf[n], Asked(n, m)) /\ Asked(n, m).currentEpoch >= m.currentEpoch
  BY <1>1, SeenEpochFollows DEF Asked
<1>3. m.currentEpoch >= Asked(n, m).currentEpoch
      /\ Asked(n, m).lastVoteEpoch # Asked(n, m).currentEpoch
  BY DEF MayVote
<1> QED
  BY <1>1, <1>2, <1>3 DEF Follows, Good, Conf

\* A vote of a voter that is free does not contradict an earlier one.
LEMMA NewVote ==
  ASSUME IInv, NEW n \in Node, NEW r \in Node, NEW e \in Nat, conf[n].lastVoteEpoch < e,
         votes' = votes \cup {<<n, r, e>>}, forgotten \subseteq forgotten'
  PROVE  VotesOnce'
<1> SUFFICES ASSUME NEW v \in votes', NEW w \in votes',
                    v[1] = w[1], v[3] = w[3], v[2] # w[2]
             PROVE  <<v[1], v[3]>> \in forgotten'
  BY DEF VotesOnce
<1>1. CASE v \in votes /\ w \in votes
  BY <1>1 DEF IInv, VotesOnce
<1>2. ASSUME NEW x \in votes, x[1] = n, x[3] = e
      PROVE  <<n, e>> \in forgotten
  <2>1. Remembered(x) /\ conf[n].lastVoteEpoch \in Nat
    BY DEF IInv, Memory, TypeOK, Conf
  <2> QED BY <1>2, <2>1 DEF Remembered
<1>3. CASE v = <<n, r, e>>
  BY <1>2, <1>3
<1>4. CASE w = <<n, r, e>>
  BY <1>2, <1>4
<1> QED
  BY <1>1, <1>3, <1>4

\* The votes in flight, counted and won are among the votes, one more included.
LEMMA VotesGrow ==
  ASSUME IInv, NEW a, <<a.from, a.to, a.currentEpoch>> \in votes',
         votes \subseteq votes', acks' \subseteq acks \cup {a},
         \A k \in Node : tally'[k] \subseteq tally[k], winners' = winners
  PROVE  (AcksAreVotes /\ TalliesAreVotes /\ WinsAreVotes)'
<1>1. AcksAreVotes'
  BY Zenon DEF IInv, AcksAreVotes
<1>2. TalliesAreVotes'
  BY Zenon DEF IInv, TalliesAreVotes
<1>3. WinsAreVotes'
  BY Zenon DEF IInv, WinsAreVotes
<1> QED
  BY <1>1, <1>2, <1>3

\* A vote is granted and saved.
LEMMA VoteStep ==
  ASSUME IInv, NEW n \in Node, NEW m \in requests, Vote(n, m)
  PROVE  IInv'
<1> DEFINE e == m.currentEpoch
           q == Asked(n, m)
           c == [q EXCEPT !.lastVoteEpoch = q.currentEpoch]
           a == [from |-> n, to |-> m.from, currentEpoch |-> c.currentEpoch]
<1>1. /\ m.from \in Node /\ e \in Nat /\ Good(q) /\ q.currentEpoch = e
      /\ e >= conf[n].currentEpoch /\ conf[n].lastVoteEpoch < e
  BY VoterIsFree DEF Vote
<1>2. /\ Apply(n, c) /\ requests' \subseteq requests /\ acks' = acks \cup {a}
      /\ votes' = votes \cup {<<n, m.from, e>>}
      /\ UNCHANGED <<auth, tally, winners, forgotten>>
  BY DEF Vote, Voted, AckOf
<1> HIDE DEF q
<1>3. /\ Good(c) /\ c \in Conf /\ c.currentEpoch = e /\ c.lastVoteEpoch = e
  BY <1>1 DEF Good, Conf
<1> HIDE DEF e
<1>4. Saved(n, c) = c
  <2>1. conf[n] \in Conf /\ conf[n].lastVoteEpoch # c.lastVoteEpoch
    BY <1>1, <1>3 DEF IInv, TypeOK, Conf
  <2> HIDE DEF c
  <2>2. [c EXCEPT !.currentEpoch = 0].lastVoteEpoch = c.lastVoteEpoch
    BY <1>3 DEF Conf
  <2>3. [conf[n] EXCEPT !.currentEpoch = 0].lastVoteEpoch = conf[n].lastVoteEpoch
    BY <2>1 DEF Conf
  <2>4. [c EXCEPT !.currentEpoch = 0] # [conf[n] EXCEPT !.currentEpoch = 0]
    BY <2>1, <2>2, <2>3, Zenon
  <2> QED BY <2>4 DEF Saved
<1>5. a \in [from : Node, to : Node, currentEpoch : Nat] /\ <<a.from, a.to, a.currentEpoch>> \in votes'
  BY <1>1, <1>2, <1>3
<1> HIDE DEF c, a
<1>6. /\ conf' = [conf EXCEPT ![n] = c] /\ disk' = [disk EXCEPT ![n] = c]
      /\ \A k \in Node : /\ conf'[k] = IF k = n THEN c ELSE conf[k]
                        /\ disk'[k] = IF k = n THEN c ELSE disk[k]
  BY <1>2, <1>4 DEF Apply, IInv, TypeOK
<1>7. TypeOK'
  <2>1. conf' \in [Node -> Conf] /\ disk' \in [Node -> Conf]
    BY <1>3, <1>6 DEF IInv, TypeOK
  <2>2. votes' \subseteq Node \X Node \X Nat
    BY <1>1, <1>2 DEF IInv, TypeOK
  <2>3. acks' \subseteq [from : Node, to : Node, currentEpoch : Nat]
    BY <1>2, <1>5 DEF IInv, TypeOK
  <2> QED BY <1>2, <2>1, <2>2, <2>3 DEF IInv, TypeOK
<1>8. Confs'
  BY <1>3, <1>6 DEF IInv, Confs
<1>9. AuthEpochs'
  <2>1. \A k \in Node : /\ auth[k].epoch \in Nat /\ auth[k].epoch <= conf[k].currentEpoch
                       /\ conf[k].currentEpoch \in Nat
    BY DEF IInv, AuthEpochs, TypeOK, Conf
  <2>2. \A k \in Node : conf'[k].currentEpoch >= conf[k].currentEpoch
                       /\ conf'[k].currentEpoch \in Nat
    BY <1>1, <1>3, <1>6, <2>1
  <2> QED BY <1>2, <2>1, <2>2 DEF AuthEpochs
<1>10. Memory'
  <2> SUFFICES ASSUME NEW v \in votes' PROVE Remembered(v)'
    BY DEF Memory
  <2>1. CASE v = <<n, m.from, e>>
    BY <1>1, <1>3, <1>6, <2>1 DEF Remembered
  <2>2. CASE v \in votes
    <3>1. Remembered(v) /\ v[1] \in Node /\ v[3] \in Nat
      BY <2>2 DEF IInv, Memory, TypeOK
    <3>2. conf[n].lastVoteEpoch \in Nat
      BY DEF IInv, TypeOK, Conf
    <3> QED BY <1>1, <1>2, <1>3, <1>6, <3>1, <3>2 DEF Remembered
  <2> QED BY <1>2, <2>1, <2>2
<1>11. VotesOnce'
  BY <1>1, <1>2, NewVote
<1>12. (AcksAreVotes /\ TalliesAreVotes /\ WinsAreVotes)'
  BY <1>2, <1>5, VotesGrow
<1> QED
  BY <1>7, <1>8, <1>9, <1>10, <1>11, <1>12 DEF IInv

\* A restart: what is on disk is what the node knows.
LEMMA LoadedIsSame == ASSUME NEW c, Good(c) PROVE Loaded(c) = c
<1> DEFINE E == {c.currentEpoch} \cup {c.epoch[s] : s \in Shard}
           P(e) == e >= c.currentEpoch /\ \A s \in Shard : e >= c.epoch[s]
<1>1. c.currentEpoch \in E /\ P(c.currentEpoch)
  BY DEF Good, Conf
<1>2. \A e \in E : P(e) => e = c.currentEpoch
  BY DEF Good, Conf
<1>3. (CHOOSE e \in E : P(e)) = c.currentEpoch
  <2> HIDE DEF E, P
  <2> QED BY <1>1, <1>2
<1>4. Loaded(c) = [c EXCEPT !.currentEpoch = c.currentEpoch]
  BY <1>3, Zenon DEF Loaded
<1> QED
  BY <1>4 DEF Good, Conf

\* What is loaded from disk after a crash.
LEMMA RestartStep ==
  ASSUME IInv, NEW n \in Node, Restart(n), forgotten \subseteq forgotten',
         forgotten' \subseteq Node \X Nat, votes' \subseteq Node \X Node \X Nat,
         acks' \subseteq [from : Node, to : Node, currentEpoch : Nat]
  PROVE  /\ (TypeOK /\ Confs /\ AuthEpochs)'
         /\ \A v \in votes : Remembered(v)'
         /\ \A k \in Node : tally'[k] \subseteq tally[k]
<1>1. Good(disk[n]) /\ disk[n] \in Conf
  BY DEF IInv, Confs, Good
<1>2. /\ conf' = [conf EXCEPT ![n] = disk[n]] /\ disk' = disk
      /\ \A k \in Node : conf'[k] = IF k = n THEN disk[k] ELSE conf[k]
  BY <1>1, LoadedIsSame, Zenon DEF Restart, IInv, TypeOK
<1>3. Confs'
  BY <1>2 DEF IInv, Confs
<1>4. TypeOK'
  <2>1. conf' \in [Node -> Conf] /\ disk' \in [Node -> Conf]
    BY <1>1, <1>2 DEF IInv, TypeOK
  <2>2. auth' \in [Node -> [epoch : Nat, count : Nat,
                           phase : {"idle", "waiting", "asked", "expired"}]]
    BY DEF IInv, TypeOK, Restart, NoAuth
  <2>3. tally' \in [Node -> SUBSET (Node \X Nat)] /\ requests' \subseteq requests
        /\ winners' = winners
    BY DEF IInv, TypeOK, Restart
  <2> QED BY <2>1, <2>2, <2>3 DEF IInv, TypeOK
<1>5. AuthEpochs'
  <2>1. \A k \in Node : auth'[k].epoch = IF k = n THEN 0 ELSE auth[k].epoch
    BY DEF IInv, TypeOK, Restart, NoAuth
  <2>2. disk[n].currentEpoch >= 0
    BY <1>1 DEF Conf
  <2> QED BY <1>2, <2>1, <2>2 DEF IInv, AuthEpochs
<1>6. \A v \in votes : Remembered(v)'
  BY <1>2, MemoryKept DEF IInv
<1>7. \A k \in Node : tally'[k] \subseteq tally[k]
  BY DEF IInv, TypeOK, Restart
<1> QED
  BY <1>3, <1>4, <1>5, <1>6, <1>7

\* A node restarts.
LEMMA CrashStep ==
  ASSUME IInv, NEW n \in Node, Crash(n)
  PROVE  IInv'
<1>1. /\ Restart(n) /\ acks' \subseteq acks /\ votes' = votes /\ forgotten' = forgotten
      /\ winners' = winners
  BY DEF Crash, Restart
<1>2. /\ (TypeOK /\ Confs /\ AuthEpochs)' /\ \A v \in votes : Remembered(v)'
      /\ \A k \in Node : tally'[k] \subseteq tally[k]
  BY <1>1, RestartStep, Zenon DEF IInv, TypeOK
<1>3. Memory'
  BY <1>1, <1>2 DEF Memory
<1>4. (VotesOnce /\ AcksAreVotes /\ TalliesAreVotes /\ WinsAreVotes)'
  BY <1>1, <1>2 DEF IInv, VotesOnce, AcksAreVotes, TalliesAreVotes, WinsAreVotes
<1> QED
  BY <1>2, <1>3, <1>4 DEF IInv

\* A vote leaves and the node crashes before it has saved it.
LEMMA VoteAndCrashStep ==
  ASSUME IInv, NEW n \in Node, NEW m \in requests, VoteAndCrash(n, m)
  PROVE  IInv'
<1> DEFINE e == m.currentEpoch
           a == [from |-> n, to |-> m.from, currentEpoch |-> e]
<1>1. /\ m.from \in Node /\ e \in Nat /\ Good(Asked(n, m)) /\ Asked(n, m).currentEpoch = e
      /\ conf[n].lastVoteEpoch < e
  BY VoterIsFree DEF VoteAndCrash
<1>2. AckOf(n, m) = a
  BY <1>1 DEF AckOf, Voted, Good, Conf
<1>3. /\ Restart(n) /\ acks' \subseteq acks \cup {a} /\ votes' = votes \cup {<<n, m.from, e>>}
      /\ forgotten' = forgotten \cup {<<n, e>>} /\ winners' = winners
  BY <1>2 DEF VoteAndCrash, Restart
<1>4. a \in [from : Node, to : Node, currentEpoch : Nat] /\ <<a.from, a.to, a.currentEpoch>> \in votes'
  BY <1>1, <1>3
<1> HIDE DEF e, a
<1>5. /\ forgotten' \subseteq Node \X Nat /\ votes' \subseteq Node \X Node \X Nat
      /\ acks' \subseteq [from : Node, to : Node, currentEpoch : Nat]
  BY <1>1, <1>3, <1>4 DEF IInv, TypeOK
<1>6. /\ (TypeOK /\ Confs /\ AuthEpochs)' /\ \A v \in votes : Remembered(v)'
      /\ \A k \in Node : tally'[k] \subseteq tally[k]
  BY <1>3, <1>5, RestartStep
<1>7. Memory'
  <2>1. Remembered(<<n, m.from, e>>)'
    BY <1>3 DEF Remembered
  <2> QED BY <1>3, <1>6, <2>1 DEF Memory
<1>8. VotesOnce'
  BY <1>1, <1>3, NewVote
<1>9. (AcksAreVotes /\ TalliesAreVotes /\ WinsAreVotes)'
  BY <1>3, <1>4, <1>6, VotesGrow
<1> QED
  BY <1>6, <1>7, <1>8, <1>9 DEF IInv

\* Every step preserves the invariant.
LEMMA NextInvariant == IInv /\ [Next]_vars => IInv'
<1> SUFFICES ASSUME IInv, [Next]_vars PROVE IInv'
  OBVIOUS
<1>1. CASE UNCHANGED vars
  BY <1>1 DEF vars, IInv, TypeOK, Confs, AuthEpochs, Memory, Remembered, VotesOnce,
              AcksAreVotes, TalliesAreVotes, WinsAreVotes
<1>2. CASE Next
  <2>1. PICK n \in Node :
          \/ \E m \in Node : Ping(n, m) \/ Update(n, m)
          \/ Schedule(n) \/ Expire(n) \/ Start(n) \/ Win(n) \/ Takeover(n) \/ Crash(n)
          \/ \E m \in acks : Ack(n, m)
          \/ \E m \in requests : Vote(n, m) \/ Deny(n, m) \/ VoteAndCrash(n, m)
    BY <1>2 DEF Next
  <2>2. CASE \E m \in Node : Ping(n, m) \/ Update(n, m)
    BY <2>2, PingStep, UpdateStep
  <2>3. CASE Schedule(n) \/ Expire(n) \/ Start(n) \/ Win(n) \/ Takeover(n) \/ Crash(n)
    BY <2>3, ScheduleStep, ExpireStep, StartStep, WinStep, TakeoverStep, CrashStep
  <2>4. CASE \E m \in acks : Ack(n, m)
    BY <2>4, AckStep
  <2>5. CASE \E m \in requests : Vote(n, m) \/ Deny(n, m) \/ VoteAndCrash(n, m)
    BY <2>5, VoteStep, DenyStep, VoteAndCrashStep
  <2> QED BY <2>1, <2>2, <2>3, <2>4, <2>5
<1> QED
  BY <1>1, <1>2

\* The invariant holds always.
LEMMA Invariant == Spec => []IInv
BY InitInvariant, NextInvariant, PTL DEF Spec

----------------------------------------------------------------------------

\* A node votes for at most one candidate in an epoch, through any number of
\* crashes, unless a vote left before lastVoteEpoch was saved
\* (clusterSendFailoverAuthIfNeeded, clusterLoadConfig).
THEOREM NodesVoteOnce == Spec => []VotesOnce
<1>1. IInv => VotesOnce
  BY DEF IInv
<1> QED
  BY <1>1, Invariant, PTL

\* Two replicas never win with the same vote, although a count may hold votes
\* of several epochs (clusterProcessPacket, FAILOVER_AUTH_ACK).
THEOREM WinnersHaveOwnVotes == Spec => []WinnersShareNoVote
<1>1. IInv => WinnersShareNoVote
  <2> SUFFICES ASSUME IInv, NEW v \in winners, NEW w \in winners, v.node # w.node,
                      NEW x \in v.tally \cap w.tally
               PROVE  x \in forgotten
    BY DEF WinnersShareNoVote
  <2>1. <<x[1], v.node, x[2]>> \in votes /\ <<x[1], w.node, x[2]>> \in votes
    BY DEF IInv, WinsAreVotes
  <2>2. <<x[1], x[2]>> \in forgotten
    BY <2>1 DEF IInv, VotesOnce
  <2>3. x \in Node \X Nat
    BY DEF IInv, TypeOK
  <2> QED BY <2>2, <2>3
<1> QED
  BY <1>1, Invariant, PTL

\* No node knows, or finds in nodes.conf, a configEpoch greater than its
\* currentEpoch, so the epoch of a new election is newer than every owner it
\* knows (clusterHandleSlaveFailover).
THEOREM EpochsAreBounded == Spec => []EpochsBounded
<1>1. IInv => EpochsBounded
  BY DEF IInv, Confs, Good, EpochsBounded
<1> QED
  BY <1>1, Invariant, PTL
-----------------------------------------------------------------------------
(* The hand-over between the main thread and the I/O threads, for every    *)
(* number of threads and clients.  The inductive invariant follows the     *)
(* pending counts: they are only nonzero between the start condition and   *)
(* the end of the wait, a thread is only at work while its count is        *)
(* nonzero, and the mutexes are only held by the main thread from the      *)
(* moment it stops the threads to the moment it starts them again.         *)

CONSTANTS Clients, Num, Sends, DoReads, NoClient
VARIABLES main, ret, op, active, mutex, pending, list, thread, busy, pr, pw, cl

T == INSTANCE IoThreads

Domains == /\ DOMAIN mutex = T!Workers /\ DOMAIN pending = T!Workers
           /\ DOMAIN thread = T!Workers /\ DOMAIN busy = T!All /\ DOMAIN list = T!All

Started == /\ main \in {"give", "slice", "wait"} => active /\ op # "idle"
           /\ active /\ main # "lock" => \A j \in T!Workers : mutex[j] # 0

AtWork == \A j \in T!Workers :
            /\ pending[j] # 0 => main \in {"slice", "wait"}
            /\ thread[j] = "work" => pending[j] # 0
            /\ busy[j] # NoClient => thread[j] = "work" /\ list[j] # <<>>

ThreadInv == Domains /\ Started /\ AtWork

\* The threads start parked.
LEMMA InitThreads == T!Init => ThreadInv
BY DEF T!Init, ThreadInv, Domains, Started, AtWork, T!Workers, T!All

\* The main thread outside the fan-out: only main, the clients and the queues
\* change.
LEMMA EventStep ==
  ASSUME ThreadInv, main' \notin {"give", "slice", "wait"}, main \notin {"slice", "wait", "lock"},
         UNCHANGED <<op, active, mutex, pending, list, thread, busy>>
  PROVE  ThreadInv'
BY DEF ThreadInv, Domains, Started, AtWork

\* One case per action.
LEMMA StepThreads == ThreadInv /\ [T!Next]_(T!vars) => ThreadInv'
<1> SUFFICES ASSUME ThreadInv, [T!Next]_(T!vars) PROVE ThreadInv'
  OBVIOUS
<1> USE DEF ThreadInv
<1>0. T!Free # 0 /\ \A j \in T!Workers : j # 0 /\ j \in T!All
  BY DEF T!Free, T!Workers, T!All
<1>1. CASE UNCHANGED T!vars
  BY <1>1 DEF T!vars, Domains, Started, AtWork
<1>2. CASE \E c \in Clients : T!ReadEvent(c) \/ T!WriteEvent(c)
  BY <1>2, EventStep DEF T!ReadEvent, T!WriteEvent
<1>3. CASE T!BeforeSleep
  BY <1>3, EventStep DEF T!BeforeSleep
<1>4. CASE T!FanOutReads
  BY <1>4 DEF T!FanOutReads, Domains, Started, AtWork
<1>5. CASE T!FanOutWrites
  <2>1. /\ main = "writes"
        /\ UNCHANGED <<pending, thread, busy>>
        /\ \/ main' \in {"free", "reads", "sync"} /\ UNCHANGED <<op, active, mutex, list>>
           \/ main' = "give" /\ op' = "write" /\ T!startThreadedIO /\ DOMAIN list' = T!All
    BY <1>5, Zenon DEF T!FanOutWrites
  <2>2. CASE main' \in {"free", "reads", "sync"} /\ UNCHANGED <<op, active, mutex, list>>
    BY <2>1, <2>2 DEF Domains, Started, AtWork
  <2>3. CASE main' = "give" /\ op' = "write" /\ T!startThreadedIO /\ DOMAIN list' = T!All
    <3>1. \A j \in T!Workers : mutex'[j] # 0
      BY <2>1, <2>3, <1>0 DEF T!startThreadedIO, Started
    <3>2. DOMAIN mutex' = T!Workers
      BY <2>3 DEF T!startThreadedIO, Domains
    <3> QED
      BY <2>1, <2>3, <3>1, <3>2 DEF T!startThreadedIO, Domains, Started, AtWork
  <2> QED
    BY <2>1, <2>2, <2>3
<1>6. CASE T!Give
  BY <1>6 DEF T!Give, Domains, Started, AtWork
<1>7. CASE T!MainEnters
  BY <1>7 DEF T!MainEnters, T!Enter, Domains, Started, AtWork, T!Workers, T!All
<1>8. CASE T!MainLeaves
  BY <1>8 DEF T!MainLeaves, T!Leave, Domains, Started, AtWork, T!Workers, T!All
<1>9. CASE T!SliceDone
  BY <1>9 DEF T!SliceDone, Domains, Started, AtWork
<1>10. CASE T!FanIn
  BY <1>10 DEF T!FanIn, T!FanInWrites, Domains, Started, AtWork
<1>11. CASE T!FanInRead \/ T!ReadsDone
  BY <1>11 DEF T!FanInRead, T!ReadsDone, Domains, Started, AtWork
<1>12. CASE T!LockThreads
  BY <1>12 DEF T!LockThreads, Domains, Started, AtWork
<1>13. CASE T!SyncWrite \/ T!FreeClients
  <2>1. /\ main \in {"sync", "free"} /\ main' \in {"sync", "free", "events"}
        /\ UNCHANGED <<op, active, mutex, pending, list, thread, busy>>
    BY <1>13, Zenon DEF T!SyncWrite, T!FreeClients
  <2> QED
    BY <2>1, EventStep
<1>14. ASSUME NEW j \in T!Workers, T!Spin(j) PROVE ThreadInv'
  BY <1>14 DEF T!Spin, Domains, Started, AtWork
<1>15. ASSUME NEW j \in T!Workers, T!Lock(j) \/ T!Unlock(j) PROVE ThreadInv'
  <2>1. \A i \in T!Workers : mutex'[i] = mutex[i] \/ mutex'[i] # 0
    BY <1>15, <1>0 DEF T!Lock, T!Unlock, Domains
  <2>2. \A i \in T!Workers : thread'[i] = "work" => thread[i] = "work"
    BY <1>15 DEF T!Lock, T!Unlock, Domains
  <2>3. \A i \in T!Workers : thread[i] = "work" => thread'[i] = "work"
    BY <1>15 DEF T!Lock, T!Unlock, Domains
  <2>4. DOMAIN mutex' = T!Workers /\ DOMAIN thread' = T!Workers
    BY <1>15 DEF T!Lock, T!Unlock, Domains
  <2>5. UNCHANGED <<main, op, active, pending, list, busy>>
    BY <1>15 DEF T!Lock, T!Unlock
  <2>6. Domains'
    BY <2>4, <2>5 DEF Domains
  <2>7. Started'
    BY <2>1, <2>5 DEF Started
  <2>8. AtWork'
    BY <2>2, <2>3, <2>5 DEF AtWork
  <2> QED
    BY <2>6, <2>7, <2>8
<1>16. ASSUME NEW j \in T!Workers, T!ThreadEnters(j) PROVE ThreadInv'
  <2>1. /\ thread[j] = "work" /\ list[j] # <<>>
        /\ UNCHANGED <<main, op, active, mutex, pending, list, thread>>
        /\ DOMAIN busy' = T!All /\ \A i \in T!All \ {j} : busy'[i] = busy[i]
    BY <1>16, Zenon DEF T!ThreadEnters, T!Enter, Domains
  <2> QED
    BY <2>1, <1>0 DEF Domains, Started, AtWork
<1>17. ASSUME NEW j \in T!Workers, T!ThreadLeaves(j) PROVE ThreadInv'
  <2>1. /\ thread[j] = "work"
        /\ UNCHANGED <<main, op, active, mutex, pending, thread>>
        /\ DOMAIN busy' = T!All /\ \A i \in T!All \ {j} : busy'[i] = busy[i]
        /\ DOMAIN list' = T!All /\ \A i \in T!All \ {j} : list'[i] = list[i]
        /\ busy'[j] = NoClient
    BY <1>17, <1>0 DEF T!ThreadLeaves, T!Leave, Domains
  <2> QED
    BY <2>1, <1>0 DEF Domains, Started, AtWork
<1>18. ASSUME NEW j \in T!Workers, T!Done(j) PROVE ThreadInv'
  BY <1>18, Zenon DEF T!Done, Domains, Started, AtWork
<1> QED
  BY <1>1, <1>2, <1>3, <1>4, <1>5, <1>6, <1>7, <1>8, <1>9, <1>10, <1>11, <1>12, <1>13,
     <1>14, <1>15, <1>16, <1>17, <1>18 DEF T!Next

\* The invariant holds at all times.
LEMMA ThreadsInvariant == T!Spec => []ThreadInv
BY InitThreads, StepThreads, PTL DEF T!Spec

\* No I/O thread is inside a client while the main thread runs the event loop
\* or a command, with any number of threads and clients
\* (IOThreadMain, handleClientsWithPendingReadsUsingThreads,
\* handleClientsWithPendingWritesUsingThreads).
THEOREM ThreadsAndMainAlternate == T!Spec => []T!MainIsAlone
<1>1. ThreadInv => T!MainIsAlone
  BY DEF ThreadInv, Started, AtWork, T!MainIsAlone
<1> QED
  BY <1>1, ThreadsInvariant, PTL

\* A thread with work is never behind a mutex of the main thread, with any
\* number of threads: stopping and starting them cannot make the main thread
\* wait forever (startThreadedIO, stopThreadedIO, IOThreadMain).
THEOREM NoThreadIsParkedWithWork == T!Spec => []T!WorkIsNotParked
<1>1. ThreadInv => T!WorkIsNotParked
  BY DEF ThreadInv, Started, AtWork, T!WorkIsNotParked
<1> QED
  BY <1>1, ThreadsInvariant, PTL
=============================================================================
