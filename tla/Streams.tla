------------------------------ MODULE Streams ------------------------------
(***************************************************************************)
(* One stream with one consumer group (redis-7.0.15/src/t_stream.c), on a  *)
(* master and on its replica.  XREADGROUP, XCLAIM and XAUTOCLAIM are not   *)
(* sent to the replica as they are: every pending entry they create,       *)
(* change or drop travels as an XCLAIM of its own, and the group's         *)
(* position as an option of it or as an XGROUP SETID.  The replica applies *)
(* what it is sent with the same functions (as does the loader of the      *)
(* append-only file).  Entry IDs are numbers; entries have no fields.      *)
(***************************************************************************)
EXTENDS Integers, Sequences, FiniteSets, SequencesExt, FiniteSetsExt

CONSTANTS Consumers, NoConsumer,
          MaxId,      \* the largest entry ID used
          MaxCount    \* the largest COUNT and delivery count used

VARIABLES master, replica

vars == <<master, replica>>

Ids == 1 .. MaxId
Invalid == -1         \* SCG_INVALID_ENTRIES_READ

NoGroup == [exists |-> FALSE, last |-> 0, read |-> Invalid,
            pel |-> [i \in Ids |-> NoConsumer], count |-> [i \in Ids |-> 0],
            cons |-> {}, cpel |-> [c \in Consumers |-> {}]]

\* streamNew
Empty == [ids |-> {}, first |-> 0, last |-> 0, added |-> 0, maxdel |-> 0, g |-> NoGroup]

Init == master = Empty /\ replica = Empty

Length(s) == Cardinality(s.ids)
Edge(s) == IF s.ids = {} THEN 0 ELSE Min(s.ids)

----------------------------------------------------------------------------
\* The group's counter of entries read, behind XINFO's lag.

\* streamRangeHasTombstones(s, start, NULL)
HasTombstones(s, start) ==
    /\ s.ids # {} /\ s.maxdel # 0
    /\ s.first <= s.maxdel /\ start <= s.maxdel

\* streamEstimateDistanceFromFirstEverEntry
Distance(s, id) ==
    CASE s.added = 0 -> 0
      [] s.added # 0 /\ (id = s.last \/ (s.ids = {} /\ id < s.last)) -> s.added
      [] s.added # 0 /\ s.ids # {} /\ id < s.last
         /\ (s.maxdel = 0 \/ s.maxdel < s.first) /\ id < s.first -> s.added - Length(s)
      [] s.added # 0 /\ s.ids # {} /\ id < s.last
         /\ (s.maxdel = 0 \/ s.maxdel < s.first) /\ id = s.first -> s.added - Length(s) + 1
      [] OTHER -> Invalid

----------------------------------------------------------------------------
\* What the functions do to a stream; a command runs them on the master and,
\* as propagated, on the replica.

\* streamAppendItem
Append1(s, id) == [s EXCEPT !.ids = @ \cup {id}, !.last = id, !.added = @ + 1,
                            !.first = IF s.ids = {} THEN id ELSE @]

\* streamDeleteItem and the bookkeeping of xdelCommand
Delete(s, id) ==
    IF id \notin s.ids THEN s
    ELSE LET t == [s EXCEPT !.ids = @ \ {id}]
         IN [t EXCEPT !.first = IF t.ids = {} \/ id = s.first THEN Edge(t) ELSE @,
                      !.maxdel = IF id > @ THEN id ELSE @]

\* streamTrim to a length; trimmed entries leave no tombstone.
Trim(s, len) ==
    LET gone == {i \in s.ids : Cardinality({j \in s.ids : j >= i}) > len}
        t == [s EXCEPT !.ids = @ \ gone]
    IN [t EXCEPT !.first = Edge(t)]

\* streamCreateConsumer
AddConsumer(s, c) == [s EXCEPT !.g.cons = @ \cup {c}]

\* A NACK leaves the group's list and its consumer's.
Drop(s, id) ==
    IF s.g.pel[id] = NoConsumer THEN s
    ELSE [s EXCEPT !.g.pel[id] = NoConsumer, !.g.count[id] = 0,
                   !.g.cpel[s.g.pel[id]] = @ \ {id}]

\* A NACK is created for consumer c, or passes from its owner to c.
Own(s, id, c, n) ==
    LET t == Drop(s, id)
    IN [t EXCEPT !.g.pel[id] = c, !.g.count[id] = n, !.g.cpel[c] = @ \cup {id}]

\* streamDelConsumer
DelConsumer(s, c) ==
    [FoldSet(LAMBDA i, t : Drop(t, i), s, s.g.cpel[c]) EXCEPT !.g.cons = @ \ {c}]

\* The group's position after one entry is delivered, in streamReplyWithRange.
Advance(s, id) ==
    IF id <= s.g.last THEN s
    ELSE [s EXCEPT !.g.last = id,
                   !.g.read = IF @ # Invalid /\ ~HasTombstones(s, id) THEN @ + 1
                              ELSE IF s.added # 0 THEN Distance(s, id) ELSE @]

\* xclaimCommand for one ID.  retry is -1 when RETRYCOUNT is not given.
Claim(s, c, id, force, justid, retry) ==
    LET owner == s.g.pel[id]
        n == IF retry >= 0 THEN retry
             ELSE (IF owner = NoConsumer THEN 1 ELSE s.g.count[id]) + (IF justid THEN 0 ELSE 1)
    IN CASE id \notin s.ids -> Drop(s, id)
         [] id \in s.ids /\ owner = NoConsumer /\ ~force -> s
         [] OTHER -> Own(AddConsumer(s, c), id, c, n)

Raise(s, last) == [s EXCEPT !.g.last = IF last > @ THEN last ELSE @]

\* Mutant: the XCLAIM on the replica ignores LASTID.
ApplyNoLastId(s, cmd) ==
    CASE cmd.op = "xclaim" -> Claim(s, cmd.c, cmd.id, TRUE, TRUE, cmd.n)
      [] cmd.op = "setid" -> [s EXCEPT !.g.last = cmd.id, !.g.read = cmd.n]
      [] cmd.op = "createconsumer" -> AddConsumer(s, cmd.c)

\* A propagated command at the replica: XCLAIM ... RETRYCOUNT n FORCE JUSTID
\* LASTID last; XGROUP SETID; XGROUP CREATECONSUMER.
Apply(s, cmd) ==
    CASE cmd.op = "xclaim" -> Claim(Raise(s, cmd.last), cmd.c, cmd.id, TRUE, TRUE, cmd.n)
      [] cmd.op = "setid" -> [s EXCEPT !.g.last = cmd.id, !.g.read = cmd.n]
      [] cmd.op = "createconsumer" -> AddConsumer(s, cmd.c)

\* streamPropagateXCLAIM names the NACK's consumer before or after the change.
XClaim(s, id) == [op |-> "xclaim", c |-> s.g.pel[id], id |-> id, n |-> s.g.count[id],
                  last |-> s.g.last]

\* streamPropagateGroupID
SetId(s) == [op |-> "setid", c |-> NoConsumer, id |-> s.g.last, n |-> s.g.read, last |-> 0]

\* streamPropagateConsumerCreation
Create(c) == [op |-> "createconsumer", c |-> c, id |-> 0, n |-> 0, last |-> 0]

\* One claim on the master and what it sends.
ClaimAndSend(p, c, id, force, justid, retry) ==
    LET t == Claim(p.s, c, id, force, justid, retry)
        sent == IF id \notin p.s.ids
                THEN IF p.s.g.pel[id] = NoConsumer THEN <<>> ELSE <<XClaim(p.s, id)>>
                ELSE IF t.g.pel[id] = NoConsumer THEN <<>> ELSE <<XClaim(t, id)>>
    IN [s |-> t, out |-> p.out \o sent]

\* One entry delivered by streamReplyWithRange for a group.
Deliver(p, c, id, noack) ==
    LET t == Advance(p.s, id)
        u == Own(t, id, c, 1)
    IN IF noack THEN [s |-> t, out |-> p.out]
       ELSE [s |-> u, out |-> Append(p.out, XClaim(u, id))]

Send(p) == /\ master' = p.s
           /\ replica' = FoldLeft(Apply, replica, p.out)

\* A command that is propagated as it is.
Same(Op(_)) == master' = Op(master) /\ replica' = Op(replica)

Sorted(S) == SetToSortSeq(S, <)
First(q, n) == SubSeq(q, 1, IF n < Len(q) THEN n ELSE Len(q))

----------------------------------------------------------------------------
\* The commands.

XAdd(id) == /\ id > master.last
            /\ Same(LAMBDA s : Append1(s, id))

XDel(id) == /\ id \in master.ids
            /\ Same(LAMBDA s : Delete(s, id))

\* XTRIM; an approximate trim is rewritten to the length that it left.
XTrim(len) == /\ len < Length(master)
              /\ Same(LAMBDA s : Trim(s, len))

XGroupCreate(id) ==
    /\ ~master.g.exists
    /\ Same(LAMBDA s : [s EXCEPT !.g = [NoGroup EXCEPT !.exists = TRUE, !.last = id]])

XGroupDestroy == /\ master.g.exists
                 /\ Same(LAMBDA s : [s EXCEPT !.g = NoGroup])

XGroupSetId(id) ==
    /\ master.g.exists
    /\ Same(LAMBDA s : [s EXCEPT !.g.last = id, !.g.read = Invalid])

XGroupCreateConsumer(c) == /\ master.g.exists /\ c \notin master.g.cons
                           /\ Same(LAMBDA s : AddConsumer(s, c))

XGroupDelConsumer(c) == /\ master.g.exists /\ c \in master.g.cons
                        /\ Same(LAMBDA s : DelConsumer(s, c))

XAck(id) == /\ master.g.exists /\ master.g.pel[id] # NoConsumer
            /\ Same(LAMBDA s : Drop(s, id))

\* XREADGROUP ... STREAMS key >
XReadGroup(c, count, noack) ==
    /\ master.g.exists
    /\ master.ids # {} /\ Max(master.ids) > master.g.last
    /\ LET new == First(Sorted({i \in master.ids : i > master.g.last}), count)
           made == IF noack /\ c \notin master.g.cons THEN <<Create(c)>> ELSE <<>>
           p == FoldLeft(LAMBDA q, i : Deliver(q, c, i, noack),
                         [s |-> AddConsumer(master, c), out |-> made], new)
       IN Send([p EXCEPT !.out = IF noack THEN Append(@, SetId(p.s)) ELSE @])

\* XREADGROUP with an ID: streamReplyWithRangeFromConsumerPEL, which sends
\* nothing to the replica.
XReadGroupHistory(c, count, noack) ==
    /\ master.g.exists
    /\ LET ids == ToSet(First(Sorted(master.g.cpel[c]), count)) \cap master.ids
           made == IF noack /\ c \notin master.g.cons THEN <<Create(c)>> ELSE <<>>
       IN /\ \A i \in ids : master.g.count[i] < MaxCount
          /\ Send([s |-> [AddConsumer(master, c) EXCEPT
                            !.g.count = [i \in Ids |-> IF i \in ids THEN @[i] + 1 ELSE @[i]]],
                   out |-> made])

\* XCLAIM; idle says whether the entry has been idle for long enough.
XClaimCommand(c, id, force, justid, last, idle) ==
    /\ master.g.exists
    /\ master.g.count[id] < MaxCount
    /\ LET s == Raise(master, last)
           skip == id \in s.ids /\ s.g.pel[id] # NoConsumer /\ ~idle
           p == IF skip THEN [s |-> s, out |-> <<>>]
                ELSE ClaimAndSend([s |-> s, out |-> <<>>], c, id, force, justid, -1)
       IN Send([p EXCEPT !.out = IF @ = <<>> /\ last > master.g.last THEN <<SetId(p.s)>>
                                 ELSE @])

\* XAUTOCLAIM from the start of the pending list; old is the set of entries
\* that have been idle for long enough.
XAutoClaim(c, count, justid, old) ==
    /\ master.g.exists
    /\ LET pending == {i \in Ids : master.g.pel[i] # NoConsumer}
           ids == First(Sorted({i \in pending : i \in old \/ i \notin master.ids}), count)
       IN /\ old \subseteq pending
          /\ \A i \in pending : master.g.count[i] < MaxCount
          /\ Send(FoldLeft(LAMBDA q, i : ClaimAndSend(q, c, i, FALSE, justid, -1),
                           [s |-> master, out |-> <<>>], ids))

Next ==
    \/ \E id \in Ids : XAdd(id) \/ XDel(id) \/ XAck(id)
    \/ \E len \in 0 .. MaxId - 1 : XTrim(len)
    \/ \E id \in 0 .. MaxId : XGroupCreate(id) \/ XGroupSetId(id)
    \/ XGroupDestroy
    \/ \E c \in Consumers :
         \/ XGroupCreateConsumer(c) \/ XGroupDelConsumer(c)
         \/ \E count \in 1 .. MaxCount, noack \in BOOLEAN :
              XReadGroup(c, count, noack) \/ XReadGroupHistory(c, count, noack)
         \/ \E id \in Ids, force, justid, idle \in BOOLEAN, last \in 0 .. MaxId :
              XClaimCommand(c, id, force, justid, last, idle)
         \/ \E count \in 1 .. MaxCount, justid \in BOOLEAN, old \in SUBSET Ids :
              XAutoClaim(c, count, justid, old)

Spec == Init /\ [][Next]_vars

----------------------------------------------------------------------------
\* The two pending lists stay one: an entry is in the list of exactly the
\* consumer the group's list names ("NACK half-created. Should not be
\* possible.", streamReplyWithRange), and only consumers of the group own any.
PendingListsAgree ==
    \A c \in Consumers :
        /\ master.g.cpel[c] = {i \in Ids : master.g.pel[i] = c}
        /\ master.g.cpel[c] # {} => c \in master.g.cons

\* What reaches the replica as XCLAIM and XGROUP SETID leaves it with the
\* master's entries, the master's pending entries under the same owners, and
\* the master's position in the stream: a promoted replica neither redelivers
\* an acknowledged entry nor forgets a pending one.
ReplicaKnowsPending ==
    /\ replica.ids = master.ids /\ replica.last = master.last
    /\ replica.g.last = master.g.last
    /\ replica.g.pel = master.g.pel
============================================================================
