---------------------------- MODULE Blocked ----------------------------
(***************************************************************************)
(* Blocking list and sorted-set commands of the Redis server (blocked.c,   *)
(* t_list.c, t_zset.c): BLPOP, BLMOVE and BZPOPMIN park a client on keys   *)
(* that are empty; a write that creates a key signals it as ready, and     *)
(* after the command, transaction or script the clients parked on ready    *)
(* keys are served.                                                        *)
(*                                                                         *)
(* One step is one command, or one MULTI/EXEC block, with the serving that *)
(* follows it.  Elements are numbered in the order they are pushed.        *)
(***************************************************************************)
EXTENDS Naturals, Sequences, SequencesExt, FiniteSets

CONSTANTS Clients,      \* clients that use blocking commands
          Keys,
          Writes,       \* the writes of the other clients: records [op, key]
          MaxBlock,     \* bound on the writes of one MULTI/EXEC block
          MaxElem,      \* bound on the elements ever pushed
          NoTarget      \* bpop.target of a client that does not move

VARIABLES val,      \* val[k]: type and elements of the key
          parked,   \* parked[k]: db->blocking_keys, the clients blocked on k
          cli,      \* per client: the type it is blocked for ("no": not
                    \* blocked), its keys and its bpop.target
          elems,    \* elements pushed so far
          line,     \* history: the blocked clients, in the order they blocked
          got,      \* history: deliveries, [client, key, elem]
          gone      \* history: elements deleted or overwritten

vars == <<val, parked, cli, elems, line, got, gone>>

Free == [type |-> "no", keys |-> {}, target |-> NoTarget]
None == [type |-> "none", items |-> <<>>]

\* The server's state within a step: ready is server.ready_keys, pend the rest
\* of the list handleClientsBlockedOnKeys is running.
S == [val |-> val, parked |-> parked, cli |-> cli, elems |-> elems, line |-> line,
      got |-> got, gone |-> gone, ready |-> <<>>, pend |-> <<>>]

Become(s) ==
    /\ val' = s.val /\ parked' = s.parked /\ cli' = s.cli
    /\ elems' = s.elems /\ line' = s.line /\ got' = s.got /\ gone' = s.gone

Init ==
    /\ val = [k \in Keys |-> None]
    /\ parked = [k \in Keys |-> <<>>]
    /\ cli = [c \in Clients |-> Free]
    /\ elems = 0 /\ line = <<>> /\ got = {} /\ gone = {}

(***************************************************************************)
(* The keyspace                                                            *)
(***************************************************************************)
\* signalKeyAsReady.
signalKeyAsReady(s, k) ==
    IF /\ s.val[k].type \in {"list", "zset"}
       /\ \E c \in Clients : s.cli[c].type = s.val[k].type
       /\ s.parked[k] # <<>>
       /\ k \notin ToSet(s.ready) \cup ToSet(s.pend)
    THEN [s EXCEPT !.ready = Append(@, k)] ELSE s

\* dbAdd: a key comes into being.
dbAdd(s, k, v) == signalKeyAsReady([s EXCEPT !.val[k] = v], k)

\* dbDelete, once the elements are out or lost.
dbDelete(s, k) == [s EXCEPT !.val[k] = None]

Lost(s, k) == [s EXCEPT !.gone = @ \cup ToSet(s.val[k].items)]

\* Add elements at the tail of a list or sorted set: pushGenericCommand,
\* lmoveHandlePush, zaddGenericCommand.
Push(s, k, type, es) ==
    IF s.val[k].type = "none" THEN dbAdd(s, k, [type |-> type, items |-> es])
    ELSE [s EXCEPT !.val[k].items = @ \o es]

\* Remove the first element; an empty key is deleted.
Pop(s, k) ==
    IF Len(s.val[k].items) = 1 THEN dbDelete(s, k)
    ELSE [s EXCEPT !.val[k].items = Tail(@)]

New(s, n) == [i \in 1..n |-> s.elems + i]

Write(s, w) ==
    LET k == w.key
        t == [s EXCEPT !.elems = @ + 1]
    IN  CASE w.op = "rpush" /\ s.val[k].type \in {"none", "list"} -> Push(t, k, "list", New(s, 1))
          [] w.op = "zadd" /\ s.val[k].type \in {"none", "zset"} -> Push(t, k, "zset", New(s, 1))
          [] w.op = "lpop" /\ s.val[k].type = "list" ->
                [Pop(s, k) EXCEPT !.gone = @ \cup {Head(s.val[k].items)}]
          [] w.op = "del" -> dbDelete(Lost(s, k), k)
          \* SET: setKey, a string is added or takes the place of the value
          [] w.op = "set" -> [Lost(s, k) EXCEPT !.val[k] = [type |-> "string", items |-> <<>>]]
          \* SORT ... STORE: setKey of a list; dbOverwrite signals streams only
          [] w.op = "store" ->
                LET new == [type |-> "list", items |-> New(s, 1)]
                IN  IF s.val[k].type = "none" THEN dbAdd(t, k, new)
                    ELSE [Lost(t, k) EXCEPT !.val[k] = new]
          \* WRONGTYPE
          [] OTHER -> s

(***************************************************************************)
(* Blocking and unblocking                                                 *)
(***************************************************************************)
\* Mutant: the client is put first in the lists of its keys.
blockForKeysFirst(s, c, type, ks, target) ==
    [s EXCEPT !.cli[c] = [type |-> type, keys |-> ks, target |-> target],
              !.line = Append(@, c),
              !.parked = [k \in Keys |-> IF k \in ks THEN <<c>> \o @[k] ELSE @[k]]]

\* blockForKeys, blockClient.
blockForKeys(s, c, type, ks, target) ==
    [s EXCEPT !.cli[c] = [type |-> type, keys |-> ks, target |-> target],
              !.line = Append(@, c),
              !.parked = [k \in Keys |-> IF k \in ks THEN Append(@[k], c) ELSE @[k]]]

\* unblockClient, unblockClientWaitingData: out of the lists of all its keys.
unblockClient(s, c) ==
    [s EXCEPT !.cli[c] = Free,
              !.line = SelectSeq(@, LAMBDA x : x # c),
              !.parked = [k \in Keys |-> SelectSeq(@[k], LAMBDA x : x # c)]]

\* The reply with an element of k.
Reply(s, c, k) ==
    [s EXCEPT !.got = @ \cup {[client |-> c, key |-> k, elem |-> Head(s.val[k].items)]}]

\* LMOVE k dst RIGHT of a client: the element goes on the other list.
Move(s, k, dst) ==
    LET e == Head(s.val[k].items)
    IN  IF dst = k THEN [s EXCEPT !.val[k].items = Append(Tail(@), e)]
        ELSE LET t == Push(s, dst, "list", <<e>>) IN Pop(t, k)

\* Mutant: the element is popped before the type of the target is checked.
serveEarlyPop(s, c, k) ==
    LET dst == s.cli[c].target
    IN  CASE dst = NoTarget -> Pop(Reply(s, c, k), k)
          [] dst # NoTarget /\ s.val[dst].type \in {"none", "list"} -> Move(s, k, dst)
          [] OTHER -> Pop(s, k)

\* serveClientBlockedOnList, genericZpopCommand: give one element to c, or move
\* it; a target of another type is an error, and takes nothing.
serveClient(s, c, k) ==
    LET dst == s.cli[c].target
    IN  CASE dst = NoTarget -> Pop(Reply(s, c, k), k)
          [] dst # NoTarget /\ s.val[dst].type \in {"none", "list"} -> Move(s, k, dst)
          [] OTHER -> s

RECURSIVE ServeInOrder(_, _, _)
\* serveClientsBlockedOnListKey, ...OnSortedSetKey: the clients l of key k, in
\* the order they blocked, until the key is gone.
ServeInOrder(s, k, l) ==
    IF l = <<>> \/ s.val[k].type = "none" THEN s
    ELSE IF s.cli[Head(l)].type # s.val[k].type THEN ServeInOrder(s, k, Tail(l))
    ELSE ServeInOrder(unblockClient(serveClient(s, Head(l), k), Head(l)), k, Tail(l))

\* Mutant: keys that become ready while clients are served are not run again.
RECURSIVE handleOnce(_)
handleOnce(s) ==
    IF s.pend # <<>>
    THEN LET k == Head(s.pend)
         IN  handleOnce(ServeInOrder([s EXCEPT !.pend = Tail(@)], k, s.parked[k]))
    ELSE s

\* handleClientsBlockedOnKeys; s.pend is the list being run.
RECURSIVE handleReady(_)
handleReady(s) ==
    IF s.pend # <<>>
    THEN LET k == Head(s.pend)
         IN  handleReady(ServeInOrder([s EXCEPT !.pend = Tail(@)], k, s.parked[k]))
    ELSE IF s.ready = <<>> THEN s
    ELSE handleReady([s EXCEPT !.pend = s.ready, !.ready = <<>>])

AfterCommand(s) == handleReady([s EXCEPT !.pend = s.ready, !.ready = <<>>])

(***************************************************************************)
(* Steps                                                                   *)
(***************************************************************************)
\* A command of another client, or its MULTI/EXEC block.
Run(ws) ==
    LET t == FoldLeft(Write, S, ws)
    IN  /\ t.elems <= MaxElem
        /\ t # S
        /\ Become(AfterCommand(t))

\* The first of the keys that is not absent decides.
Found(ks) == {i \in 1..Len(ks) : val[ks[i]].type # "none"}

\* BLPOP, BZPOPMIN: blockingPopGenericCommand, blockingGenericZpopCommand.
BlockingPop(c, type, ks) ==
    /\ cli[c] = Free
    /\ \/ /\ Found(ks) = {}
          /\ Become(blockForKeys(S, c, type, ToSet(ks), NoTarget))
       \/ /\ Found(ks) # {}
          /\ LET k == ks[Min(Found(ks))]
             IN  /\ val[k].type = type
                 /\ Become(AfterCommand(Pop(Reply(S, c, k), k)))

\* BLMOVE: blmoveGenericCommand.
BlockingMove(c, k, dst) ==
    /\ cli[c] = Free
    /\ \/ /\ val[k].type = "none"
          /\ Become(blockForKeys(S, c, "list", {k}, dst))
       \/ /\ val[k].type = "list"
          /\ val[dst].type \in {"none", "list"}
          /\ Become(AfterCommand(Move(S, k, dst)))

\* The timeout of the command, CLIENT UNBLOCK, or the client disconnects.
Unblock(c) ==
    /\ cli[c] # Free
    /\ Become(unblockClient(S, c))

KeyLists == {<<k>> : k \in Keys} \cup {<<k, j>> : k, j \in Keys}

Next ==
    \/ \E ws \in UNION {[1..n -> Writes] : n \in 1..MaxBlock} : Run(ws)
    \/ \E c \in Clients, type \in {"list", "zset"}, ks \in KeyLists : BlockingPop(c, type, ks)
    \/ \E c \in Clients, k, dst \in Keys : BlockingMove(c, k, dst)
    \/ \E c \in Clients : Unblock(c)

Spec == Init /\ [][Next]_vars

-----------------------------------------------------------------------------
\* Once the serving after a command is done, no client is left parked on a key
\* that holds something it waits for: no wake-up is lost, through chains of
\* BLMOVE and keys that change type as well.
NoWakeupIsLost ==
    \A c \in Clients : \A k \in cli[c].keys : val[k].type # cli[c].type

\* Every element pushed is in one list or sorted set, was deleted, or was
\* delivered to one client: serving neither loses nor repeats an element.
ElementsAreConserved ==
    LET in(k) == ToSet(val[k].items)
        delivered == {g.elem : g \in got}
    IN  /\ 1..elems = delivered \cup gone \cup UNION {in(k) : k \in Keys}
        /\ \A g, h \in got : g.elem = h.elem => g = h
        /\ delivered \cap gone = {}
        /\ \A k \in Keys : in(k) \cap (delivered \cup gone) = {}
        /\ \A k \in Keys : IsInjective(val[k].items)
        /\ \A k, j \in Keys : k # j => in(k) \cap in(j) = {}

\* The clients of a key are served in the order they blocked: when a client is
\* served from a key, no client that blocked on it earlier, for the same type,
\* is left waiting.
InOrder ==
    \A g \in got' \ got : \A i, j \in 1..Len(line) :
        /\ i < j
        /\ line[j] = g.client
        /\ cli[line[i]].type = cli[line[j]].type
        /\ g.key \in cli[line[i]].keys \cap cli[line[j]].keys
        => cli'[line[i]] = Free

ServedInOrder == [][InOrder]_vars

=============================================================================
