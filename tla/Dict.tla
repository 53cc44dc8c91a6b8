---------------------------- MODULE Dict ----------------------------
(***************************************************************************)
(* The hash table of the Redis server (dict.c): two tables while it grows  *)
(* or shrinks, rehashed one bucket at a time by the operations and in      *)
(* bulk by the cron, and SCAN, which walks it over many calls with nothing *)
(* but a cursor in the hands of the client.                                *)
(*                                                                         *)
(* A key is its hash.  A table is its exponent and the set of its keys: a  *)
(* key's bucket is its hash modulo the size, and what is abstracted is the *)
(* order of a bucket's chain, which a scan emits whole.                    *)
(***************************************************************************)
EXTENDS Integers, Sequences, FiniteSets, FiniteSetsExt, Folds

CONSTANTS Keys,         \* the keys, as hashes: a subset of 0 .. 2^Width - 1
          Width,        \* bits of an unsigned long (of the hash and the cursor)
          InitialExp,   \* DICT_HT_INITIAL_EXP
          ForceRatio,   \* dict_force_resize_ratio
          MinFill,      \* HASHTABLE_MIN_FILL, in percent
          EmptyVisits   \* empty buckets one rehashing step may visit

VARIABLES exp,      \* <<exp of table 0, exp of table 1>>, -1: no table
          tab,      \* <<keys of table 0, keys of table 1>>
          idx,      \* rehashidx, -1: not rehashing
          resize,   \* dict_can_resize: "enable", or "avoid" while a child runs
          cursor,   \* the cursor the scanning client holds, -1: no scan
          seen,     \* history: keys the scan has returned
          held,     \* history: keys present ever since the scan began
          done      \* history: the cursor just came back as 0

vars == <<exp, tab, idx, resize, cursor, seen, held, done>>

Size(e) == IF e = -1 THEN 0 ELSE 2^e
Mask(h, e) == IF e = -1 THEN 0 ELSE h % 2^e
Bucket(t, e, i) == {k \in t : Mask(k, e) = i}

\* The dictionary, threaded through the functions of an operation.
D == [exp |-> exp, tab |-> tab, idx |-> idx]
Become(d) == exp' = d.exp /\ tab' = d.tab /\ idx' = d.idx

Rehashing(d) == d.idx # -1
All(d) == d.tab[1] \cup d.tab[2]

Init ==
    /\ exp = <<-1, -1>> /\ tab = <<{}, {}>> /\ idx = -1
    /\ resize = "enable"
    /\ cursor = -1 /\ seen = {} /\ held = {} /\ done = FALSE

(***************************************************************************)
(* Growing and shrinking                                                   *)
(***************************************************************************)
\* _dictNextExp: the least power of two, not below the initial size.
NextExp(n) == Min({e \in InitialExp..Width : n <= 2^e})

\* _dictExpand.
Expand(d, n) ==
    IF \/ Rehashing(d) \/ Cardinality(d.tab[1]) > n
       \/ NextExp(n) = d.exp[1]
    THEN d
    ELSE IF d.exp[1] = -1 THEN [d EXCEPT !.exp[1] = NextExp(n)]
    ELSE [d EXCEPT !.exp[2] = NextExp(n), !.idx = 0]

\* _dictExpandIfNeeded.
ExpandIfNeeded(d) ==
    LET used == Cardinality(d.tab[1])
    IN  IF Rehashing(d) THEN d
        ELSE IF d.exp[1] = -1 THEN Expand(d, 2^InitialExp)
        ELSE IF \/ resize = "enable" /\ used >= Size(d.exp[1])
                \/ used \div Size(d.exp[1]) > ForceRatio
        THEN Expand(d, used + 1)
        ELSE d

\* The rehash of a small change of size is put off while a child runs.
PutOff(d) ==
    LET s0 == Size(d.exp[1])
        s1 == Size(d.exp[2])
    IN  /\ resize = "avoid"
        /\ \/ s1 > s0 /\ s1 \div s0 < ForceRatio
           \/ s1 < s0 /\ s0 \div s1 < ForceRatio

\* One turn of dictRehash's loop: the next bucket that is not empty moves to the
\* new table, unless too many empty ones come first.
MoveBucket(d) ==
    LET next == Min({Mask(k, d.exp[1]) : k \in {x \in d.tab[1] : Mask(x, d.exp[1]) >= d.idx}})
        moved == Bucket(d.tab[1], d.exp[1], next)
    IN  IF next - d.idx >= EmptyVisits THEN [d EXCEPT !.idx = @ + EmptyVisits]
        ELSE [d EXCEPT !.tab = <<@[1] \ moved, @[2] \cup moved>>, !.idx = next + 1]

\* The end of a rehash: the new table takes the place of the old one.
Finished(d) ==
    IF d.tab[1] = {} THEN [exp |-> <<d.exp[2], -1>>, tab |-> <<d.tab[2], {}>>, idx |-> -1]
    ELSE d

\* dictRehash(d, 1), the step lookups and updates take (_dictRehashStep).
RehashStep(d) ==
    IF ~Rehashing(d) \/ PutOff(d) THEN d
    ELSE Finished(IF d.tab[1] = {} THEN d ELSE MoveBucket(d))

(***************************************************************************)
(* Operations                                                              *)
(***************************************************************************)
\* dictAddRaw, _dictKeyIndex: into the new table during a rehash.
AddRaw(d, k) ==
    LET e == ExpandIfNeeded(RehashStep(d))
    IN  IF k \in All(e) THEN e
        ELSE [e EXCEPT !.tab[IF Rehashing(e) THEN 2 ELSE 1] = @ \cup {k}]

\* dictGenericDelete.
GenericDelete(d, k) ==
    IF All(d) = {} THEN d
    ELSE LET e == RehashStep(d) IN [e EXCEPT !.tab = <<@[1] \ {k}, @[2] \ {k}>>]

ScanUnchanged == UNCHANGED <<cursor, seen>>

dictAdd(k) ==
    /\ k \notin All(D)
    /\ Become(AddRaw(D, k))
    /\ done' = FALSE
    /\ UNCHANGED <<resize, held>> /\ ScanUnchanged

dictDelete(k) ==
    /\ k \in All(D)
    /\ Become(GenericDelete(D, k))
    /\ held' = held \ {k}
    /\ done' = FALSE
    /\ UNCHANGED resize /\ ScanUnchanged

\* A step of a lookup (dictFind), or of the cron's incrementallyRehash, which
\* takes many of them in a row.
Rehash ==
    /\ Rehashing(D)
    /\ Become(RehashStep(D))
    /\ done' = FALSE
    /\ UNCHANGED <<resize, held>> /\ ScanUnchanged

\* tryResizeHashTables: dictResize of a table that is mostly empty.
Shrink ==
    /\ Size(exp[1]) + Size(exp[2]) > 2^InitialExp
    /\ (Cardinality(All(D)) * 100) \div (Size(exp[1]) + Size(exp[2])) < MinFill
    /\ resize = "enable" /\ ~Rehashing(D)
    /\ Become(Expand(D, Max({Cardinality(tab[1]), 2^InitialExp})))
    /\ done' = FALSE
    /\ UNCHANGED <<resize, held>> /\ ScanUnchanged

\* updateDictResizePolicy: a child process starts or ends.
ResizePolicy ==
    /\ resize' = IF resize = "enable" THEN "avoid" ELSE "enable"
    /\ done' = FALSE
    /\ UNCHANGED <<exp, tab, idx, held>> /\ ScanUnchanged

(***************************************************************************)
(* SCAN                                                                    *)
(***************************************************************************)
\* rev: reverse the bits of a word.
Rev(v) == MapThenFoldSet(+, 0, LAMBDA i : ((v \div 2^i) % 2) * 2^(Width - 1 - i),
                         LAMBDA s : CHOOSE i \in s : TRUE, 0..(Width - 1))

\* Mutant: the cursor counts up from the low bits.
NextUp(v, e) == (Mask(v, e) + 1) % 2^e

\* Set the bits above the mask, then add one to the reversed word.
NextCursor(v, e) == Rev((Rev(Mask(v, e) + 2^Width - 2^e) + 1) % 2^Width)

\* Which table is the smaller one.
Small(d) == IF Size(d.exp[1]) > Size(d.exp[2]) THEN 2 ELSE 1

\* The expansions of a bucket of the smaller table, in the larger one: bits
\* of the cursor in the difference of the masks, until they are zero again.
RECURSIVE Expansions(_, _, _)
Expansions(v, e0, e1) ==
    LET w == NextCursor(v, e1)
    IN  IF Mask(w, e1) = Mask(w, e0) THEN <<{Mask(v, e1)}, w>>
        ELSE LET r == Expansions(w, e0, e1) IN <<r[1] \cup {Mask(v, e1)}, r[2]>>

\* dictScan: the keys it emits and the cursor it returns.
dictScan(d, v) ==
    IF All(d) = {} THEN <<{}, 0>>
    ELSE IF ~Rehashing(d) THEN <<Bucket(d.tab[1], d.exp[1], Mask(v, d.exp[1])),
                                 NextCursor(v, d.exp[1])>>
    ELSE LET s == Small(d)
             l == 3 - s
             r == Expansions(v, d.exp[s], d.exp[l])
         IN  <<Bucket(d.tab[s], d.exp[s], Mask(v, d.exp[s]))
                  \cup UNION {Bucket(d.tab[l], d.exp[l], i) : i \in r[1]},
               r[2]>>

\* scanGenericCommand calls dictScan until it has enough keys; a command that
\* calls it several times is several of these steps in a row.
ScanStep(start, v) ==
    LET r == dictScan(D, v)
        had == IF start THEN {} ELSE seen
    IN  /\ seen' = had \cup r[1]
        /\ held' = IF start THEN All(D) ELSE held
        /\ done' = (r[2] = 0)
        /\ cursor' = IF r[2] = 0 THEN -1 ELSE r[2]
        /\ UNCHANGED <<exp, tab, idx, resize>>

ScanStart == cursor = -1 /\ ScanStep(TRUE, 0)
ScanNext == cursor # -1 /\ ScanStep(FALSE, cursor)

Next ==
    \/ \E k \in Keys : dictAdd(k) \/ dictDelete(k)
    \/ Rehash \/ Shrink \/ ResizePolicy \/ ScanStart \/ ScanNext

Spec == Init /\ [][Next]_vars

-----------------------------------------------------------------------------
\* A full iteration, from cursor 0 until the cursor comes back as 0, returns
\* every key that was in the dictionary all the time, however the tables grew,
\* shrank and were rehashed between the calls.
ScanIsComplete == done => held \subseteq seen

=============================================================================
