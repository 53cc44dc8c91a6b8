----------------------------- MODULE SumProofs -----------------------------
(***************************************************************************)
(* Facts about SumFunctionOnSet of the community module Functions, the sum *)
(* of the values of a function over a finite set: it can be taken apart in *)
(* any order.  The conservation theorems about money rest on them.         *)
(*                                                                         *)
(* Induction over finite sets is used in its first-order form: a set of    *)
(* finite sets that is not empty has a minimal element.                    *)
(***************************************************************************)
EXTENDS Functions, FiniteSets, FiniteSetTheorems, WellFoundedInduction, TLAPS

\* Which element of s the fold takes next.
Pick(s) == CHOOSE x \in s : TRUE

\* What the recursive definition inside MapThenFoldSet demands of its
\* function, for the sum of f over subsets of S.
SumsUp(f, S, it) ==
  it = [s \in SUBSET S |->
          IF s = {} THEN 0 ELSE f[Pick(s)] + it[s \ {Pick(s)}]]

\* Induction over the subsets of a finite set: a set of subsets that contains
\* T whenever it contains all proper subsets of T contains every subset.
LEMMA SubsetInduction ==
  ASSUME NEW S, IsFiniteSet(S), NEW G,
         \A T \in SUBSET S : (\A U \in (SUBSET T) \ {T} : U \in G) => T \in G
  PROVE  \A T \in SUBSET S : T \in G
<1>. DEFINE Bad == {T \in SUBSET S : T \notin G}
<1>1. SUFFICES ASSUME Bad # {} PROVE FALSE
  OBVIOUS
<1>2. IsWellFoundedOn(StrictSubsetOrdering(S), SUBSET S)
  BY FS_StrictSubsetOrderingWellFounded, FS_FiniteSubsetsOfFinite, Zenon
<1>3. PICK T \in Bad : \A U \in Bad : <<U, T>> \notin StrictSubsetOrdering(S)
  <2>1. Bad \subseteq SUBSET S
    OBVIOUS
  <2>. DEFINE R == StrictSubsetOrdering(S)
              D == SUBSET S
  <2>2. IsWellFoundedOn(R, D) /\ Bad \subseteq D /\ Bad # {}
    BY <1>1, <1>2, <2>1
  <2>. HIDE DEF Bad, R, D
  <2>3. \E x \in Bad : \A y \in Bad : ~(<<y, x>> \in R)
    BY <2>2, WFMin
  <2>. QED BY <2>3 DEF R
<1>4. \A U \in (SUBSET T) \ {T} : U \in G
  <2>. SUFFICES ASSUME NEW U \in (SUBSET T) \ {T}, U \notin G PROVE FALSE
    OBVIOUS
  <2>1. U \in Bad
    OBVIOUS
  <2>2. <<U, T>> \in StrictSubsetOrdering(S)
    BY DEF StrictSubsetOrdering
  <2>. QED BY <1>3, <2>1, <2>2
<1>. QED BY <1>4

\* The fold takes an element of the set.
LEMMA PickIsMember == ASSUME NEW s, s # {} PROVE Pick(s) \in s
BY DEF Pick

\* The sum is the value of a function that satisfies SumsUp, if there is one.
LEMMA SumIsChosen ==
  ASSUME NEW f, NEW S
  PROVE  SumFunctionOnSet(f, S) = (CHOOSE it : SumsUp(f, S, it))[S]
BY DEF SumFunctionOnSet, FoldFunctionOnSet, MapThenFoldSet, SumsUp, Pick

\* Two such functions agree on the smaller of their sets.
LEMMA SumsAgree ==
  ASSUME NEW f, NEW S, IsFiniteSet(S), NEW T \in SUBSET S,
         NEW i, SumsUp(f, S, i), NEW j, SumsUp(f, T, j)
  PROVE  i[T] = j[T]
<1>. DEFINE G == {r \in SUBSET T : i[r] = j[r]}
<1>1. IsFiniteSet(T)
  BY FS_Subset
<1>2. ASSUME NEW r \in SUBSET T, \A U \in (SUBSET r) \ {r} : U \in G
      PROVE  r \in G
  <2>1. CASE r = {}
    BY <2>1 DEF SumsUp
  <2>2. CASE r # {}
    <3>1. r \ {Pick(r)} \in (SUBSET r) \ {r}
      BY <2>2, PickIsMember
    <3>2. i[r \ {Pick(r)}] = j[r \ {Pick(r)}]
      BY <3>1, <1>2
    <3>3. i[r] = f[Pick(r)] + i[r \ {Pick(r)}] /\ j[r] = f[Pick(r)] + j[r \ {Pick(r)}]
      BY <2>2, Zenon DEF SumsUp
    <3>. QED BY <3>2, <3>3
  <2>. QED BY <2>1, <2>2
<1>3. \A r \in SUBSET T : r \in G
  <2>. HIDE DEF G
  <2>. QED BY <1>1, <1>2, SubsetInduction
<1>. QED BY <1>3

\* If there is such a function, the sum is the value of any of them.
LEMMA SumIsValue ==
  ASSUME NEW f, NEW S, IsFiniteSet(S), NEW i, SumsUp(f, S, i)
  PROVE  SumFunctionOnSet(f, S) = i[S]
<1>. DEFINE j == CHOOSE it : SumsUp(f, S, it)
<1>1. SumsUp(f, S, j)
  <2>. SUFFICES SumsUp(f, S, CHOOSE it : SumsUp(f, S, it))
    OBVIOUS
  <2>. QED BY Zenon
<1>2. SumFunctionOnSet(f, S) = j[S]
  BY SumIsChosen
<1>. HIDE DEF j
<1>3. j[S] = i[S]
  BY <1>1, SumsAgree
<1>. QED BY <1>2, <1>3

\* There is such a function for every finite set.
LEMMA SumsExist ==
  ASSUME NEW f, NEW S, IsFiniteSet(S)
  PROVE  \E it : SumsUp(f, S, it)
<1>. DEFINE G == {T \in SUBSET S : \E it : SumsUp(f, T, it)}
<1>1. ASSUME NEW T \in SUBSET S, \A U \in (SUBSET T) \ {T} : U \in G
      PROVE  T \in G
  <2>. DEFINE it == [s \in SUBSET T |->
                       IF s = {} THEN 0
                       ELSE f[Pick(s)] + SumFunctionOnSet(f, s \ {Pick(s)})]
  <2>1. ASSUME NEW s \in SUBSET T, s # {}
        PROVE  it[s] = f[Pick(s)] + it[s \ {Pick(s)}]
    <3>. DEFINE r == s \ {Pick(s)}
    <3>1. Pick(s) \in s /\ r \in (SUBSET T) \ {T} /\ r \in SUBSET S /\ IsFiniteSet(r)
      BY <2>1, PickIsMember, FS_Subset
    <3>2. PICK i : SumsUp(f, r, i)
      BY <3>1, <1>1
    <3>3. SumFunctionOnSet(f, r) = i[r]
      BY <3>1, <3>2, SumIsValue
    <3>4. it[r] = SumFunctionOnSet(f, r)
      <4>1. CASE r = {}
        BY <3>1, <3>2, <3>3, <4>1 DEF SumsUp
      <4>2. CASE r # {}
        <5>. DEFINE q == r \ {Pick(r)}
        <5>1. Pick(r) \in r /\ q \in (SUBSET T) \ {T} /\ q \in SUBSET r /\ IsFiniteSet(q)
          BY <3>1, <4>2, PickIsMember, FS_Subset
        <5>2. PICK j : SumsUp(f, q, j)
          BY <5>1, <1>1
        <5>3. SumFunctionOnSet(f, q) = j[q]
          BY <5>1, <5>2, SumIsValue
        <5>4. i[q] = j[q]
          BY <3>1, <3>2, <5>1, <5>2, SumsAgree
        <5>5. i[r] = f[Pick(r)] + i[q]
          BY <3>2, <4>2, Zenon DEF SumsUp
        <5>6. it[r] = f[Pick(r)] + SumFunctionOnSet(f, q)
          BY <3>1, <4>2
        <5>. QED BY <3>3, <5>3, <5>4, <5>5, <5>6
      <4>. QED BY <4>1, <4>2
    <3>5. it[s] = f[Pick(s)] + SumFunctionOnSet(f, r)
      BY <2>1
    <3>. QED BY <3>4, <3>5
  <2>2. SumsUp(f, T, it)
    BY <2>1, Zenon DEF SumsUp
  <2>. QED BY <2>2
<1>2. \A T \in SUBSET S : T \in G
  <2>. HIDE DEF G
  <2>. QED BY <1>1, SubsetInduction
<1>. QED BY <1>2

\* The sum over a set that is not empty takes one element and goes on.
LEMMA SumStep ==
  ASSUME NEW f, NEW S, IsFiniteSet(S)
  PROVE  SumFunctionOnSet(f, S) =
           IF S = {} THEN 0
           ELSE f[Pick(S)] + SumFunctionOnSet(f, S \ {Pick(S)})
<1>1. PICK i : SumsUp(f, S, i)
  BY SumsExist
<1>2. SumFunctionOnSet(f, S) = i[S]
  BY <1>1, SumIsValue
<1>3. CASE S = {}
  BY <1>1, <1>2, <1>3 DEF SumsUp
<1>4. CASE S # {}
  <2>. DEFINE r == S \ {Pick(S)}
  <2>1. r \in SUBSET S /\ IsFiniteSet(r)
    BY FS_Subset
  <2>2. PICK j : SumsUp(f, r, j)
    BY <2>1, SumsExist
  <2>3. SumFunctionOnSet(f, r) = j[r]
    BY <2>1, <2>2, SumIsValue
  <2>4. i[r] = j[r]
    BY <1>1, <2>1, <2>2, SumsAgree
  <2>5. i[S] = f[Pick(S)] + i[r]
    BY <1>1, <1>4, Zenon DEF SumsUp
  <2>. QED BY <1>2, <1>4, <2>3, <2>4, <2>5
<1>. QED BY <1>3, <1>4

-----------------------------------------------------------------------------
(* What the other proofs use.                                              *)

\* The sum over no elements.
LEMMA SumEmpty == ASSUME NEW f PROVE SumFunctionOnSet(f, {}) = 0
BY SumStep, FS_EmptySet, Zenon

\* The sum of integers is an integer.
LEMMA SumInt ==
  ASSUME NEW f, NEW S, IsFiniteSet(S), \A x \in S : f[x] \in Int
  PROVE  SumFunctionOnSet(f, S) \in Int
<1>. DEFINE G == {T \in SUBSET S : SumFunctionOnSet(f, T) \in Int}
<1>1. ASSUME NEW T \in SUBSET S, \A U \in (SUBSET T) \ {T} : U \in G
      PROVE  T \in G
  <2>1. IsFiniteSet(T)
    BY FS_Subset
  <2>2. CASE T = {}
    BY <2>2, SumEmpty
  <2>3. CASE T # {}
    <3>1. Pick(T) \in T /\ T \ {Pick(T)} \in (SUBSET T) \ {T}
      BY <2>3, PickIsMember
    <3>2. SumFunctionOnSet(f, T \ {Pick(T)}) \in Int
      BY <3>1, <1>1
    <3>3. f[Pick(T)] \in Int
      BY <3>1
    <3>. QED BY <2>1, <2>3, <3>2, <3>3, SumStep
  <2>. QED BY <2>2, <2>3
<1>2. \A T \in SUBSET S : T \in G
  <2>. HIDE DEF G
  <2>. QED BY <1>1, SubsetInduction, Zenon
<1>. QED BY <1>2

\* The sum takes its elements in any order.
LEMMA SumRemove ==
  ASSUME NEW f, NEW S, IsFiniteSet(S), \A x \in S : f[x] \in Int, NEW y \in S
  PROVE  SumFunctionOnSet(f, S) = f[y] + SumFunctionOnSet(f, S \ {y})
<1>. DEFINE Apart(T) ==
       \A x \in T : SumFunctionOnSet(f, T) = f[x] + SumFunctionOnSet(f, T \ {x})
<1>. DEFINE G == {T \in SUBSET S : Apart(T)}
<1>1. ASSUME NEW T \in SUBSET S, \A U \in (SUBSET T) \ {T} : U \in G
      PROVE  T \in G
  <2>. SUFFICES ASSUME NEW x \in T
                PROVE  SumFunctionOnSet(f, T) = f[x] + SumFunctionOnSet(f, T \ {x})
    OBVIOUS
  <2>. DEFINE p == Pick(T)
  <2>1. IsFiniteSet(T) /\ IsFiniteSet(T \ {x}) /\ p \in T
    BY FS_Subset, PickIsMember
  <2>2. SumFunctionOnSet(f, T) = f[p] + SumFunctionOnSet(f, T \ {p})
    BY <2>1, SumStep
  <2>3. CASE x = p
    BY <2>2, <2>3
  <2>4. CASE x # p
    <3>. DEFINE rest == SumFunctionOnSet(f, (T \ {p}) \ {x})
    <3>1. SumFunctionOnSet(f, T \ {p}) = f[x] + rest
      <4>1. T \ {p} \in (SUBSET T) \ {T} /\ x \in T \ {p}
        BY <2>1, <2>4
      <4>. QED BY <4>1, <1>1
    <3>2. SumFunctionOnSet(f, T \ {x}) = f[p] + rest
      <4>1. T \ {x} \in (SUBSET T) \ {T} /\ p \in T \ {x}
        BY <2>1, <2>4
      <4>2. (T \ {x}) \ {p} = (T \ {p}) \ {x}
        OBVIOUS
      <4>. QED BY <4>1, <4>2, <1>1
    <3>3. f[x] \in Int /\ f[p] \in Int /\ rest \in Int
      <4>1. (T \ {p}) \ {x} \in SUBSET S /\ \A z \in (T \ {p}) \ {x} : f[z] \in Int
        OBVIOUS
      <4>2. IsFiniteSet((T \ {p}) \ {x})
        BY <4>1, FS_Subset
      <4>3. rest \in Int
        BY <4>1, <4>2, SumInt
      <4>. QED BY <2>1, <4>3
    <3>. HIDE DEF p, rest
    <3>. QED BY <2>2, <3>1, <3>2, <3>3
  <2>. QED BY <2>3, <2>4
<1>2. \A T \in SUBSET S : T \in G
  <2>. HIDE DEF G
  <2>. QED BY <1>1, SubsetInduction
<1>. QED BY <1>2

\* Functions that agree on a set have the same sum over it.
LEMMA SumSame ==
  ASSUME NEW f, NEW g, NEW S, IsFiniteSet(S), \A x \in S : f[x] = g[x]
  PROVE  SumFunctionOnSet(f, S) = SumFunctionOnSet(g, S)
<1>. DEFINE G == {T \in SUBSET S : SumFunctionOnSet(f, T) = SumFunctionOnSet(g, T)}
<1>1. ASSUME NEW T \in SUBSET S, \A U \in (SUBSET T) \ {T} : U \in G
      PROVE  T \in G
  <2>1. IsFiniteSet(T)
    BY FS_Subset
  <2>2. CASE T = {}
    BY <2>2, SumEmpty
  <2>3. CASE T # {}
    <3>1. Pick(T) \in T /\ T \ {Pick(T)} \in (SUBSET T) \ {T}
      BY <2>3, PickIsMember
    <3>2. SumFunctionOnSet(f, T \ {Pick(T)}) = SumFunctionOnSet(g, T \ {Pick(T)})
      BY <3>1, <1>1
    <3>3. f[Pick(T)] = g[Pick(T)]
      BY <3>1
    <3>. QED BY <2>1, <2>3, <3>2, <3>3, SumStep
  <2>. QED BY <2>2, <2>3
<1>2. \A T \in SUBSET S : T \in G
  <2>. HIDE DEF G
  <2>. QED BY <1>1, SubsetInduction
<1>. QED BY <1>2

\* The sum of zeros.
LEMMA SumZero ==
  ASSUME NEW f, NEW S, IsFiniteSet(S), \A x \in S : f[x] = 0
  PROVE  SumFunctionOnSet(f, S) = 0
<1>. DEFINE G == {T \in SUBSET S : SumFunctionOnSet(f, T) = 0}
<1>1. ASSUME NEW T \in SUBSET S, \A U \in (SUBSET T) \ {T} : U \in G
      PROVE  T \in G
  <2>1. IsFiniteSet(T)
    BY FS_Subset
  <2>2. CASE T = {}
    BY <2>2, SumEmpty
  <2>3. CASE T # {}
    <3>1. Pick(T) \in T /\ T \ {Pick(T)} \in (SUBSET T) \ {T}
      BY <2>3, PickIsMember
    <3>2. SumFunctionOnSet(f, T \ {Pick(T)}) = 0
      BY <3>1, <1>1
    <3>3. f[Pick(T)] = 0
      BY <3>1
    <3>. QED BY <2>1, <2>3, <3>2, <3>3, SumStep
  <2>. QED BY <2>2, <2>3
<1>2. \A T \in SUBSET S : T \in G
  <2>. HIDE DEF G
  <2>. QED BY <1>1, SubsetInduction
<1>. QED BY <1>2

\* A function that differs at one place of the set.
LEMMA SumChange ==
  ASSUME NEW f, NEW g, NEW S, IsFiniteSet(S), NEW y \in S,
         \A x \in S : f[x] \in Int /\ g[x] \in Int,
         \A x \in S \ {y} : f[x] = g[x]
  PROVE  SumFunctionOnSet(g, S) = SumFunctionOnSet(f, S) + (g[y] - f[y])
<1>. DEFINE R == S \ {y}
<1>1. IsFiniteSet(R) /\ \A x \in R : f[x] \in Int /\ f[x] = g[x]
  BY FS_RemoveElement
<1>2. SumFunctionOnSet(f, R) = SumFunctionOnSet(g, R) /\ SumFunctionOnSet(f, R) \in Int
  <2>. HIDE DEF R
  <2>. QED BY <1>1, SumSame, SumInt
<1>3. /\ SumFunctionOnSet(f, S) = f[y] + SumFunctionOnSet(f, R)
      /\ SumFunctionOnSet(g, S) = g[y] + SumFunctionOnSet(g, R)
  BY SumRemove
<1>4. f[y] \in Int /\ g[y] \in Int
  OBVIOUS
<1>. HIDE DEF R
<1>. QED BY <1>2, <1>3, <1>4

\* A function that differs at two places of the set.
LEMMA SumChangeTwo ==
  ASSUME NEW f, NEW g, NEW S, IsFiniteSet(S), NEW y \in S, NEW z \in S, y # z,
         \A x \in S : f[x] \in Int /\ g[x] \in Int,
         \A x \in S \ {y, z} : f[x] = g[x]
  PROVE  SumFunctionOnSet(g, S) =
           SumFunctionOnSet(f, S) + (g[y] - f[y]) + (g[z] - f[z])
<1>. DEFINE h == [x \in S |-> IF x = y THEN g[x] ELSE f[x]]
<1>1. /\ \A x \in S : h[x] \in Int
      /\ \A x \in S \ {y} : f[x] = h[x]
      /\ \A x \in S \ {z} : h[x] = g[x]
      /\ h[y] = g[y] /\ h[z] = f[z]
  OBVIOUS
<1>. HIDE DEF h
<1>2. SumFunctionOnSet(h, S) = SumFunctionOnSet(f, S) + (h[y] - f[y])
  BY <1>1, SumChange
<1>3. SumFunctionOnSet(g, S) = SumFunctionOnSet(h, S) + (g[z] - h[z])
  BY <1>1, SumChange
<1>. QED BY <1>1, <1>2, <1>3

\* One more element.
LEMMA SumAdd ==
  ASSUME NEW f, NEW S, IsFiniteSet(S), NEW y, y \notin S,
         \A x \in S \cup {y} : f[x] \in Int
  PROVE  SumFunctionOnSet(f, S \cup {y}) = SumFunctionOnSet(f, S) + f[y]
<1>. DEFINE T == S \cup {y}
<1>1. IsFiniteSet(T) /\ y \in T /\ T \ {y} = S /\ \A x \in T : f[x] \in Int
  BY FS_AddElement
<1>2. SumFunctionOnSet(f, S) \in Int
  BY SumInt
<1>3. SumFunctionOnSet(f, T) = f[y] + SumFunctionOnSet(f, S)
  <2>. HIDE DEF T
  <2>. QED BY <1>1, SumRemove
<1>. QED BY <1>2, <1>3
=============================================================================
