---------------------------- MODULE LedgerProofs ----------------------------
(***************************************************************************)
(* The ledger of MatchSettlement.  Whatever matches share players, and     *)
(* however often a match is settled: the locked balances are what the      *)
(* matches hold, and money is neither made nor lost.                       *)
(***************************************************************************)
EXTENDS MatchSettlementProofs, SumProofs

\* A handler runs, and the state key exists, only for a match that was
\* created; a match that was not is not settled.
StartedInv ==
  /\ \A m \in Match : status[m] = "none" =>
       state[m] = "none" /\ paid[m] = 0 /\ refunded[m] = 0
  /\ \A h \in Handler : step[h] # "idle" => status[h.match] # "none"

Ledger == WinnerInv /\ StartedInv /\ EscrowIsExact /\ MoneyIsConserved

LedgerInv == TypeInv /\ Ledger

\* The amounts involved are integers.
LEMMA PrizeType ==
  ASSUME NEW m \in Match
  PROVE  /\ entryFee[m] \in Nat
         /\ PlatformFee(entryFee[m]) \in Int
         /\ NetPrize(entryFee[m]) \in Int
         /\ NetPrize(entryFee[m]) = 2 * entryFee[m] - PlatformFee(entryFee[m])
<1>1. entryFee[m] \in Nat
  BY PlayersType
<1>2. GrossPrize(entryFee[m]) * PLATFORM_FEE_PERCENT \in Int
  BY <1>1, PercentAssumption DEF GrossPrize
<1>3. PlatformFee(entryFee[m]) \in Int
  BY <1>2 DEF PlatformFee
<1> QED
  BY <1>1, <1>3 DEF NetPrize, GrossPrize

\* What a match holds of each player is a number.
LEMMA HeldType ==
  ASSUME TypeInv, NEW m \in Match
  PROVE  Held(m) \in Int
BY Counts, PlayersType DEF Held

\* The columns of a wallet row are numbers.
LEMMA RowType ==
  ASSUME TypeInv, NEW u \in User
  PROVE  wallets[u].balance \in Int /\ wallets[u].locked \in Int
BY NumericAssumption DEF TypeInv, TypeOK, DatabaseOK, Row, Column

\* A step that leaves the wallets and the settlements alone.
LEMMA LedgerQuiet ==
  ASSUME EscrowIsExact, MoneyIsConserved, UNCHANGED <<wallets, paid, refunded>>,
         \A m \in Match : status'[m] = "none" <=> status[m] = "none"
  PROVE  EscrowIsExact' /\ MoneyIsConserved'
<1>1. ASSUME NEW u \in User PROVE MatchesOf(u)' = MatchesOf(u)
  BY DEF MatchesOf
<1>2. EscrowIsExact'
  BY <1>1 DEF EscrowIsExact, Held
<1>3. MoneyIsConserved'
  BY DEF MoneyIsConserved
<1> QED
  BY <1>2, <1>3

\* A player is in finitely many matches.
LEMMA MatchesOfFinite == ASSUME NEW u PROVE IsFiniteSet(MatchesOf(u))
BY FiniteAssumption, FS_Subset DEF MatchesOf

\* A settlement of m takes its fee from both players' escrow.
LEMMA EscrowSettled ==
  ASSUME TypeInv, TypeInv', EscrowIsExact, NEW m \in Match,
         status[m] # "none", UNCHANGED status,
         \A u \in User : wallets'[u].locked =
           IF u \in Players(m) THEN wallets[u].locked - entryFee[m] ELSE wallets[u].locked,
         paid'[m] + refunded'[m] = paid[m] + refunded[m] + 1,
         \A n \in Match \ {m} : paid'[n] = paid[n] /\ refunded'[n] = refunded[n]
  PROVE  EscrowIsExact'
<1>1. Held(m)' = Held(m) - entryFee[m]
  <2>1. /\ paid[m] \in Nat /\ refunded[m] \in Nat /\ paid'[m] \in Nat /\ refunded'[m] \in Nat
        /\ entryFee[m] \in Nat
    BY Counts, PlayersType DEF TypeInv, TypeOK, HistoryOK
  <2>2. 1 - paid'[m] - refunded'[m] = (1 - paid[m] - refunded[m]) - 1
    BY <2>1
  <2>3. \A a \in Nat, b \in Int : a * (b - 1) = a * b - a
    OBVIOUS
  <2>4. 1 - paid[m] - refunded[m] \in Int
    BY <2>1
  <2> QED
    BY <2>1, <2>2, <2>3, <2>4 DEF Held
<1>2. \A n \in Match \ {m} : Held(n)' = Held(n)
  BY DEF Held
<1>3. \A n \in Match : Held(n) \in Int /\ Held(n)' \in Int
  <2>1. \A n \in Match : Held(n) \in Int
    BY HeldType
  <2> QED
    BY <1>1, <1>2, <2>1, PlayersType
<1>4. ASSUME NEW u \in User
      PROVE  wallets'[u].locked = SumFunctionOnSet([n \in Match |-> Held(n)'], MatchesOf(u))
  <2> DEFINE f == [n \in Match |-> Held(n)]
             g == [n \in Match |-> Held(n)']
             S == MatchesOf(u)
  <2>1. IsFiniteSet(S) /\ S \subseteq Match
    BY MatchesOfFinite, Zenon DEF MatchesOf
  <2>2. \A n \in S : f[n] \in Int /\ g[n] \in Int
    BY <1>3, <2>1
  <2>3. wallets[u].locked = SumFunctionOnSet(f, S)
    BY DEF EscrowIsExact
  <2>4. CASE u \in Players(m)
    <3>1. m \in S
      BY <2>4 DEF MatchesOf
    <3>2. \A n \in S \ {m} : f[n] = g[n]
      BY <1>2, <2>1
    <3>3. g[m] - f[m] = -entryFee[m] /\ entryFee[m] \in Nat
      BY <1>1, <1>3, PlayersType
    <3>4. wallets'[u].locked = wallets[u].locked - entryFee[m] /\ wallets[u].locked \in Int
      BY <2>4, LockedType
    <3> HIDE DEF f, g, S
    <3>5. SumFunctionOnSet(g, S) = SumFunctionOnSet(f, S) + (g[m] - f[m])
      BY <2>1, <2>2, <3>1, <3>2, SumChange
    <3>6. wallets'[u].locked = SumFunctionOnSet(g, S)
      BY <2>3, <3>3, <3>4, <3>5
    <3> QED
      BY <3>6 DEF g, S
  <2>5. CASE u \notin Players(m)
    <3>1. \A n \in S : f[n] = g[n]
      BY <1>2, <2>1, <2>5 DEF MatchesOf
    <3>2. wallets'[u].locked = wallets[u].locked
      BY <2>5
    <3> HIDE DEF f, g, S
    <3>3. SumFunctionOnSet(f, S) = SumFunctionOnSet(g, S)
      BY <2>1, <3>1, SumSame
    <3>4. wallets'[u].locked = SumFunctionOnSet(g, S)
      BY <2>3, <3>2, <3>3
    <3> QED
      BY <3>4 DEF g, S
  <2> QED
    BY <2>4, <2>5
<1>5. \A u \in User : MatchesOf(u)' = MatchesOf(u)
  BY DEF MatchesOf
<1> QED
  BY <1>4, <1>5 DEF EscrowIsExact

\* A new match adds its fee to both players' escrow.
LEMMA EscrowCreated ==
  ASSUME TypeInv, StartedInv, EscrowIsExact, NEW h \in Handler, CreateMatch(h)
  PROVE  EscrowIsExact'
<1> DEFINE m == h.match
<1>1. /\ m \in Match /\ status[m] = "none" /\ status'[m] = "IN_PROGRESS"
      /\ \A n \in Match \ {m} : status'[n] = status[n]
      /\ paid' = paid /\ refunded' = refunded
  BY HandlerType DEF CreateMatch, TypeInv, TypeOK, DatabaseOK, history
<1>2. \A u \in User : wallets'[u].locked =
        IF u \in Players(m) THEN wallets[u].locked + entryFee[m] ELSE wallets[u].locked
  BY <1>1, LockEffect DEF CreateMatch
<1>3. entryFee[m] \in Nat /\ Held(m) = entryFee[m]
  BY <1>1, PlayersType DEF StartedInv, Held
<1> DEFINE f == [n \in Match |-> Held(n)]
<1>4. \A n \in Match : f[n] \in Int
  BY HeldType
<1>5. ASSUME NEW u \in User
      PROVE  wallets'[u].locked = SumFunctionOnSet(f, MatchesOf(u)')
  <2> DEFINE S == MatchesOf(u)
  <2>1. IsFiniteSet(S) /\ S \subseteq Match /\ m \notin S
    BY <1>1, MatchesOfFinite, Zenon DEF MatchesOf
  <2>2. wallets[u].locked = SumFunctionOnSet(f, S)
    BY DEF EscrowIsExact
  <2>3. CASE u \in Players(m)
    <3>1. MatchesOf(u)' = S \cup {m}
      BY <1>1, <2>3 DEF MatchesOf
    <3>2. f[m] = entryFee[m] /\ wallets'[u].locked = wallets[u].locked + entryFee[m]
      BY <1>1, <1>2, <1>3, <2>3
    <3>3. \A n \in S \cup {m} : f[n] \in Int
      BY <1>1, <1>4, <2>1
    <3> HIDE DEF f, S, m
    <3>4. SumFunctionOnSet(f, S \cup {m}) = SumFunctionOnSet(f, S) + f[m]
      BY <2>1, <3>3, SumAdd
    <3> QED
      BY <2>2, <3>1, <3>2, <3>4
  <2>4. CASE u \notin Players(m)
    <3>1. MatchesOf(u)' = S
      BY <1>1, <2>4 DEF MatchesOf
    <3> QED
      BY <1>2, <2>2, <2>4, <3>1
  <2> QED
    BY <2>3, <2>4
<1>6. f = [n \in Match |-> Held(n)']
  BY <1>1 DEF Held
<1> QED
  BY <1>5, <1>6 DEF EscrowIsExact

\* What a transaction that adds n to the balances of S does to them.
LEMMA AppliedBalance ==
  ASSUME TypeInv, NEW t, NEW S, NEW n \in Int, t.balance = Only(S, n), NEW u \in User,
         wallets' = Applied(wallets, t)
  PROVE  wallets'[u].balance = IF u \in S THEN wallets[u].balance + n ELSE wallets[u].balance
<1>1. wallets'[u].balance = wallets[u].balance + t.balance[u]
  BY DEF Applied, UpdatedRow
<1>2. t.balance[u] = IF u \in S THEN n ELSE 0
  BY DEF Only
<1> QED
  BY <1>1, <1>2, RowType

\* Locking and refunding move money between the columns of a wallet.
LEMMA MoneyMoved ==
  ASSUME TypeInv, MoneyIsConserved, UNCHANGED paid,
         \A u \in User : wallets'[u].balance + wallets'[u].locked
                         = wallets[u].balance + wallets[u].locked
  PROVE  MoneyIsConserved'
<1> DEFINE f == [u \in User |-> wallets[u].balance + wallets[u].locked]
           g == [u \in User |-> wallets'[u].balance + wallets'[u].locked]
<1>1. \A u \in User : f[u] = g[u]
  OBVIOUS
<1>2. SumFunctionOnSet(f, User) = SumFunctionOnSet(g, User)
  <2> HIDE DEF f, g
  <2> QED
    BY <1>1, FiniteAssumption, SumSame
<1> QED
  BY <1>2 DEF MoneyIsConserved

\* Locking moves money within two rows.
LEMMA MoneyLocked ==
  ASSUME TypeInv, MoneyIsConserved, NEW m \in Match, UNCHANGED paid,
         wallets' = Applied(wallets, lockFundsForMatch(playerA[m], playerB[m], entryFee[m]))
  PROVE  MoneyIsConserved'
<1> DEFINE t == lockFundsForMatch(playerA[m], playerB[m], entryFee[m])
<1>1. ASSUME NEW u \in User
      PROVE  wallets'[u].balance + wallets'[u].locked = wallets[u].balance + wallets[u].locked
  <2>1. entryFee[m] \in Int /\ -entryFee[m] \in Int
    BY PlayersType
  <2>2. t.balance = Only(Players(m), -entryFee[m])
    BY DEF lockFundsForMatch, Players
  <2>3. wallets' = Applied(wallets, t)
    OBVIOUS
  <2> HIDE DEF t
  <2>4. wallets'[u].balance =
          IF u \in Players(m) THEN wallets[u].balance + (-entryFee[m]) ELSE wallets[u].balance
    BY <2>1, <2>2, <2>3, AppliedBalance
  <2> QED
    BY <2>1, <2>4, LockEffect, RowType
<1> QED
  BY <1>1, MoneyMoved

\* So does a refund.
LEMMA MoneyRefunded ==
  ASSUME TypeInv, MoneyIsConserved, NEW m \in Match, Refund(m), UNCHANGED paid
  PROVE  MoneyIsConserved'
<1>1. ASSUME NEW u \in User
      PROVE  wallets'[u].balance + wallets'[u].locked = wallets[u].balance + wallets[u].locked
  <2>1. entryFee[m] \in Int
    BY PlayersType
  <2>2. RefundOf(m).balance = Only(Players(m), entryFee[m])
    BY DEF RefundOf, refundBothPlayers, Players
  <2>3. wallets' = Applied(wallets, RefundOf(m))
    BY DEF Refund
  <2>4. wallets'[u].balance =
          IF u \in Players(m) THEN wallets[u].balance + entryFee[m] ELSE wallets[u].balance
    BY <2>1, <2>2, <2>3, AppliedBalance
  <2> QED
    BY <2>1, <2>4, RefundEffect, RowType
<1> QED
  BY <1>1, MoneyMoved

\* A payout takes both entry fees, pays the winner and leaves the rest to the
\* platform.
LEMMA MoneyPaid ==
  ASSUME TypeInv, TypeInv', MoneyIsConserved, NEW h \in Handler,
         win[h] \in Players(h.match), Release(h)
  PROVE  MoneyIsConserved'
<1> DEFINE m == h.match
           w == win[h]
           l == Opponent(m, w)
           fee == entryFee[m]
<1>1. /\ m \in Match /\ w \in User /\ l \in User /\ w # l /\ Players(m) = {w, l}
      /\ fee \in Nat /\ -fee \in Int /\ NetPrize(fee) \in Int /\ PlatformFee(fee) \in Int
      /\ NetPrize(fee) = 2 * fee - PlatformFee(fee)
  <2>1. m \in Match
    BY HandlerType
  <2>2. w \in User /\ l \in User /\ Players(m) = {w, l}
    BY <2>1, PlayersAreUsers
  <2>3. w # l
    BY <2>1, PlayersType DEF Opponent, Players
  <2> QED
    BY <2>1, <2>2, <2>3, PrizeType
<1>2. \A u \in User : wallets'[u].locked =
        IF u \in {w, l} THEN wallets[u].locked - fee ELSE wallets[u].locked
  BY <1>1, ReleaseEffect
<1>3. \A u \in User : wallets'[u].balance =
        IF u \in {w} THEN wallets[u].balance + NetPrize(fee) ELSE wallets[u].balance
  <2>1. ReleaseOf(h).balance = Only({w}, NetPrize(fee))
    BY DEF ReleaseOf, releaseEscrowToWinner
  <2>2. wallets' = Applied(wallets, ReleaseOf(h))
    BY DEF Release
  <2> QED
    BY <1>1, <2>1, <2>2, AppliedBalance
<1> DEFINE f == [u \in User |-> wallets[u].balance + wallets[u].locked]
           g == [u \in User |-> wallets'[u].balance + wallets'[u].locked]
           a == [n \in Match |-> paid[n] * PlatformFee(entryFee[n])]
           b == [n \in Match |-> paid'[n] * PlatformFee(entryFee[n])]
<1>4. /\ \A u \in User : f[u] \in Int /\ g[u] \in Int
      /\ \A u \in User \ {w, l} : f[u] = g[u]
      /\ g[w] - f[w] = NetPrize(fee) - fee /\ g[l] - f[l] = -fee
  <2>1. \A u \in User : /\ wallets[u].balance \in Int /\ wallets[u].locked \in Int
                        /\ f[u] = wallets[u].balance + wallets[u].locked
                        /\ g[u] = wallets'[u].balance + wallets'[u].locked
    BY RowType
  <2> HIDE DEF f, g, m, w, l, fee
  <2> QED
    BY <1>1, <1>2, <1>3, <2>1
<1>5. /\ \A n \in Match : a[n] \in Int /\ b[n] \in Int
      /\ \A n \in Match \ {m} : a[n] = b[n]
      /\ b[m] - a[m] = PlatformFee(fee)
  <2>1. \A n \in Match : paid[n] \in Nat /\ paid'[n] \in Nat /\ PlatformFee(entryFee[n]) \in Int
    BY Counts, PrizeType DEF TypeInv, TypeOK, HistoryOK
  <2>2. paid'[m] = paid[m] + 1 /\ \A n \in Match \ {m} : paid'[n] = paid[n]
    BY <1>1 DEF Release, TypeInv, TypeOK, HistoryOK
  <2>3. \A i, j \in Int : i * j \in Int /\ (i + 1) * j = i * j + j
    OBVIOUS
  <2>4. \A n \in Match : /\ a[n] = paid[n] * PlatformFee(entryFee[n])
                         /\ b[n] = paid'[n] * PlatformFee(entryFee[n])
    OBVIOUS
  <2>5. a[m] = paid[m] * PlatformFee(fee) /\ b[m] = (paid[m] + 1) * PlatformFee(fee)
    BY <1>1, <2>2, <2>4
  <2>6. b[m] = a[m] + PlatformFee(fee) /\ a[m] \in Int
    BY <1>1, <2>1, <2>3, <2>5
  <2> HIDE DEF a, b, m, fee
  <2>7. \A n \in Match : a[n] \in Int /\ b[n] \in Int
    BY <2>1, <2>3, <2>4
  <2>8. \A n \in Match \ {m} : a[n] = b[n]
    BY <2>2, <2>4
  <2> QED
    BY <1>1, <2>6, <2>7, <2>8
<1>6. /\ SumFunctionOnSet(g, User) =
           SumFunctionOnSet(f, User) + (g[w] - f[w]) + (g[l] - f[l])
      /\ SumFunctionOnSet(f, User) \in Int
  <2> HIDE DEF f, g, m, w, l, fee
  <2> QED
    BY <1>1, <1>4, FiniteAssumption, SumChangeTwo, SumInt
<1>7. /\ SumFunctionOnSet(b, Match) = SumFunctionOnSet(a, Match) + (b[m] - a[m])
      /\ SumFunctionOnSet(a, Match) \in Int
  <2> HIDE DEF a, b, m
  <2> QED
    BY <1>1, <1>5, FiniteAssumption, SumChange, SumInt
<1>8. SumFunctionOnSet(f, User) + SumFunctionOnSet(a, Match)
        = SumFunctionOnSet([u \in User |-> OpeningBalance], User)
  BY DEF MoneyIsConserved
<1>9. SumFunctionOnSet(g, User) + SumFunctionOnSet(b, Match)
        = SumFunctionOnSet([u \in User |-> OpeningBalance], User)
  <2> DEFINE total == SumFunctionOnSet([u \in User |-> OpeningBalance], User)
  <2> HIDE DEF f, g, a, b, m, w, l, fee, total
  <2> SUFFICES SumFunctionOnSet(g, User) + SumFunctionOnSet(b, Match) = total
    BY DEF total
  <2>1. SumFunctionOnSet(f, User) + SumFunctionOnSet(a, Match) = total
    BY <1>8 DEF total
  <2> QED
    BY <1>1, <1>4, <1>5, <1>6, <1>7, <2>1
<1> QED
  BY <1>9 DEF MoneyIsConserved

\* How the steps of a handler go on: it moves within its event or within
\* resolveMatch, returns, or calls resolveMatch with a player.
Advance(h) ==
  \/ \E s \in Steps : Goto(h, s) /\ (s \in ResolveSteps => step[h] \in ResolveSteps)
  \/ Return(h)
  \/ \E w \in Players(h.match) : Resolve(h, w)

\* The three ways to advance.
LEMMA AdvanceGoto ==
  ASSUME NEW h \in Handler, NEW s \in Steps, Goto(h, s),
         s \in ResolveSteps => step[h] \in ResolveSteps
  PROVE  Advance(h)
BY DEF Advance

\* A handler that returns, or goes on to resolveMatch, advances.
LEMMA AdvanceReturn == ASSUME NEW h \in Handler, Return(h) PROVE Advance(h)
BY DEF Advance

LEMMA AdvanceResolve ==
  ASSUME NEW h \in Handler, NEW w \in Players(h.match), Resolve(h, w)
  PROVE  Advance(h)
BY DEF Advance

\* A step of a handler whose match exists afterwards.
LEMMA Advanced ==
  ASSUME TypeInv, WinnerInv, StartedInv, NEW h \in Handler, Advance(h),
         status'[h.match] # "none",
         \A m \in Match \ {h.match} :
           /\ status'[m] = "none" => status[m] = "none"
           /\ state'[m] = state[m] /\ paid'[m] = paid[m] /\ refunded'[m] = refunded[m],
         \A m \in Match : status[m] # "none" => status'[m] # "none"
  PROVE  WinnerInv' /\ StartedInv'
<1>1. \A g \in Handler : g # h => step'[g] = step[g] /\ win'[g] = win[g]
  BY DEF Advance, Goto, Return, Resolve, TypeInv, TypeOK, HandlersOK
<1>2. step'[h] \in ResolveSteps => win'[h] \in Players(h.match)
  BY DEF Advance, Goto, Return, Resolve, TypeInv, TypeOK, HandlersOK, WinnerInv, ResolveSteps
<1>3. WinnerInv'
  BY <1>1, <1>2 DEF WinnerInv
<1>4. StartedInv'
  BY <1>1, HandlerType DEF StartedInv
<1> QED
  BY <1>3, <1>4

\* Such a step that leaves wallets and settlements alone.
LEMMA AdvancedQuietly ==
  ASSUME LedgerInv, NEW h \in Handler, Advance(h), UNCHANGED <<wallets, paid, refunded>>,
         status[h.match] # "none",
         \A m \in Match : status'[m] = "none" <=> status[m] = "none",
         \A m \in Match \ {h.match} : state'[m] = state[m]
  PROVE  Ledger'
<1>1. status'[h.match] # "none"
  BY HandlerType
<1>2. WinnerInv' /\ StartedInv'
  BY <1>1, Advanced DEF LedgerInv, Ledger
<1>3. EscrowIsExact' /\ MoneyIsConserved'
  BY LedgerQuiet DEF LedgerInv, Ledger
<1> QED
  BY <1>2, <1>3 DEF Ledger

\* A refund or a payout of the handler's match.
LEMMA AdvancedRefund ==
  ASSUME LedgerInv, TypeInv', NEW h \in Handler, Advance(h), step[h] # "idle",
         Refund(h.match), UNCHANGED <<status, state, paid>>
  PROVE  Ledger'
<1>1. h.match \in Match /\ status[h.match] # "none"
  BY HandlerType DEF LedgerInv, Ledger, StartedInv
<1>2. /\ refunded'[h.match] = refunded[h.match] + 1
      /\ \A m \in Match \ {h.match} : refunded'[m] = refunded[m]
  BY <1>1 DEF Refund, LedgerInv, TypeInv, TypeOK, HistoryOK
<1>3. WinnerInv' /\ StartedInv'
  BY <1>1, <1>2, Advanced DEF LedgerInv, Ledger
<1>4. EscrowIsExact'
  <2>1. \A u \in User : wallets'[u].locked =
          IF u \in Players(h.match) THEN wallets[u].locked - entryFee[h.match]
                                    ELSE wallets[u].locked
    BY <1>1, RefundEffect DEF LedgerInv
  <2>2. paid'[h.match] + refunded'[h.match] = paid[h.match] + refunded[h.match] + 1
    BY <1>1, <1>2, Counts DEF LedgerInv
  <2> QED
    BY <1>1, <1>2, <2>1, <2>2, EscrowSettled DEF LedgerInv, Ledger
<1>5. MoneyIsConserved'
  BY <1>1, MoneyRefunded DEF LedgerInv, Ledger
<1> QED
  BY <1>3, <1>4, <1>5 DEF Ledger

\* The same with the payout of the handler's own match.
LEMMA AdvancedRelease ==
  ASSUME LedgerInv, TypeInv', NEW h \in Handler, Advance(h), step[h] = "payout",
         Release(h), UNCHANGED <<status, state, refunded>>
  PROVE  Ledger'
<1>1. /\ h.match \in Match /\ status[h.match] # "none" /\ win[h] \in Players(h.match)
  BY HandlerType DEF LedgerInv, Ledger, StartedInv, WinnerInv, ResolveSteps
<1>2. /\ paid'[h.match] = paid[h.match] + 1
      /\ \A m \in Match \ {h.match} : paid'[m] = paid[m]
  BY <1>1 DEF Release, LedgerInv, TypeInv, TypeOK, HistoryOK
<1>3. WinnerInv' /\ StartedInv'
  BY <1>1, <1>2, Advanced DEF LedgerInv, Ledger
<1>4. EscrowIsExact'
  <2>1. \A u \in User : wallets'[u].locked =
          IF u \in Players(h.match) THEN wallets[u].locked - entryFee[h.match]
                                    ELSE wallets[u].locked
    BY <1>1, ReleaseEffect DEF LedgerInv
  <2>2. paid'[h.match] + refunded'[h.match] = paid[h.match] + refunded[h.match] + 1
    BY <1>1, <1>2, Counts DEF LedgerInv
  <2> QED
    BY <1>1, <1>2, <2>1, <2>2, EscrowSettled DEF LedgerInv, Ledger
<1>5. MoneyIsConserved'
  BY <1>1, MoneyPaid DEF LedgerInv, Ledger
<1> QED
  BY <1>3, <1>4, <1>5 DEF Ledger

\* Handlers that stand still, or all stop.
LEMMA LedgerStays ==
  ASSUME LedgerInv, UNCHANGED <<wallets, status, state, paid, refunded>>,
         \A h \in Handler : step'[h] = "idle" \/ (step'[h] = step[h] /\ win'[h] = win[h])
  PROVE  Ledger'
<1>1. WinnerInv' /\ StartedInv'
  BY DEF LedgerInv, Ledger, WinnerInv, StartedInv, ResolveSteps
<1>2. EscrowIsExact' /\ MoneyIsConserved'
  BY LedgerQuiet DEF LedgerInv, Ledger
<1> QED
  BY <1>1, <1>2 DEF Ledger

\* No match holds anything at first.
LEMMA InitLedger == Init => LedgerInv
<1> SUFFICES ASSUME Init PROVE LedgerInv
  OBVIOUS
<1>1. TypeInv
  BY InitType
<1>2. WinnerInv /\ StartedInv
  BY DEF Init, WinnerInv, StartedInv, ResolveSteps
<1>3. EscrowIsExact
  <2>1. \A u \in User : MatchesOf(u) = {} /\ wallets[u].locked = 0
    BY Zenon DEF Init, MatchesOf
  <2> QED
    BY <2>1, SumEmpty, Zenon DEF EscrowIsExact
<1>4. MoneyIsConserved
  <2> DEFINE f == [u \in User |-> wallets[u].balance + wallets[u].locked]
             o == [u \in User |-> OpeningBalance]
             a == [m \in Match |-> paid[m] * PlatformFee(entryFee[m])]
  <2>1. OpeningBalance \in Int
    BY BoundAssumption, NumericAssumption DEF Column
  <2>2. \A u \in User : f[u] = o[u] /\ o[u] \in Int
    <3> SUFFICES ASSUME NEW u \in User PROVE f[u] = o[u] /\ o[u] \in Int
      BY Zenon
    <3>1. wallets[u] = [balance |-> OpeningBalance, locked |-> 0]
      BY DEF Init
    <3>2. f[u] = OpeningBalance + 0 /\ o[u] = OpeningBalance
      BY <3>1
    <3> HIDE DEF f, o
    <3> QED
      BY <2>1, <3>2
  <2>3. \A m \in Match : a[m] = 0
    BY PrizeType DEF Init
  <2>4. SumFunctionOnSet(f, User) + SumFunctionOnSet(a, Match) = SumFunctionOnSet(o, User)
    <3> HIDE DEF f, o, a
    <3>1. SumFunctionOnSet(f, User) = SumFunctionOnSet(o, User)
      BY <2>2, FiniteAssumption, SumSame
    <3>2. SumFunctionOnSet(a, Match) = 0
      BY <2>3, FiniteAssumption, SumZero
    <3>3. SumFunctionOnSet(o, User) \in Int
      BY <2>2, FiniteAssumption, SumInt
    <3> QED
      BY <3>1, <3>2, <3>3
  <2> QED
    BY <2>4 DEF MoneyIsConserved
<1> QED
  BY <1>1, <1>2, <1>3, <1>4 DEF LedgerInv, Ledger

\* One case per action.
LEMMA StepLedger == LedgerInv /\ [Next]_vars => LedgerInv'
<1> SUFFICES ASSUME LedgerInv, [Next]_vars PROVE Ledger'
  BY StepType DEF LedgerInv
<1> USE DEF database, redis, history, timers, failures, proc
<1>1. TypeInv /\ TypeInv'
  BY StepType DEF LedgerInv
<1>2. ASSUME NEW h \in Handler, step[h] # "idle" PROVE status[h.match] # "none"
  BY <1>2 DEF LedgerInv, Ledger, StartedInv
<1>3. ASSUME NEW h \in Handler, state[h.match] = "IN_PROGRESS" PROVE status[h.match] # "none"
  BY <1>3, HandlerType DEF LedgerInv, Ledger, StartedInv
<1>4. ASSUME NEW h \in Handler, CreateMatch(h) PROVE Ledger'
  <2>1. /\ h.match \in Match /\ status'[h.match] # "none"
        /\ \A m \in Match \ {h.match} : status'[m] = status[m]
    BY <1>1, <1>4, HandlerType DEF CreateMatch, TypeInv, TypeOK, DatabaseOK
  <2>2. Advance(h)
    BY <1>4, AdvanceGoto DEF CreateMatch, Steps, ResolveSteps
  <2>3. WinnerInv' /\ StartedInv'
    BY <1>1, <1>4, <2>1, <2>2, Advanced DEF CreateMatch, LedgerInv, Ledger
  <2>4. EscrowIsExact'
    BY <1>1, <1>4, EscrowCreated DEF LedgerInv, Ledger
  <2>5. MoneyIsConserved'
    BY <1>1, <1>4, <2>1, MoneyLocked DEF CreateMatch, LedgerInv, Ledger
  <2> QED
    BY <2>3, <2>4, <2>5 DEF Ledger
<1>5. ASSUME NEW h \in Handler, PublishState(h) PROVE Ledger'
  <2>1. Advance(h) /\ step[h] # "idle"
    BY <1>5, AdvanceGoto DEF PublishState, At, Steps, ResolveSteps
  <2> QED
    BY <1>1, <1>2, <1>5, <2>1, AdvancedQuietly DEF PublishState, TypeInv, TypeOK, RedisOK
<1>6. ASSUME NEW h \in Handler, ResolveState(h) PROVE Ledger'
  <2>1. Advance(h) /\ step[h] # "idle"
    BY <1>6, AdvanceGoto DEF ResolveState, At, Steps, ResolveSteps
  <2> QED
    BY <1>1, <1>2, <1>6, <2>1, AdvancedQuietly DEF ResolveState, TypeInv, TypeOK, RedisOK
<1>7. ASSUME NEW h \in Handler,
             ArmTimer(h) \/ SubmitLock(h) \/ SubmitTime(h) \/ SubmitJudged(h)
               \/ SubmitJudgeError(h) \/ ResolveGet(h) \/ ResolveSet(h) \/ StatementFails(h)
      PROVE  Ledger'
  <2>1. step[h] # "idle"
    BY <1>7 DEF ArmTimer, SubmitLock, SubmitTime, SubmitJudged, SubmitJudgeError, ResolveGet,
                ResolveSet, StatementFails, At
  <2>2. Advance(h)
    <3>1. CASE ArmTimer(h)
      BY <3>1, AdvanceReturn DEF ArmTimer
    <3>2. CASE SubmitLock(h)
      BY <3>2, AdvanceGoto, AdvanceReturn DEF SubmitLock, Steps, ResolveSteps
    <3>3. CASE SubmitTime(h)
      BY <3>3, AdvanceGoto DEF SubmitTime, Steps, ResolveSteps
    <3>4. CASE SubmitJudged(h)
      BY <3>4, AdvanceGoto DEF SubmitJudged, Steps, ResolveSteps
    <3>5. CASE SubmitJudgeError(h)
      BY <3>5, AdvanceGoto DEF SubmitJudgeError, Steps, ResolveSteps
    <3>6. CASE ResolveGet(h)
      BY <3>6, AdvanceGoto, AdvanceReturn DEF ResolveGet, At, Steps, ResolveSteps
    <3>7. CASE ResolveSet(h)
      BY <3>7, AdvanceGoto DEF ResolveSet, At, Steps, ResolveSteps
    <3>8. CASE StatementFails(h)
      BY <3>8, AdvanceGoto, AdvanceReturn DEF StatementFails, Throw, Steps, ResolveSteps
    <3> QED
      BY <1>7, <3>1, <3>2, <3>3, <3>4, <3>5, <3>6, <3>7, <3>8
  <2>3. UNCHANGED <<wallets, status, state, paid, refunded>>
    BY <1>7 DEF ArmTimer, SubmitLock, SubmitTime, SubmitJudged, SubmitJudgeError, ResolveGet,
                ResolveSet, StatementFails
  <2> QED
    BY <1>2, <2>1, <2>2, <2>3, AdvancedQuietly
<1>8. ASSUME NEW h \in Handler, SubmitStart(h) \/ forfeit_request(h) \/ handleDisconnectForfeit(h)
      PROVE  Ledger'
  <2>1. state[h.match] = "IN_PROGRESS" /\ UNCHANGED <<wallets, status, state, paid, refunded>>
    BY <1>8, Zenon DEF SubmitStart, forfeit_request, handleDisconnectForfeit
  <2>2. Advance(h)
    <3>1. CASE SubmitStart(h)
      BY <3>1, AdvanceGoto DEF SubmitStart, Steps, ResolveSteps
    <3>2. CASE forfeit_request(h) \/ handleDisconnectForfeit(h)
      BY <3>2, AdvanceResolve, HandlerType, PlayersAreUsers
         DEF forfeit_request, handleDisconnectForfeit
    <3> QED
      BY <1>8, <3>1, <3>2
  <2> QED
    BY <1>3, <2>1, <2>2, AdvancedQuietly
<1>9. ASSUME NEW h \in Handler, SubmitCompare(h) \/ ExpiryRead(h) PROVE Ledger'
  <2>1. step[h] # "idle" /\ UNCHANGED <<wallets, status, state, paid, refunded>>
    BY <1>9 DEF SubmitCompare, ExpiryRead, At
  <2>2. Advance(h) \/ UNCHANGED <<step, win>>
    BY <1>9, HandlerType DEF SubmitCompare, ExpiryRead, determineWinner, timeUpWinner, Players,
                             Advance
  <2> QED
    BY <1>2, <2>1, <2>2, AdvancedQuietly, LedgerStays
<1>10. ASSUME NEW h \in Handler, handleTimerExpiry(h) PROVE Ledger'
  <2>1. UNCHANGED <<wallets, status, state, paid, refunded>>
    BY <1>10 DEF handleTimerExpiry
  <2>2. (state[h.match] = "IN_PROGRESS" /\ Advance(h)) \/ UNCHANGED <<step, win>>
    BY <1>10, AdvanceGoto DEF handleTimerExpiry, Steps, ResolveSteps
  <2> QED
    BY <1>3, <2>1, <2>2, AdvancedQuietly, LedgerStays
<1>11. ASSUME NEW h \in Handler, ResolveRow(h) \/ JudgeErrorCancel(h) PROVE Ledger'
  <2>1. step[h] # "idle" /\ UNCHANGED <<wallets, state, paid, refunded>>
    BY <1>11 DEF ResolveRow, JudgeErrorCancel, At
  <2>2. Advance(h)
    BY <1>11, AdvanceGoto, AdvanceReturn DEF ResolveRow, JudgeErrorCancel, At, Steps, ResolveSteps
  <2>3. status'[h.match] # "none" /\ \A m \in Match \ {h.match} : status'[m] = status[m]
    BY <1>1, <1>11, HandlerType DEF ResolveRow, JudgeErrorCancel, TypeInv, TypeOK, DatabaseOK
  <2> QED
    BY <1>2, <2>1, <2>2, <2>3, AdvancedQuietly
<1>12. ASSUME NEW h \in Handler, ResolveStats(h) PROVE Ledger'
  <2>1. step[h] # "idle" /\ Advance(h)
    BY <1>12 DEF ResolveStats, At, Advance
  <2> QED
    BY <1>2, <1>12, <2>1, AdvancedQuietly, Zenon DEF ResolveStats
<1>13. ASSUME NEW h \in Handler, JudgeErrorRefund(h) \/ ResolveRefund(h) PROVE Ledger'
  <2>1. /\ step[h] # "idle" /\ UNCHANGED <<status, state, paid>>
        /\ Refund(h.match) \/ UNCHANGED <<wallets, refunded>>
    BY <1>13 DEF JudgeErrorRefund, ResolveRefund, RefundRefused, At
  <2>2. Advance(h)
    BY <1>13, AdvanceGoto, AdvanceReturn DEF JudgeErrorRefund, ResolveRefund, Steps, ResolveSteps
  <2> QED
    BY <1>1, <1>2, <2>1, <2>2, AdvancedRefund, AdvancedQuietly
<1>14. ASSUME NEW h \in Handler, ResolvePayout(h) PROVE Ledger'
  <2>1. /\ step[h] = "payout" /\ UNCHANGED <<status, state, refunded>>
        /\ Release(h) \/ UNCHANGED <<wallets, paid>>
    BY <1>14 DEF ResolvePayout, At
  <2>2. Advance(h)
    BY <1>14, AdvanceGoto DEF ResolvePayout, At, Steps, ResolveSteps
  <2> QED
    BY <1>1, <1>2, <2>1, <2>2, AdvancedRelease, AdvancedQuietly
<1>15. ASSUME NEW h \in Handler, CommitUnanswered(h) PROVE Ledger'
  <2>1. /\ step[h] # "idle" /\ UNCHANGED <<status, state>>
        /\ \/ step[h] = "payout" /\ Release(h) /\ UNCHANGED refunded
           \/ Refund(h.match) /\ UNCHANGED paid
    BY <1>15 DEF CommitUnanswered, At
  <2>2. Advance(h)
    BY <1>15, AdvanceGoto, AdvanceReturn DEF CommitUnanswered, At, Throw, Steps, ResolveSteps
  <2> QED
    BY <1>1, <2>1, <2>2, AdvancedRelease, AdvancedRefund
<1>16. ASSUME NEW m \in Match, Tick(m) PROVE Ledger'
  BY <1>16, LedgerStays DEF Tick
<1>17. CASE Crash
  BY <1>17, LedgerStays DEF Crash
<1>18. CASE UNCHANGED vars
  BY <1>18, LedgerStays DEF vars
<1> QED
  BY <1>4, <1>5, <1>6, <1>7, <1>8, <1>9, <1>10, <1>11, <1>12, <1>13, <1>14, <1>15, <1>16,
     <1>17, <1>18
     DEF Next, HandlerStep, ServerStep

-----------------------------------------------------------------------------
(* Theorems.                                                               *)

\* The inductive invariant of the ledger, whatever players matches share.
THEOREM LedgerInvariance == Spec => []LedgerInv
<1> QED
  BY InitLedger, StepLedger, PTL DEF Spec

\* The locked balance of a wallet is what its matches hold, for any matches,
\* even ones that share players, and any interleaving, failure and restart.
THEOREM EscrowExact == Spec => []EscrowIsExact
<1>1. LedgerInv => EscrowIsExact
  BY DEF LedgerInv, Ledger
<1> QED
  BY <1>1, LedgerInvariance, PTL

\* lockFundsForMatch, refundBothPlayers and releaseEscrowToWinner neither make
\* nor lose money, however often they run and whatever fails between them.
THEOREM MoneyConserved == Spec => []MoneyIsConserved
<1>1. LedgerInv => MoneyIsConserved
  BY DEF LedgerInv, Ledger
<1> QED
  BY <1>1, LedgerInvariance, PTL

=============================================================================
