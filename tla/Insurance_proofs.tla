--------------------------- MODULE Insurance_proofs ---------------------------
(***************************************************************************)
(* TLAPS proofs about the ink! insurance contract: what a pool promises    *)
(* its providers, for any number of them, any vesting terms and any        *)
(* precision of the rewards; and that the pool counts its policies, for    *)
(* any number of them and of claims, batches of any length included.       *)
(***************************************************************************)
EXTENDS Insurance, ProviderPool, Operators_proofs

-----------------------------------------------------------------------------
(* The providers of a pool.                                                *)

Terms == [cliff : Nat, duration : Nat, penalty : Nat]
FairTerms == {t \in Terms : t.penalty <= 10000}
Provider == [stake : Nat, debt : Nat, vesting : Nat, claimed : Nat, start : Nat]
Reserve == [total : Nat, available : Nat, stake : Nat, acc : Nat, terms : FairTerms]
Books == [kept : Int, accrued : Nat, rewarded : Nat, synced : Nat]

\* What is due to a record for the accumulator acc, in units of the precision.
Due(p, acc) == p.stake * acc - p.debt * Precision

ProvidersTyped ==
  /\ reserve \in Reserve /\ books \in Books /\ bank \in Int /\ now \in Nat
  /\ DOMAIN provider \in SUBSET Providers /\ provider \in [DOMAIN provider -> Provider]

\* Nobody has been credited more than the accumulator says.
DebtsCovered == \A u \in Providers : Due(Record(u), reserve.acc) >= 0

\* What was handed out and what is due, against what was accrued: each debt
\* brought in line with another stake is rounded by less than a unit.
DuesFit ==
  books.rewarded * Precision
    + SumFunctionOnSet([u \in Providers |-> Due(Record(u), reserve.acc)], Providers)
    <= (books.accrued + books.synced) * Precision

ProviderInv == ProvidersTyped /\ StakeIsCapital /\ MoneyIsExplained /\ DebtsCovered /\ DuesFit


(* The assumptions, one by one.                                              *)
LEMMA ProviderConstants ==
  /\ Precision \in Nat /\ Precision > 0 /\ IsFiniteSet(Providers) /\ MaxTime \in Nat
  /\ Deposits \subseteq Nat /\ Withdrawals \subseteq Nat /\ Payouts \subseteq Nat
  /\ \A n \in Premiums : n \in Nat /\ n > 0
  /\ VestingTerms \subseteq Terms
  BY ProviderAssumption, LedgerAssumption DEF Terms

(* A record is one, also where there is none.                                *)
LEMMA RecordTyped == ASSUME ProvidersTyped, NEW u PROVE Record(u) \in Provider
  BY DEF ProvidersTyped, Record, NewProvider, Provider

(* A debt in line with its stake is the product, rounded down.               *)
LEMMA SyncedDebtIs ==
  ASSUME NEW stake \in Nat, NEW acc \in Nat
  PROVE  /\ SyncedDebt(stake, acc) \in Nat /\ stake * acc \in Nat
         /\ SyncedDebt(stake, acc) * Precision <= stake * acc
         /\ stake * acc < SyncedDebt(stake, acc) * Precision + Precision
<1>1. stake * acc \in Nat
  OBVIOUS
<1> QED
  BY <1>1, RoundsDown, ProviderConstants DEF SyncedDebt

(* What a record pends is what is due to it, rounded down: it is all that a  *)
(* debt in line with the same stake takes.                                   *)
LEMMA PendingIs ==
  ASSUME ProvidersTyped, NEW p \in Provider, Due(p, reserve.acc) >= 0
  PROVE  /\ PendingReward(p) \in Nat
         /\ PendingReward(p) * Precision
              = SyncedDebt(p.stake, reserve.acc) * Precision - p.debt * Precision
         /\ PendingReward(p) * Precision <= Due(p, reserve.acc)
         /\ Due(p, reserve.acc) < PendingReward(p) * Precision + Precision
<1>1. p.stake \in Nat /\ p.debt \in Nat /\ reserve.acc \in Nat /\ Precision \in Nat /\ Precision > 0
  BY ProviderConstants DEF ProvidersTyped, Provider, Reserve
<1> PICK n : n = p.stake * reserve.acc
  OBVIOUS
<1> PICK d : d = SyncedDebt(p.stake, reserve.acc)
  OBVIOUS
<1> PICK b : b = p.debt
  OBVIOUS
<1>2. d \in Nat /\ n \in Nat /\ b \in Nat /\ d * Precision <= n /\ n < d * Precision + Precision
  BY <1>1, SyncedDebtIs
<1>3. n - b * Precision >= 0
  BY DEF Due
\* d < b would leave the debt more than the product.
<1>4. b <= d
  <2>1. SUFFICES ASSUME d + 1 <= b PROVE FALSE
    BY <1>2
  <2>2. (d + 1) * Precision <= b * Precision
    BY <1>1, <1>2, <2>1
  <2>3. (d + 1) * Precision = d * Precision + Precision
    BY <1>1, <1>2
  <2> QED
    BY <1>1, <1>2, <1>3, <2>2, <2>3
<1>5. PendingReward(p) = d - b
  BY <1>2, <1>4 DEF PendingReward, Monus
<1>6. (d - b) * Precision = d * Precision - b * Precision
  BY <1>1, <1>2
<1>7. Due(p, reserve.acc) = n - b * Precision
  BY DEF Due
<1>8. d * Precision \in Int /\ b * Precision \in Int
  BY <1>1, <1>2
<1> QED
  BY <1>1, <1>2, <1>4, <1>5, <1>6, <1>7, <1>8

(* The sums the invariant is about.                                          *)
StakeSum == SumFunctionOnSet([u \in Providers |-> Record(u).stake], Providers)
DueSum == SumFunctionOnSet([u \in Providers |-> Due(Record(u), reserve.acc)], Providers)

(* A call that replaces the record of one account by q.                      *)
LEMMA OneProvider ==
  ASSUME ProviderInv, NEW u \in Providers, NEW q \in Provider,
         ProvidersTyped', reserve'.acc = reserve.acc,
         Record(u)' = q, \A v \in Providers : v # u => Record(v)' = Record(v),
         Due(q, reserve.acc) >= 0
  PROVE  /\ StakeSum \in Nat /\ StakeSum' = StakeSum - Record(u).stake + q.stake /\ StakeSum' \in Nat
         /\ DueSum \in Int /\ DueSum' = DueSum - Due(Record(u), reserve.acc) + Due(q, reserve.acc)
         /\ DebtsCovered'
<1>1. reserve.acc \in Nat /\ Precision \in Nat
  BY ProviderConstants DEF ProviderInv, ProvidersTyped, Reserve
<1>2. ASSUME NEW p \in Provider PROVE p.stake \in Nat /\ p.stake \in Int /\ Due(p, reserve.acc) \in Int
  BY <1>1 DEF Provider, Due
<1>3. \A v \in Providers : Record(v) \in Provider /\ Record(v)' \in Provider
  BY RecordTyped DEF ProviderInv
<1> PICK f : f = [v \in Providers |-> Record(v).stake]
  OBVIOUS
<1> PICK g : g = [v \in Providers |-> Record(v)'.stake]
  OBVIOUS
<1> PICK h : h = [v \in Providers |-> Due(Record(v), reserve.acc)]
  OBVIOUS
<1> PICK k : k = [v \in Providers |-> Due(Record(v)', reserve'.acc)]
  OBVIOUS
<1>4. /\ StakeSum = SumFunctionOnSet(f, Providers) /\ StakeSum' = SumFunctionOnSet(g, Providers)
      /\ DueSum = SumFunctionOnSet(h, Providers) /\ DueSum' = SumFunctionOnSet(k, Providers)
  BY DEF StakeSum, DueSum, Due
<1>5. /\ \A v \in Providers : f[v] \in Nat /\ g[v] \in Nat /\ f[v] \in Int /\ g[v] \in Int
      /\ \A v \in Providers : v # u => g[v] = f[v]
      /\ f[u] = Record(u).stake /\ g[u] = q.stake
  BY <1>2, <1>3
<1>6. /\ \A v \in Providers : h[v] \in Int /\ k[v] \in Int
      /\ \A v \in Providers : v # u => k[v] = h[v]
      /\ h[u] = Due(Record(u), reserve.acc) /\ k[u] = Due(q, reserve.acc)
  BY <1>2, <1>3
<1>7. /\ SumFunctionOnSet(f, Providers) \in Nat /\ SumFunctionOnSet(g, Providers) \in Nat
      /\ SumFunctionOnSet(g, Providers) = SumFunctionOnSet(f, Providers) - f[u] + g[u]
  BY <1>5, ProviderConstants, SumUpdate, SumNonNegative
<1>8. /\ SumFunctionOnSet(h, Providers) \in Int
      /\ SumFunctionOnSet(k, Providers) = SumFunctionOnSet(h, Providers) - h[u] + k[u]
  BY <1>6, ProviderConstants, SumUpdate
<1>9. DebtsCovered'
  BY DEF DebtsCovered, ProviderInv, Due
<1> QED
  BY <1>4, <1>5, <1>6, <1>7, <1>8, <1>9


\* Records that change in several fields.
Capital(r, a, b, c) == [r EXCEPT !.stake = a, !.total = b, !.available = c]
Booked(b, k, r, n) == [b EXCEPT !.kept = k, !.rewarded = r, !.synced = n]
Staked(p, s, d) == [p EXCEPT !.stake = s, !.debt = d]
Left(p, s, v, d) == [p EXCEPT !.stake = s, !.vesting = v, !.debt = d]

LEMMA CapitalIs ==
  ASSUME NEW r \in Reserve, NEW a \in Nat, NEW b \in Nat, NEW c \in Nat
  PROVE  /\ Capital(r, a, b, c) \in Reserve /\ Capital(r, a, b, c).stake = a
         /\ Capital(r, a, b, c).total = b /\ Capital(r, a, b, c).available = c
         /\ Capital(r, a, b, c).acc = r.acc /\ Capital(r, a, b, c).terms = r.terms
<1>1. PICK m : m = [r EXCEPT !.stake = a]
  OBVIOUS
<1>2. m \in Reserve /\ m.stake = a /\ m.acc = r.acc /\ m.terms = r.terms
  BY <1>1 DEF Reserve
<1>3. PICK k : k = [m EXCEPT !.total = b]
  OBVIOUS
<1>4. k \in Reserve /\ k.stake = a /\ k.total = b /\ k.acc = r.acc /\ k.terms = r.terms
  BY <1>2, <1>3 DEF Reserve
<1>5. Capital(r, a, b, c) = [k EXCEPT !.available = c]
  BY <1>1, <1>3 DEF Capital
<1> QED
  BY <1>4, <1>5 DEF Reserve

LEMMA BookedIs ==
  ASSUME NEW b \in Books, NEW k \in Int, NEW r \in Nat, NEW n \in Nat
  PROVE  /\ Booked(b, k, r, n) \in Books /\ Booked(b, k, r, n).kept = k
         /\ Booked(b, k, r, n).rewarded = r /\ Booked(b, k, r, n).synced = n
         /\ Booked(b, k, r, n).accrued = b.accrued
<1>1. PICK m : m = [b EXCEPT !.kept = k]
  OBVIOUS
<1>2. m \in Books /\ m.kept = k /\ m.accrued = b.accrued
  BY <1>1 DEF Books
<1>3. PICK l : l = [m EXCEPT !.rewarded = r]
  OBVIOUS
<1>4. l \in Books /\ l.kept = k /\ l.rewarded = r /\ l.accrued = b.accrued
  BY <1>2, <1>3 DEF Books
<1>5. Booked(b, k, r, n) = [l EXCEPT !.synced = n]
  BY <1>1, <1>3 DEF Booked
<1> QED
  BY <1>4, <1>5 DEF Books

LEMMA LeftIs ==
  ASSUME NEW p \in Provider, NEW s \in Nat, NEW v \in Nat, NEW d \in Nat
  PROVE  /\ Left(p, s, v, d) \in Provider /\ Left(p, s, v, d).stake = s
         /\ Left(p, s, v, d).vesting = v /\ Left(p, s, v, d).debt = d
<1>1. PICK m : m = [p EXCEPT !.stake = s]
  OBVIOUS
<1>2. m \in Provider /\ m.stake = s
  BY <1>1 DEF Provider
<1>3. PICK l : l = [m EXCEPT !.vesting = v]
  OBVIOUS
<1>4. l \in Provider /\ l.stake = s /\ l.vesting = v
  BY <1>2, <1>3 DEF Provider
<1>5. Left(p, s, v, d) = [l EXCEPT !.debt = d]
  BY <1>1, <1>3 DEF Left
<1> QED
  BY <1>4, <1>5 DEF Provider

LEMMA StakedIs ==
  ASSUME NEW p \in Provider, NEW s \in Nat, NEW d \in Nat
  PROVE  /\ Staked(p, s, d) \in Provider /\ Staked(p, s, d).stake = s /\ Staked(p, s, d).debt = d
<1>1. PICK m : m = [p EXCEPT !.stake = s]
  OBVIOUS
<1>2. m \in Provider /\ m.stake = s
  BY <1>1 DEF Provider
<1>3. Staked(p, s, d) = [m EXCEPT !.debt = d]
  BY <1>1 DEF Staked
<1> QED
  BY <1>2, <1>3 DEF Provider

\* A product over a sum.
LEMMA Spreads ==
  ASSUME NEW a \in Int, NEW b \in Int, NEW k \in Int
  PROVE  (a + b) * k = a * k + b * k /\ a * k \in Int /\ b * k \in Int
  OBVIOUS

\* The dues still fit: what the call hands out and what stays due are within what
\* was due, and a unit for each debt that was brought in line.
LEMMA DuesStillFit ==
  ASSUME ProviderInv, NEW u \in Providers, NEW q \in Provider, NEW r \in Nat, NEW s \in Nat,
         ProvidersTyped', DueSum' = DueSum - Due(Record(u), reserve.acc) + Due(q, reserve.acc),
         DueSum \in Int,
         books'.rewarded = books.rewarded + r, books'.synced = books.synced + s,
         books'.accrued = books.accrued,
         r * Precision + Due(q, reserve.acc) <= Due(Record(u), reserve.acc) + s * Precision
  PROVE  DuesFit'
<1>1. /\ books.rewarded \in Nat /\ books.synced \in Nat /\ books.accrued \in Nat /\ reserve.acc \in Nat
      /\ Precision \in Nat /\ Record(u) \in Provider
  BY ProviderConstants, RecordTyped DEF ProviderInv, ProvidersTyped, Books, Reserve
<1> PICK d : d = Due(Record(u), reserve.acc)
  OBVIOUS
<1> PICK e : e = Due(q, reserve.acc)
  OBVIOUS
<1>2. d \in Int /\ e \in Int
  BY <1>1 DEF Due, Provider
<1>3. /\ (books.rewarded + r) * Precision = books.rewarded * Precision + r * Precision
      /\ (books.accrued + (books.synced + s)) * Precision
           = (books.accrued + books.synced) * Precision + s * Precision
      /\ books.rewarded * Precision \in Int /\ r * Precision \in Int /\ s * Precision \in Int
      /\ (books.accrued + books.synced) * Precision \in Int
  BY <1>1
<1>4. books.rewarded * Precision + DueSum <= (books.accrued + books.synced) * Precision
  BY DEF ProviderInv, DuesFit, DueSum
<1>5. books.rewarded * Precision + r * Precision + (DueSum - d + e)
        <= (books.accrued + books.synced) * Precision + s * Precision
  BY <1>2, <1>3, <1>4
<1>6. /\ books'.rewarded * Precision + DueSum' = books.rewarded * Precision + r * Precision + (DueSum - d + e)
      /\ (books'.accrued + books'.synced) * Precision
           = (books.accrued + books.synced) * Precision + s * Precision
  BY <1>3
<1> QED
  BY <1>5, <1>6 DEF DuesFit, DueSum

\* The records after With.
LEMMA WithIs ==
  ASSUME ProvidersTyped, NEW u \in Providers, NEW q \in Provider, provider' = With(u, q)
  PROVE  /\ DOMAIN provider' \in SUBSET Providers /\ provider' \in [DOMAIN provider' -> Provider]
         /\ Record(u)' = q /\ \A v \in Providers : v # u => Record(v)' = Record(v)
<1>1. /\ DOMAIN provider' = DOMAIN provider \union {u} /\ provider'[u] = q
      /\ \A v \in DOMAIN provider : v # u => provider'[v] = provider[v]
      /\ provider' = [a \in DOMAIN provider' |-> provider'[a]]
  BY DEF With
<1> QED
  BY <1>1 DEF ProvidersTyped, Record

\* A call that credits nothing to anybody: the dues are what they were.
LEMMA DuesKept ==
  ASSUME ProviderInv, UNCHANGED provider, reserve'.acc = reserve.acc, reserve'.stake = reserve.stake,
         reserve'.total = reserve.total, books'.rewarded = books.rewarded,
         books'.synced = books.synced, books'.accrued = books.accrued
  PROVE  StakeIsCapital' /\ DebtsCovered' /\ DuesFit'
<1>1. \A u \in Providers : Record(u)' = Record(u)
  BY DEF Record
<1>2. StakeIsCapital'
  BY <1>1 DEF ProviderInv, StakeIsCapital
<1>3. DebtsCovered'
  BY <1>1 DEF ProviderInv, DebtsCovered, Due
<1>4. DuesFit'
  BY <1>1 DEF ProviderInv, DuesFit, Due
<1> QED
  BY <1>2, <1>3, <1>4

LEMMA DepositLiquidityInv ==
  ASSUME ProviderInv, NEW u \in Providers, NEW n \in Nat, DepositLiquidity(u, n), UNCHANGED now
  PROVE  ProviderInv'
<1> PICK p : p = Record(u)
  OBVIOUS
<1> PICK acc : acc = reserve.acc
  OBVIOUS
<1> PICK d : d = SyncedDebt(n, acc)
  OBVIOUS
<1>1. p \in Provider /\ acc \in Nat /\ Precision \in Nat /\ reserve \in Reserve /\ books \in Books /\ bank \in Int
  BY RecordTyped, ProviderConstants DEF ProviderInv, ProvidersTyped, Reserve
<1>2. d \in Nat /\ n * acc \in Nat /\ d * Precision <= n * acc /\ n * acc < d * Precision + Precision
  BY <1>1, SyncedDebtIs
<1>3. PICK q \in Provider : provider' = With(u, q) /\ q.stake = p.stake + n /\ q.debt = p.debt + d
  <2>1. PICK s \in Nat, e \in Nat : s = p.stake + n /\ e = p.debt + d
    BY <1>1, <1>2 DEF Provider
  <2>2. p \in Provider
    BY <1>1
  <2>3. Staked(p, s, e) \in Provider /\ Staked(p, s, e).stake = s /\ Staked(p, s, e).debt = e
    BY ONLY <2>2, StakedIs
  <2>4. provider' = With(u, Staked(p, s, e))
    BY <2>1 DEF DepositLiquidity, Staked
  <2> QED
    BY <2>1, <2>3, <2>4
<1>4. reserve' \in Reserve /\ reserve'.acc = acc /\ reserve'.stake = reserve.stake + n
  /\ reserve'.total = reserve.total + n /\ reserve'.available = reserve.available + n
  <2>1. PICK a \in Nat, b \in Nat, c \in Nat :
          a = reserve.stake + n /\ b = reserve.total + n /\ c = reserve.available + n
    BY <1>1 DEF Reserve
  <2>2. reserve \in Reserve
    BY <1>1
  <2>3. /\ Capital(reserve, a, b, c) \in Reserve /\ Capital(reserve, a, b, c).stake = a
        /\ Capital(reserve, a, b, c).total = b /\ Capital(reserve, a, b, c).available = c
        /\ Capital(reserve, a, b, c).acc = reserve.acc
    BY <2>2, CapitalIs
  <2>4. reserve' = Capital(reserve, a, b, c)
    BY <2>1 DEF DepositLiquidity, Capital
  <2> QED
    BY <2>1, <2>3, <2>4
<1>6. /\ books' \in Books /\ books'.synced = books.synced + 1 /\ books'.rewarded = books.rewarded
      /\ books'.accrued = books.accrued /\ books'.kept = books.kept
  BY <1>1 DEF DepositLiquidity, Books
<1>7. /\ ProvidersTyped' /\ Record(u)' = q /\ \A v \in Providers : v # u => Record(v)' = Record(v)
  BY <1>1, <1>3, <1>4, <1>6, WithIs DEF ProviderInv, ProvidersTyped, DepositLiquidity
\* The stake that comes earns from here on; what its debt is rounded by is due to it.
<1>8. Due(q, acc) = Due(p, acc) + (n * acc - d * Precision) /\ Due(p, acc) \in Int
  <2>1. p.stake \in Nat /\ p.debt \in Nat
    BY <1>1 DEF Provider
  <2>2. /\ (p.stake + n) * acc = p.stake * acc + n * acc
        /\ (p.debt + d) * Precision = p.debt * Precision + d * Precision
        /\ p.stake * acc \in Int /\ p.debt * Precision \in Int
    BY <1>1, <1>2, <2>1, Spreads
  <2> QED
    BY <1>1, <1>2, <1>3, <2>2 DEF Due
<1>9. Due(p, acc) >= 0 /\ Due(q, acc) >= 0 /\ Due(q, acc) <= Due(p, acc) + Precision
      /\ d * Precision \in Int
  BY <1>1, <1>2, <1>8 DEF ProviderInv, DebtsCovered
<1>10. /\ StakeSum \in Nat /\ StakeSum' = StakeSum - p.stake + q.stake /\ StakeSum' \in Nat
       /\ DueSum \in Int /\ DueSum' = DueSum - Due(p, acc) + Due(q, acc) /\ DebtsCovered'
  BY <1>3, <1>4, <1>7, <1>9, OneProvider
<1>11. DuesFit'
  <2>1. 0 * Precision + Due(q, reserve.acc) <= Due(Record(u), reserve.acc) + 1 * Precision
    BY <1>1, <1>8, <1>9
  <2>2. books'.rewarded = books.rewarded + 0
    BY <1>1, <1>6 DEF Books
  <2> QED
    BY <1>3, <1>6, <1>7, <1>10, <2>1, <2>2, DuesStillFit
<1>12. StakeIsCapital'
  <2>1. p.stake \in Nat
    BY <1>1 DEF Provider
  <2> QED
    BY <1>3, <1>4, <1>10, <2>1 DEF ProviderInv, StakeIsCapital, StakeSum
<1>13. MoneyIsExplained'
  BY <1>1, <1>4, <1>6 DEF ProviderInv, MoneyIsExplained, DepositLiquidity, Books, Reserve
<1> QED
  BY <1>7, <1>10, <1>11, <1>12, <1>13 DEF ProviderInv

LEMMA ConfigurePoolVestingInv ==
  ASSUME ProviderInv, NEW terms \in VestingTerms, ConfigurePoolVesting(terms), UNCHANGED now
  PROVE  ProviderInv'
<1>1. terms \in FairTerms
  BY ProviderConstants DEF ConfigurePoolVesting, FairTerms, Terms, NoTerms
<1>2. /\ reserve' \in Reserve /\ reserve'.acc = reserve.acc /\ reserve'.stake = reserve.stake
      /\ reserve'.total = reserve.total /\ reserve'.available = reserve.available
  BY <1>1 DEF ConfigurePoolVesting, ProviderInv, ProvidersTyped, Reserve
<1>3. StakeIsCapital' /\ DebtsCovered' /\ DuesFit'
  BY <1>2, DuesKept DEF ConfigurePoolVesting
<1> QED
  BY <1>2, <1>3 DEF ProviderInv, ProvidersTyped, MoneyIsExplained, ConfigurePoolVesting

LEMMA PayClaimInv ==
  ASSUME ProviderInv, NEW n \in Nat, PayClaim(n), UNCHANGED now
  PROVE  ProviderInv'
<1>1. reserve \in Reserve /\ books \in Books /\ bank \in Int
  BY DEF ProviderInv, ProvidersTyped
<1>2. /\ reserve' \in Reserve /\ reserve'.acc = reserve.acc /\ reserve'.stake = reserve.stake
      /\ reserve'.total = reserve.total /\ reserve'.available = reserve.available - n
  BY <1>1 DEF PayClaim, Reserve
<1>3. /\ books' \in Books /\ books'.synced = books.synced /\ books'.rewarded = books.rewarded
      /\ books'.accrued = books.accrued /\ books'.kept = books.kept + n
  BY <1>1 DEF PayClaim, Books
<1>4. StakeIsCapital' /\ DebtsCovered' /\ DuesFit'
  BY <1>2, <1>3, DuesKept DEF PayClaim
<1>5. MoneyIsExplained'
  BY <1>1, <1>2, <1>3 DEF ProviderInv, MoneyIsExplained, PayClaim, Books, Reserve
<1> QED
  BY <1>2, <1>3, <1>4, <1>5 DEF ProviderInv, ProvidersTyped, PayClaim


\* A stake is part of the pool's.
LEMMA StakeWithin ==
  ASSUME ProviderInv, NEW u \in Providers
  PROVE  Record(u).stake \in Nat /\ Record(u).stake <= reserve.stake /\ reserve.total = reserve.stake
<1>1. \A v \in Providers : Record(v).stake \in Nat
  BY RecordTyped DEF ProviderInv, Provider
<1>2. PICK f : f = [v \in Providers |-> Record(v).stake]
  OBVIOUS
<1>3. f \in [Providers -> Nat] /\ f[u] = Record(u).stake
  BY <1>1, <1>2
<1>4. f[u] <= SumFunctionOnSet(f, Providers)
  BY <1>3, ProviderConstants, SumBounds
<1>5. reserve.stake = SumFunctionOnSet(f, Providers) /\ reserve.total = reserve.stake
  BY <1>2 DEF ProviderInv, StakeIsCapital
<1> QED
  BY <1>1, <1>3, <1>4, <1>5

\* What has vested, and what a withdrawal takes of the rest.
LEMMA VestedIs ==
  ASSUME ProvidersTyped, NEW p \in Provider, reserve.terms.duration > 0
  PROVE  Vested(p) \in Nat
<1>1. p.vesting \in Nat /\ p.start \in Nat /\ now \in Nat /\ reserve.terms.duration \in Nat
  BY DEF ProvidersTyped, Provider, Reserve, FairTerms, Terms
<1>2. \A c \in Nat : (p.vesting * c) \div reserve.terms.duration \in Nat
  <2>1. \A c \in Nat : p.vesting * c \in Nat
    BY <1>1
  <2> QED
    BY <1>1, <2>1, RoundsDown
<1>3. Monus(now, p.start) \in Nat
  BY <1>1 DEF Monus
<1> QED
  BY <1>1, <1>2, <1>3 DEF Vested

LEMMA PenaltyIs ==
  ASSUME ProvidersTyped, NEW p \in Provider, reserve.terms.duration > 0
  PROVE  Penalty(p) \in Nat /\ Penalty(p) <= p.vesting
<1>1. /\ p.vesting \in Nat /\ reserve.terms.penalty \in Nat /\ reserve.terms.penalty <= 10000
  BY DEF ProvidersTyped, Provider, Reserve, FairTerms, Terms
<1>2. Vested(p) \in Nat
  BY VestedIs
<1>3. PICK x \in Nat : x = Monus(p.vesting, Vested(p)) /\ x <= p.vesting
  BY <1>1, <1>2 DEF Monus
<1>4. PICK n \in Nat : n = reserve.terms.penalty /\ n <= 10000
  BY <1>1
<1>5. (x * n) \div 10000 \in Nat /\ (x * n) \div 10000 <= x
  <2>1. x * n <= x * 10000 /\ x * n \in Nat
    BY <1>4
  <2> QED
    BY <2>1
<1>6. Penalty(p) = (x * n) \div 10000
  BY <1>3, <1>4 DEF Penalty
<1> QED
  BY <1>1, <1>3, <1>5, <1>6

\* Rewards that start to vest are no longer due.
LEMMA VestIs ==
  ASSUME ProvidersTyped, NEW p \in Provider, Due(p, reserve.acc) >= 0
  PROVE  /\ Vest(p) \in Provider /\ Vest(p).stake = p.stake
         /\ PendingReward(p) * Precision + Due(Vest(p), reserve.acc) = Due(p, reserve.acc)
         /\ Due(Vest(p), reserve.acc) >= 0
<1>1. /\ PendingReward(p) \in Nat /\ Precision \in Nat /\ reserve.acc \in Nat /\ now \in Nat
      /\ p.stake \in Nat /\ p.vesting \in Nat /\ p.debt \in Nat
      /\ PendingReward(p) * Precision = SyncedDebt(p.stake, reserve.acc) * Precision - p.debt * Precision
      /\ PendingReward(p) * Precision <= Due(p, reserve.acc)
  BY PendingIs, ProviderConstants DEF ProvidersTyped, Provider, Reserve
<1>2. SyncedDebt(p.stake, reserve.acc) \in Nat
  BY <1>1, SyncedDebtIs
<1>3. /\ p.debt * Precision \in Int /\ SyncedDebt(p.stake, reserve.acc) * Precision \in Int
      /\ p.stake * reserve.acc \in Int /\ PendingReward(p) * Precision \in Int
  BY <1>1, <1>2
<1>4. CASE PendingReward(p) = 0
  <2>1. Vest(p) = p /\ PendingReward(p) * Precision = 0 /\ Due(p, reserve.acc) \in Int
    BY <1>1, <1>3, <1>4 DEF Vest, Due
  <2> QED
    BY <2>1
<1>5. CASE PendingReward(p) # 0
  <2>1. PICK m : m = [p EXCEPT !.vesting = p.vesting + PendingReward(p)]
    OBVIOUS
  <2>2. m \in Provider /\ m.stake = p.stake
    BY <1>1, <2>1 DEF Provider
  <2>3. PICK l : l = [m EXCEPT !.start = now]
    OBVIOUS
  <2>4. l \in Provider /\ l.stake = p.stake
    BY <1>1, <2>2, <2>3 DEF Provider
  <2>5. Vest(p) = [l EXCEPT !.debt = SyncedDebt(p.stake, reserve.acc)]
    BY <1>5, <2>1, <2>3 DEF Vest
  <2>6. /\ Vest(p) \in Provider /\ Vest(p).stake = p.stake
        /\ Vest(p).debt = SyncedDebt(p.stake, reserve.acc)
    BY <1>2, <2>4, <2>5 DEF Provider
  <2> QED
    BY <1>1, <1>3, <2>6 DEF Due
<1> QED
  BY <1>4, <1>5

\* A record whose debt is in line with its stake is due less than a unit.
LEMMA SyncedIsDue ==
  ASSUME ProvidersTyped, NEW q \in Provider, q.debt = SyncedDebt(q.stake, reserve.acc)
  PROVE  Due(q, reserve.acc) \in Nat /\ Due(q, reserve.acc) < Precision
<1>1. q.stake \in Nat /\ reserve.acc \in Nat /\ Precision \in Nat
  BY ProviderConstants DEF ProvidersTyped, Provider, Reserve
<1>2. PICK n \in Nat, m \in Nat : n = q.stake * reserve.acc /\ m = SyncedDebt(q.stake, reserve.acc) * Precision
        /\ m <= n /\ n < m + Precision
  <2>1. SyncedDebt(q.stake, reserve.acc) * Precision \in Nat
    BY <1>1, SyncedDebtIs
  <2> QED
    BY <1>1, <2>1, SyncedDebtIs
<1> QED
  BY <1>1, <1>2 DEF Due

Credited(b, r, n) == [b EXCEPT !.rewarded = r, !.synced = n]
Earned(b, k, a) == [b EXCEPT !.kept = k, !.accrued = a]
Raised(r, a, b) == [r EXCEPT !.stake = a, !.total = b]

LEMMA CreditedIs ==
  ASSUME NEW b \in Books, NEW r \in Nat, NEW n \in Nat
  PROVE  /\ Credited(b, r, n) \in Books /\ Credited(b, r, n).kept = b.kept
         /\ Credited(b, r, n).rewarded = r /\ Credited(b, r, n).synced = n
         /\ Credited(b, r, n).accrued = b.accrued
<1>1. PICK m : m = [b EXCEPT !.rewarded = r]
  OBVIOUS
<1>2. m \in Books /\ m.kept = b.kept /\ m.accrued = b.accrued /\ m.rewarded = r
  BY <1>1 DEF Books
<1>3. Credited(b, r, n) = [m EXCEPT !.synced = n]
  BY <1>1 DEF Credited
<1> QED
  BY <1>2, <1>3 DEF Books

LEMMA EarnedIs ==
  ASSUME NEW b \in Books, NEW k \in Int, NEW a \in Nat
  PROVE  /\ Earned(b, k, a) \in Books /\ Earned(b, k, a).kept = k
         /\ Earned(b, k, a).rewarded = b.rewarded /\ Earned(b, k, a).synced = b.synced
         /\ Earned(b, k, a).accrued = a
<1>1. PICK m : m = [b EXCEPT !.kept = k]
  OBVIOUS
<1>2. m \in Books /\ m.kept = k /\ m.rewarded = b.rewarded /\ m.synced = b.synced
  BY <1>1 DEF Books
<1>3. Earned(b, k, a) = [m EXCEPT !.accrued = a]
  BY <1>1 DEF Earned
<1> QED
  BY <1>2, <1>3 DEF Books

LEMMA RaisedIs ==
  ASSUME NEW r \in Reserve, NEW a \in Nat, NEW b \in Nat
  PROVE  /\ Raised(r, a, b) \in Reserve /\ Raised(r, a, b).stake = a
         /\ Raised(r, a, b).total = b /\ Raised(r, a, b).available = r.available
         /\ Raised(r, a, b).acc = r.acc
<1>1. PICK m : m = [r EXCEPT !.stake = a]
  OBVIOUS
<1>2. m \in Reserve /\ m.stake = a /\ m.available = r.available /\ m.acc = r.acc
  BY <1>1 DEF Reserve
<1>3. Raised(r, a, b) = [m EXCEPT !.total = b]
  BY <1>1 DEF Raised
<1> QED
  BY <1>2, <1>3 DEF Reserve


(* A call that replaces one record, in one piece.                            *)
LEMMA OneRecordInv ==
  ASSUME ProviderInv, NEW u \in Providers, NEW q \in Provider, NEW r \in Nat, NEW s \in Nat,
         ProvidersTyped', MoneyIsExplained', reserve'.acc = reserve.acc,
         reserve'.total = reserve'.stake, reserve'.stake = reserve.stake - Record(u).stake + q.stake,
         books'.rewarded = books.rewarded + r, books'.synced = books.synced + s,
         books'.accrued = books.accrued,
         Record(u)' = q, \A v \in Providers : v # u => Record(v)' = Record(v),
         Due(q, reserve.acc) >= 0,
         r * Precision + Due(q, reserve.acc) <= Due(Record(u), reserve.acc) + s * Precision
  PROVE  ProviderInv'
<1>1. /\ StakeSum \in Nat /\ StakeSum' = StakeSum - Record(u).stake + q.stake /\ StakeSum' \in Nat
      /\ DueSum \in Int /\ DueSum' = DueSum - Due(Record(u), reserve.acc) + Due(q, reserve.acc)
      /\ DebtsCovered'
  BY OneProvider
<1>2. DuesFit'
  BY <1>1, DuesStillFit
<1>3. StakeIsCapital'
  BY <1>1 DEF ProviderInv, StakeIsCapital, StakeSum
<1> QED
  BY <1>1, <1>2, <1>3 DEF ProviderInv

LEMMA ClaimRewardsInv ==
  ASSUME ProviderInv, NEW u \in Providers, ClaimRewards(u), UNCHANGED now
  PROVE  ProviderInv'
<1>1. PICK p \in Provider : p = Record(u) /\ p = provider[u] /\ Due(p, reserve.acc) >= 0
  BY RecordTyped DEF ProviderInv, DebtsCovered, Record, ClaimRewards
<1>2. PICK r \in Nat : r = PendingReward(p)
  BY <1>1, PendingIs DEF ProviderInv
<1>3. reserve \in Reserve /\ books \in Books /\ bank \in Int
  BY DEF ProviderInv, ProvidersTyped
<1>4. /\ books' \in Books /\ books'.rewarded = books.rewarded + r /\ books'.synced = books.synced
      /\ books'.accrued = books.accrued /\ books'.kept = books.kept
  BY <1>1, <1>2, <1>3 DEF ClaimRewards, Books
<1>5. /\ reserve' \in Reserve /\ bank' \in Int /\ reserve'.acc = reserve.acc
      /\ reserve'.stake = reserve.stake /\ reserve'.total = reserve.total
      /\ bank' - reserve'.available = bank - reserve.available
  BY <1>1, <1>2, <1>3 DEF ClaimRewards, Reserve
\* Paid out or left to vest, what pended is no longer due.
<1>6. PICK q \in Provider : /\ provider' = With(u, q) /\ q.stake = p.stake /\ Due(q, reserve.acc) >= 0
                            /\ r * Precision + Due(q, reserve.acc) = Due(p, reserve.acc)
  <2>1. CASE reserve.terms.duration > 0
    <3>1. /\ Vest(p) \in Provider /\ Vest(p).stake = p.stake
          /\ r * Precision + Due(Vest(p), reserve.acc) = Due(p, reserve.acc)
          /\ Due(Vest(p), reserve.acc) >= 0
      BY <1>1, <1>2, VestIs DEF ProviderInv
    <3> QED
      BY <1>1, <2>1, <3>1 DEF ClaimRewards
  <2>2. CASE ~(reserve.terms.duration > 0)
    <3>1. PICK d : d = SyncedDebt(p.stake, reserve.acc)
      OBVIOUS
    <3>2. PICK q : q = [p EXCEPT !.debt = d]
      OBVIOUS
    <3>3. p.stake \in Nat /\ p.debt \in Nat /\ reserve.acc \in Nat /\ d \in Nat /\ Precision \in Nat
      BY <1>3, <3>1, SyncedDebtIs, ProviderConstants DEF Provider, Reserve
    <3>4. q \in Provider /\ q.stake = p.stake /\ q.debt = d
      BY <3>2, <3>3 DEF Provider
    <3>5. Due(q, reserve.acc) >= 0
      BY <3>1, <3>4, SyncedIsDue DEF ProviderInv
    <3>6. r * Precision = d * Precision - p.debt * Precision
      BY <1>1, <1>2, <3>1, PendingIs DEF ProviderInv
    <3>7. r * Precision + Due(q, reserve.acc) = Due(p, reserve.acc)
      <4>1. p.stake * reserve.acc \in Int /\ d * Precision \in Int /\ p.debt * Precision \in Int
        BY <3>3
      <4> QED
        BY <3>4, <3>6, <4>1 DEF Due
    <3> QED
      BY <1>1, <2>2, <3>1, <3>2, <3>4, <3>5, <3>7 DEF ClaimRewards
  <2> QED
    BY <2>1, <2>2
<1>7. /\ DOMAIN provider' \in SUBSET Providers /\ provider' \in [DOMAIN provider' -> Provider]
      /\ Record(u)' = q /\ \A v \in Providers : v # u => Record(v)' = Record(v)
  BY <1>6, WithIs DEF ProviderInv
<1>8. ProvidersTyped'
  BY <1>4, <1>5, <1>7 DEF ProviderInv, ProvidersTyped
<1>9. MoneyIsExplained'
  BY <1>3, <1>4, <1>5 DEF ProviderInv, MoneyIsExplained, Reserve, Books
<1>10. /\ reserve'.stake = reserve.stake - Record(u).stake + q.stake /\ reserve'.total = reserve'.stake
       /\ books'.synced = books.synced + 0
  BY <1>1, <1>3, <1>4, <1>5, <1>6, StakeWithin DEF Reserve, Books, Provider
<1>11. r * Precision + Due(q, reserve.acc) <= Due(Record(u), reserve.acc) + 0 * Precision
  <2>1. Due(p, reserve.acc) \in Int /\ Precision \in Nat
    BY <1>3, ProviderConstants DEF Due, Provider, Reserve
  <2> QED
    BY <1>1, <1>6, <2>1
<1> QED
  BY <1>4, <1>5, <1>6, <1>7, <1>8, <1>9, <1>10, <1>11, OneRecordInv

LEMMA ReinvestRewardsInv ==
  ASSUME ProviderInv, NEW u \in Providers, ReinvestRewards(u), UNCHANGED now
  PROVE  ProviderInv'
<1>1. PICK p \in Provider : p = Record(u) /\ p = provider[u] /\ Due(p, reserve.acc) >= 0
  BY RecordTyped DEF ProviderInv, DebtsCovered, Record, ReinvestRewards
<1>2. PICK r \in Nat : r = PendingReward(p) /\ r * Precision <= Due(p, reserve.acc)
  BY <1>1, PendingIs DEF ProviderInv
<1>3. reserve \in Reserve /\ books \in Books /\ bank \in Int /\ Precision \in Nat
  BY ProviderConstants DEF ProviderInv, ProvidersTyped
<1>4. /\ books' \in Books /\ books'.rewarded = books.rewarded + r /\ books'.synced = books.synced + 1
      /\ books'.accrued = books.accrued /\ books'.kept = books.kept
  <2>1. PICK a \in Nat, n \in Nat : a = books.rewarded + r /\ n = books.synced + 1
    BY <1>3 DEF Books
  <2>2. books' = Credited(books, a, n)
    BY <1>1, <1>2, <2>1 DEF ReinvestRewards, Credited
  <2>3. books \in Books
    BY <1>3
  <2>4. /\ Credited(books, a, n) \in Books /\ Credited(books, a, n).kept = books.kept
        /\ Credited(books, a, n).rewarded = a /\ Credited(books, a, n).synced = n
        /\ Credited(books, a, n).accrued = books.accrued
    BY ONLY <2>3, CreditedIs
  <2> QED
    BY <2>1, <2>2, <2>4
<1>5. /\ reserve' \in Reserve /\ reserve'.acc = reserve.acc /\ reserve'.stake = reserve.stake + r
      /\ reserve'.total = reserve.total + r /\ reserve'.available = reserve.available
  <2>1. PICK a \in Nat, b \in Nat : a = reserve.stake + r /\ b = reserve.total + r
    BY <1>3 DEF Reserve
  <2>2. reserve' = Raised(reserve, a, b)
    BY <1>1, <1>2, <2>1 DEF ReinvestRewards, Raised
  <2>3. reserve \in Reserve
    BY <1>3
  <2>4. /\ Raised(reserve, a, b) \in Reserve /\ Raised(reserve, a, b).stake = a
        /\ Raised(reserve, a, b).total = b /\ Raised(reserve, a, b).available = reserve.available
        /\ Raised(reserve, a, b).acc = reserve.acc
    BY ONLY <2>3, RaisedIs
  <2> QED
    BY <2>1, <2>2, <2>4
<1>6. PICK q \in Provider : /\ provider' = With(u, q) /\ q.stake = p.stake + r
                            /\ q.debt = SyncedDebt(q.stake, reserve.acc)
  <2>1. PICK s \in Nat : s = p.stake + r
    BY DEF Provider
  <2>2. PICK d \in Nat : d = SyncedDebt(s, reserve.acc)
    BY <1>3, SyncedDebtIs DEF Reserve
  <2>3. Staked(p, s, d) \in Provider /\ Staked(p, s, d).stake = s /\ Staked(p, s, d).debt = d
    BY ONLY StakedIs
  <2>4. provider' = With(u, Staked(p, s, d))
    BY <1>1, <1>2, <2>1, <2>2 DEF ReinvestRewards, Staked
  <2> QED
    BY <2>1, <2>2, <2>3, <2>4
<1>7. /\ DOMAIN provider' \in SUBSET Providers /\ provider' \in [DOMAIN provider' -> Provider]
      /\ Record(u)' = q /\ \A v \in Providers : v # u => Record(v)' = Record(v)
  BY <1>6, WithIs DEF ProviderInv
<1>8. ProvidersTyped'
  BY <1>4, <1>5, <1>7 DEF ProviderInv, ProvidersTyped, ReinvestRewards
<1>9. MoneyIsExplained'
  BY <1>4, <1>5 DEF ProviderInv, MoneyIsExplained, ReinvestRewards
<1>10. /\ reserve'.stake = reserve.stake - Record(u).stake + q.stake /\ reserve'.total = reserve'.stake
  BY <1>1, <1>3, <1>5, <1>6, StakeWithin DEF Reserve, Provider
<1>11. /\ r * Precision + Due(q, reserve.acc) <= Due(Record(u), reserve.acc) + 1 * Precision
       /\ Due(q, reserve.acc) >= 0
  <2>1. Due(q, reserve.acc) \in Nat /\ Due(q, reserve.acc) < Precision
    BY <1>6, SyncedIsDue DEF ProviderInv
  <2>2. Due(p, reserve.acc) \in Int /\ r * Precision \in Int
    BY <1>3, ProviderConstants DEF Due, Provider, Reserve
  <2> QED
    BY <1>1, <1>2, <1>3, <2>1, <2>2
<1> QED
  BY <1>4, <1>5, <1>6, <1>7, <1>8, <1>9, <1>10, <1>11, OneRecordInv

LEMMA ClaimVestedRewardsInv ==
  ASSUME ProviderInv, NEW u \in Providers, ClaimVestedRewards(u), UNCHANGED now
  PROVE  ProviderInv'
<1>1. PICK p \in Provider : p = Record(u) /\ p = provider[u] /\ Due(p, reserve.acc) >= 0
  BY RecordTyped DEF ProviderInv, DebtsCovered, Record, ClaimVestedRewards
<1>2. reserve \in Reserve /\ books \in Books /\ bank \in Int /\ Precision \in Nat
      /\ p.stake \in Nat /\ p.debt \in Nat /\ reserve.acc \in Nat
  BY ProviderConstants DEF ProviderInv, ProvidersTyped, Provider, Reserve
<1>3. PICK free : /\ free = IF reserve.terms.duration = 0 THEN p.vesting ELSE Monus(Vested(p), p.claimed)
                  /\ free > 0 /\ reserve.available >= free
                  /\ provider' = With(u,
                       IF reserve.terms.duration = 0 \/ p.claimed + free >= p.vesting
                       THEN [p EXCEPT !.vesting = 0, !.claimed = 0, !.start = 0]
                       ELSE [p EXCEPT !.claimed = p.claimed + free])
                  /\ reserve' = [reserve EXCEPT !.available = @ - free] /\ bank' = bank - free
  BY <1>1 DEF ClaimVestedRewards
<1>4. free \in Nat
  <2>1. p.vesting \in Nat /\ p.claimed \in Nat /\ p.start \in Nat /\ now \in Nat /\ reserve.terms.duration \in Nat
    BY DEF ProviderInv, ProvidersTyped, Provider, Reserve, FairTerms, Terms
  <2>2. CASE reserve.terms.duration > 0
    <3>1. Vested(p) \in Nat
      BY <2>1, <2>2, VestedIs DEF ProviderInv
    <3> QED
      BY <1>3, <2>1, <2>2, <3>1 DEF Monus
  <2> QED
    BY <1>3, <2>1, <2>2
<1>5. PICK q \in Provider : provider' = With(u, q) /\ q.stake = p.stake /\ q.debt = p.debt
  <2>1. CASE reserve.terms.duration = 0 \/ p.claimed + free >= p.vesting
    <3>1. PICK m : m = [p EXCEPT !.vesting = 0]
      OBVIOUS
    <3>2. m \in Provider /\ m.stake = p.stake /\ m.debt = p.debt
      BY <3>1 DEF Provider
    <3>3. PICK l : l = [m EXCEPT !.claimed = 0]
      OBVIOUS
    <3>4. l \in Provider /\ l.stake = p.stake /\ l.debt = p.debt
      BY <3>2, <3>3 DEF Provider
    <3>5. PICK q : q = [l EXCEPT !.start = 0]
      OBVIOUS
    <3>6. q \in Provider /\ q.stake = p.stake /\ q.debt = p.debt
      BY <3>4, <3>5 DEF Provider
    <3>7. provider' = With(u, q)
      BY <1>3, <2>1, <3>1, <3>3, <3>5
    <3> QED
      BY <3>6, <3>7
  <2>2. CASE ~(reserve.terms.duration = 0 \/ p.claimed + free >= p.vesting)
    <3>1. PICK c \in Nat : c = p.claimed + free
      BY <1>4 DEF Provider
    <3>2. PICK q : q = [p EXCEPT !.claimed = c]
      OBVIOUS
    <3>3. q \in Provider /\ q.stake = p.stake /\ q.debt = p.debt
      BY <3>2 DEF Provider
    <3> QED
      BY <1>3, <2>2, <3>1, <3>2, <3>3
  <2> QED
    BY <2>1, <2>2
<1>6. /\ reserve' \in Reserve /\ reserve'.acc = reserve.acc /\ reserve'.stake = reserve.stake
      /\ reserve'.total = reserve.total /\ reserve'.available = reserve.available - free /\ bank' \in Int
  BY <1>2, <1>3, <1>4 DEF Reserve
<1>7. /\ DOMAIN provider' \in SUBSET Providers /\ provider' \in [DOMAIN provider' -> Provider]
      /\ Record(u)' = q /\ \A v \in Providers : v # u => Record(v)' = Record(v)
  BY <1>5, WithIs DEF ProviderInv
<1>8. ProvidersTyped'
  BY <1>6, <1>7 DEF ProviderInv, ProvidersTyped, ClaimVestedRewards
<1>9. MoneyIsExplained'
  BY <1>2, <1>3, <1>4, <1>6 DEF ProviderInv, MoneyIsExplained, ClaimVestedRewards, Reserve, Books
<1>10. /\ reserve'.stake = reserve.stake - Record(u).stake + q.stake /\ reserve'.total = reserve'.stake
       /\ books'.synced = books.synced + 0 /\ books'.rewarded = books.rewarded + 0
       /\ books'.accrued = books.accrued
  BY <1>1, <1>2, <1>5, <1>6, StakeWithin DEF Reserve, Books, ClaimVestedRewards
<1>11. /\ 0 * Precision + Due(q, reserve.acc) <= Due(Record(u), reserve.acc) + 0 * Precision
       /\ Due(q, reserve.acc) >= 0
  <2>1. Due(q, reserve.acc) = Due(p, reserve.acc) /\ Due(p, reserve.acc) \in Int
    BY <1>2, <1>5 DEF Due
  <2> QED
    BY <1>1, <1>2, <2>1
<1> QED
  BY <1>5, <1>6, <1>7, <1>8, <1>9, <1>10, <1>11, OneRecordInv


LEMMA WithdrawLiquidityInv ==
  ASSUME ProviderInv, NEW u \in Providers, NEW n \in Nat, WithdrawLiquidity(u, n), UNCHANGED now
  PROVE  ProviderInv'
<1>1. PICK p \in Provider : /\ p = Record(u) /\ p = provider[u] /\ Due(p, reserve.acc) >= 0
                            /\ n > 0 /\ p.stake >= n /\ u \in DOMAIN provider
  BY RecordTyped DEF ProviderInv, DebtsCovered, Record, WithdrawLiquidity
<1>2. reserve \in Reserve /\ books \in Books /\ bank \in Int /\ Precision \in Nat
      /\ p.stake \in Nat /\ p.debt \in Nat /\ reserve.acc \in Nat /\ reserve.terms.duration \in Nat
  BY ProviderConstants DEF ProviderInv, ProvidersTyped, Provider, Reserve, FairTerms, Terms
<1>3. PICK r \in Nat : r = PendingReward(p) /\ r * Precision <= Due(p, reserve.acc)
  BY <1>1, PendingIs DEF ProviderInv
<1>4. PICK old : old = IF reserve.terms.duration > 0 THEN Vest(p) ELSE p
  OBVIOUS
<1>5. old \in Provider /\ old.stake = p.stake
  BY <1>1, <1>4, VestIs DEF ProviderInv
<1>6. PICK penalty \in Nat, out \in Nat :
        /\ penalty = IF reserve.terms.duration > 0 THEN Penalty(old) ELSE 0
        /\ penalty <= old.vesting
        /\ out = IF reserve.terms.duration > 0 THEN n ELSE r + n
  <2>1. reserve.terms.duration > 0 => Penalty(old) \in Nat /\ Penalty(old) <= old.vesting
    BY <1>5, PenaltyIs DEF ProviderInv
  <2>2. old.vesting \in Nat
    BY <1>5 DEF Provider
  <2> QED
    BY <2>1, <2>2
<1>7. PICK left : left = Left(old, old.stake - n, old.vesting - penalty, SyncedDebt(old.stake - n, reserve.acc))
  OBVIOUS
<1>8. left \in Provider /\ left.stake = p.stake - n /\ left.debt = SyncedDebt(left.stake, reserve.acc)
  <2>1. PICK s \in Nat, v \in Nat : s = old.stake - n /\ v = old.vesting - penalty
    BY <1>1, <1>2, <1>5, <1>6 DEF Provider
  <2>2. PICK d \in Nat : d = SyncedDebt(s, reserve.acc)
    BY <1>2, SyncedDebtIs
  <2>3. left = Left(old, s, v, d)
    BY <1>7, <2>1, <2>2
  <2>4. old \in Provider
    BY <1>5
  <2>5. Left(old, s, v, d) \in Provider /\ Left(old, s, v, d).stake = s /\ Left(old, s, v, d).debt = d
    BY ONLY <2>4, LeftIs
  <2> QED
    BY <1>5, <2>1, <2>2, <2>3, <2>5
<1>9. /\ reserve.available + penalty >= out
      /\ provider' = IF left.stake = 0 THEN [a \in DOMAIN provider \ {u} |-> provider[a]] ELSE With(u, left)
      /\ reserve' = [reserve EXCEPT !.stake = @ - n, !.total = @ - n, !.available = @ + penalty - out]
      /\ books' = [books EXCEPT !.kept = @ + out - penalty, !.rewarded = @ + r, !.synced = @ + 1]
  BY <1>1, <1>3, <1>4, <1>6, <1>7 DEF WithdrawLiquidity, Left
\* The record that is left, or none.
<1>10. PICK q \in Provider : /\ q.stake = p.stake - n /\ Due(q, reserve.acc) \in Nat
                             /\ Due(q, reserve.acc) < Precision
                             /\ DOMAIN provider' \in SUBSET Providers
                             /\ provider' \in [DOMAIN provider' -> Provider]
                             /\ Record(u)' = q /\ \A v \in Providers : v # u => Record(v)' = Record(v)
  <2>1. CASE left.stake = 0
    <3>1. NewProvider \in Provider /\ NewProvider.stake = 0 /\ Due(NewProvider, reserve.acc) = 0
      BY <1>2 DEF NewProvider, Provider, Due
    <3>2. provider' = [a \in DOMAIN provider \ {u} |-> provider[a]]
      BY <1>9, <2>1
    <3>3. /\ DOMAIN provider' = DOMAIN provider \ {u}
          /\ \A v \in DOMAIN provider \ {u} : provider'[v] = provider[v]
          /\ provider' = [a \in DOMAIN provider' |-> provider'[a]]
      BY <3>2
    <3>4. DOMAIN provider' \in SUBSET Providers /\ provider' \in [DOMAIN provider' -> Provider]
      BY <3>3 DEF ProviderInv, ProvidersTyped
    <3>5. Record(u)' = NewProvider /\ \A v \in Providers : v # u => Record(v)' = Record(v)
      BY <3>3 DEF Record
    <3>6. 0 \in Nat /\ 0 < Precision
      BY ProviderConstants
    <3> QED
      BY <1>8, <2>1, <3>1, <3>4, <3>5, <3>6
  <2>2. CASE left.stake # 0
    <3>1. provider' = With(u, left)
      BY <1>9, <2>2
    <3>2. /\ DOMAIN provider' \in SUBSET Providers /\ provider' \in [DOMAIN provider' -> Provider]
          /\ Record(u)' = left /\ \A v \in Providers : v # u => Record(v)' = Record(v)
      BY <1>8, <3>1, WithIs DEF ProviderInv
    <3>3. Due(left, reserve.acc) \in Nat /\ Due(left, reserve.acc) < Precision
      BY <1>8, SyncedIsDue DEF ProviderInv
    <3> QED
      BY <1>8, <3>2, <3>3
  <2> QED
    BY <2>1, <2>2
<1>11. p.stake <= reserve.stake /\ reserve.total = reserve.stake
  BY <1>1, StakeWithin
<1>12. /\ reserve' \in Reserve /\ reserve'.acc = reserve.acc /\ reserve'.stake = reserve.stake - n
       /\ reserve'.total = reserve.total - n /\ reserve'.available = reserve.available + penalty - out
  <2>1. PICK a \in Nat, b \in Nat, c \in Nat :
          a = reserve.stake - n /\ b = reserve.total - n /\ c = reserve.available + penalty - out
    BY <1>1, <1>2, <1>9, <1>11 DEF Reserve
  <2>2. reserve' = Capital(reserve, a, b, c)
    BY <1>9, <2>1 DEF Capital
  <2>3. reserve \in Reserve
    BY <1>2
  <2>4. /\ Capital(reserve, a, b, c) \in Reserve /\ Capital(reserve, a, b, c).stake = a
        /\ Capital(reserve, a, b, c).total = b /\ Capital(reserve, a, b, c).available = c
        /\ Capital(reserve, a, b, c).acc = reserve.acc
    BY ONLY <2>3, CapitalIs
  <2> QED
    BY <2>1, <2>2, <2>4
<1>13. /\ books' \in Books /\ books'.kept = books.kept + out - penalty
       /\ books'.rewarded = books.rewarded + r /\ books'.synced = books.synced + 1
       /\ books'.accrued = books.accrued
  <2>1. PICK k \in Int, a \in Nat, m \in Nat :
          k = books.kept + out - penalty /\ a = books.rewarded + r /\ m = books.synced + 1
    BY <1>2 DEF Books
  <2>2. books' = Booked(books, k, a, m)
    BY <1>9, <2>1 DEF Booked
  <2>3. books \in Books
    BY <1>2
  <2>4. /\ Booked(books, k, a, m) \in Books /\ Booked(books, k, a, m).kept = k
        /\ Booked(books, k, a, m).rewarded = a /\ Booked(books, k, a, m).synced = m
        /\ Booked(books, k, a, m).accrued = books.accrued
    BY ONLY <2>3, BookedIs
  <2> QED
    BY <2>1, <2>2, <2>4
<1>14. ProvidersTyped'
  BY <1>10, <1>12, <1>13 DEF ProviderInv, ProvidersTyped, WithdrawLiquidity
<1>15. MoneyIsExplained'
  BY <1>2, <1>12, <1>13 DEF ProviderInv, MoneyIsExplained, WithdrawLiquidity, Reserve, Books
<1>16. reserve'.stake = reserve.stake - Record(u).stake + q.stake /\ reserve'.total = reserve'.stake
  BY <1>1, <1>2, <1>10, <1>11, <1>12 DEF Reserve
<1>17. r * Precision + Due(q, reserve.acc) <= Due(Record(u), reserve.acc) + 1 * Precision
  <2>1. Due(p, reserve.acc) \in Int /\ r * Precision \in Int
    BY <1>2 DEF Due
  <2> QED
    BY <1>1, <1>2, <1>3, <1>10, <2>1
<1>18. Due(q, reserve.acc) >= 0
  BY <1>10
<1> QED
  BY <1>10, <1>12, <1>13, <1>14, <1>15, <1>16, <1>17, <1>18, OneRecordInv

\* The accumulator grows: every stake is due its share.
LEMMA AccrualIs ==
  ASSUME ProviderInv, UNCHANGED provider, NEW k \in Nat, reserve'.acc = reserve.acc + k
  PROVE  /\ DebtsCovered' /\ DueSum \in Int /\ DueSum' = DueSum + k * reserve.stake
<1>1. \A u : Record(u)' = Record(u) /\ Record(u) \in Provider
  BY RecordTyped DEF Record, ProviderInv
<1>2. reserve.acc \in Nat /\ Precision \in Nat
  BY ProviderConstants DEF ProviderInv, ProvidersTyped, Reserve
<1>3. ASSUME NEW p \in Provider
      PROVE  /\ p.stake \in Nat /\ Due(p, reserve.acc) \in Int
             /\ Due(p, reserve.acc + k) = Due(p, reserve.acc) + k * p.stake /\ k * p.stake >= 0
  <2>1. p.stake \in Nat /\ p.debt \in Nat
    BY DEF Provider
  <2>2. /\ p.stake * (reserve.acc + k) = p.stake * reserve.acc + p.stake * k
        /\ p.stake * reserve.acc \in Int /\ p.stake * k \in Int /\ p.stake * k = k * p.stake
        /\ p.debt * Precision \in Int /\ p.stake * k >= 0
    BY <1>2, <2>1
  <2> QED
    BY <2>1, <2>2 DEF Due
<1>4. DebtsCovered'
  BY <1>1, <1>2, <1>3 DEF DebtsCovered, ProviderInv
<1>5. PICK f, g, h : /\ f = [u \in Providers |-> Due(Record(u), reserve.acc)]
                     /\ g = [u \in Providers |-> Record(u).stake]
                     /\ h = [u \in Providers |-> Due(Record(u)', reserve'.acc)]
  OBVIOUS
<1>6. \A u \in Providers : f[u] \in Int /\ g[u] \in Int /\ h[u] = f[u] + k * g[u]
  BY <1>1, <1>3, <1>5
<1>7. /\ DueSum = SumFunctionOnSet(f, Providers) /\ DueSum' = SumFunctionOnSet(h, Providers)
      /\ reserve.stake = SumFunctionOnSet(g, Providers)
  BY <1>5 DEF DueSum, ProviderInv, StakeIsCapital, Due
<1>8. /\ SumFunctionOnSet(f, Providers) \in Int
      /\ SumFunctionOnSet(h, Providers) = SumFunctionOnSet(f, Providers) + k * SumFunctionOnSet(g, Providers)
  BY <1>6, ProviderConstants, SumCombines
<1> QED
  BY <1>4, <1>7, <1>8

LEMMA TakePremiumInv ==
  ASSUME ProviderInv, NEW n \in Nat, n > 0, TakePremium(n, 1), UNCHANGED now
  PROVE  ProviderInv'
<1>1. reserve \in Reserve /\ books \in Books /\ bank \in Int /\ Precision \in Nat /\ reserve.stake \in Nat
  BY ProviderConstants DEF ProviderInv, ProvidersTyped, Reserve
<1>2. PICK m \in Nat : m = n - 1
  OBVIOUS
<1>3. PICK k \in Nat : /\ k = IF reserve.stake = 0 THEN 0 ELSE (m * Precision) \div reserve.stake
                       /\ reserve.stake # 0 => k * reserve.stake <= m * Precision
  <2>1. m * Precision \in Nat
    BY <1>1
  <2> QED
    BY <1>1, <2>1, RoundsDown
<1>4. PICK e \in Nat : /\ e = (IF reserve.stake = 0 THEN 0 ELSE m)
                       /\ k * reserve.stake <= e * Precision
  <2>1. reserve.stake = 0 => k * reserve.stake = 0
    BY <1>1
  <2>2. 0 * Precision = 0
    BY <1>1
  <2> QED
    BY <1>3, <2>1, <2>2
<1>5. /\ reserve' \in Reserve /\ reserve'.acc = reserve.acc + k /\ reserve'.stake = reserve.stake
      /\ reserve'.total = reserve.total /\ reserve'.available = reserve.available + m
  <2>1. PICK l : l = [reserve EXCEPT !.available = reserve.available + n - 1]
    OBVIOUS
  <2>2. /\ l \in Reserve /\ l.acc = reserve.acc /\ l.stake = reserve.stake /\ l.total = reserve.total
        /\ l.available = reserve.available + m
    BY <1>1, <1>2, <2>1 DEF Reserve
  <2>3. reserve' = Accrued(l, m)
    BY <1>2, <2>1 DEF TakePremium
  <2>4. CASE reserve.stake = 0
    BY <1>1, <1>3, <2>2, <2>3, <2>4 DEF Accrued, Reserve
  <2>5. CASE reserve.stake # 0
    <3>1. PICK a \in Nat : a = l.acc + k
      BY <2>2 DEF Reserve
    <3>2. reserve' = [l EXCEPT !.acc = a]
      BY <1>3, <2>2, <2>3, <2>5, <3>1 DEF Accrued
    <3> QED
      BY <2>2, <3>1, <3>2 DEF Reserve
  <2> QED
    BY <2>4, <2>5
<1>6. /\ books' \in Books /\ books'.kept = books.kept + 1 /\ books'.accrued = books.accrued + e
      /\ books'.rewarded = books.rewarded /\ books'.synced = books.synced
  <2>1. PICK a \in Int, b \in Nat : a = books.kept + 1 /\ b = books.accrued + e
    BY <1>1 DEF Books
  <2>2. books' = Earned(books, a, b)
    BY <1>2, <1>4, <2>1 DEF TakePremium, Earned
  <2>3. books \in Books
    BY <1>1
  <2>4. /\ Earned(books, a, b) \in Books /\ Earned(books, a, b).kept = a
        /\ Earned(books, a, b).rewarded = books.rewarded /\ Earned(books, a, b).synced = books.synced
        /\ Earned(books, a, b).accrued = b
    BY ONLY <2>3, EarnedIs
  <2> QED
    BY <2>1, <2>2, <2>4
<1>7. DebtsCovered' /\ DueSum \in Int /\ DueSum' = DueSum + k * reserve.stake
  BY <1>5, AccrualIs DEF TakePremium
<1>8. DuesFit'
  <2>1. books.rewarded * Precision + DueSum <= (books.accrued + books.synced) * Precision
    BY DEF ProviderInv, DuesFit, DueSum
  <2>2. /\ (books.accrued + e + books.synced) * Precision
             = (books.accrued + books.synced) * Precision + e * Precision
        /\ (books.accrued + books.synced) * Precision \in Int /\ e * Precision \in Int
        /\ books.rewarded * Precision \in Int /\ k * reserve.stake \in Int
    <3>1. books.accrued \in Nat /\ books.synced \in Nat /\ books.rewarded \in Nat
      BY <1>1 DEF Books
    <3> QED
      BY <1>1, <3>1
  <2>3. books'.rewarded * Precision + DueSum' <= (books'.accrued + books'.synced) * Precision
    BY <1>4, <1>6, <1>7, <2>1, <2>2
  <2> QED
    BY <2>3 DEF DuesFit, DueSum
<1>9. StakeIsCapital'
  <2>1. \A u \in Providers : Record(u)' = Record(u)
    BY DEF Record, TakePremium
  <2> QED
    BY <1>5, <2>1 DEF ProviderInv, StakeIsCapital
<1>10. MoneyIsExplained'
  BY <1>1, <1>2, <1>5, <1>6 DEF ProviderInv, MoneyIsExplained, TakePremium, Reserve, Books
<1>11. ProvidersTyped'
  BY <1>1, <1>5, <1>6 DEF ProviderInv, ProvidersTyped, TakePremium
<1> QED
  BY <1>7, <1>8, <1>9, <1>10, <1>11 DEF ProviderInv

LEMMA ProviderInitInv == ProviderInit => ProviderInv
<1> SUFFICES ASSUME ProviderInit PROVE ProviderInv
  OBVIOUS
<1>1. \A u \in Providers : Record(u) = NewProvider
  BY DEF ProviderInit, Record
<1>2. NewProvider.stake = 0 /\ Due(NewProvider, reserve.acc) = 0
  BY ProviderConstants DEF NewProvider, Due, ProviderInit
<1>3. ProvidersTyped
  BY DEF ProviderInit, ProvidersTyped, Reserve, Books, FairTerms, Terms, NoTerms
<1>4. StakeIsCapital
  <2>1. PICK f : f = [u \in Providers |-> Record(u).stake]
    OBVIOUS
  <2>2. SumFunctionOnSet(f, Providers) = 0
    BY <1>1, <1>2, <2>1, ProviderConstants, SumOfZeros
  <2> QED
    BY <2>1, <2>2 DEF StakeIsCapital, ProviderInit
<1>5. DuesFit
  <2>1. PICK f : f = [u \in Providers |-> Due(Record(u), reserve.acc)]
    OBVIOUS
  <2>2. SumFunctionOnSet(f, Providers) = 0
    BY <1>1, <1>2, <2>1, ProviderConstants, SumOfZeros
  <2> QED
    BY <2>1, <2>2, ProviderConstants DEF DuesFit, ProviderInit
<1>6. DebtsCovered /\ MoneyIsExplained
  BY <1>1, <1>2 DEF DebtsCovered, MoneyIsExplained, ProviderInit
<1> QED
  BY <1>3, <1>4, <1>5, <1>6 DEF ProviderInv

LEMMA ProviderStepInv == ProviderInv /\ [ProviderStep]_<<now, providerVars>> => ProviderInv'
<1> SUFFICES ASSUME ProviderInv, [ProviderStep]_<<now, providerVars>> PROVE ProviderInv'
  OBVIOUS
<1>1. CASE UNCHANGED providerVars /\ (UNCHANGED now \/ Tick)
  <2>1. now' \in Nat
    BY <1>1 DEF Tick, ProviderInv, ProvidersTyped
  <2>2. StakeIsCapital' /\ DebtsCovered' /\ DuesFit'
    BY <1>1, DuesKept DEF providerVars
  <2> QED
    BY <1>1, <2>1, <2>2 DEF ProviderInv, ProvidersTyped, MoneyIsExplained, providerVars
<1>2. CASE ProviderNext /\ UNCHANGED now
  <2>1. ASSUME NEW u \in Providers, NEW n \in Deposits, DepositLiquidity(u, n) PROVE ProviderInv'
    BY <1>2, <2>1, DepositLiquidityInv, ProviderConstants
  <2>2. ASSUME NEW u \in Providers, NEW n \in Withdrawals, WithdrawLiquidity(u, n) PROVE ProviderInv'
    BY <1>2, <2>2, WithdrawLiquidityInv, ProviderConstants
  <2>3. ASSUME NEW u \in Providers, ClaimRewards(u) \/ ReinvestRewards(u) \/ ClaimVestedRewards(u)
        PROVE  ProviderInv'
    BY <1>2, <2>3, ClaimRewardsInv, ReinvestRewardsInv, ClaimVestedRewardsInv
  <2>4. ASSUME NEW t \in VestingTerms, ConfigurePoolVesting(t) PROVE ProviderInv'
    BY <1>2, <2>4, ConfigurePoolVestingInv
  <2>5. ASSUME NEW n \in Premiums, TakePremium(n, 1) PROVE ProviderInv'
    BY <1>2, <2>5, TakePremiumInv, ProviderConstants
  <2>6. ASSUME NEW n \in Payouts, PayClaim(n) PROVE ProviderInv'
    BY <1>2, <2>6, PayClaimInv, ProviderConstants
  <2> QED
    BY <1>2, <2>1, <2>2, <2>3, <2>4, <2>5, <2>6 DEF ProviderNext
<1> QED
  BY <1>1, <1>2 DEF ProviderStep

\* For any number of providers, any vesting terms and any precision: the pool's
\* capital is what they have at stake, every unit it holds is explained, and they
\* are promised no more than premiums have accrued to them and the rounding of
\* their debts.
THEOREM ReservesBalance == ProviderSpec => []ReserveBooksBalance
<1>1. ProviderInv => ReserveBooksBalance
  <2> SUFFICES ASSUME ProviderInv PROVE ReserveBooksBalance
    OBVIOUS
  <2>1. PICK f, g, h, z :
          /\ f = [u \in Providers |-> PendingReward(Record(u))]
          /\ g = [u \in Providers |-> Due(Record(u), reserve.acc)]
          /\ z = [u \in Providers |-> 0]
          /\ h = [u \in Providers |-> PendingReward(Record(u)) * Precision]
    OBVIOUS
  <2>2. Precision \in Nat /\ Precision > 0 /\ reserve.acc \in Nat
    BY ProviderConstants DEF ProviderInv, ProvidersTyped, Reserve
  <2>3. ASSUME NEW u \in Providers
        PROVE  /\ f[u] \in Int /\ g[u] \in Int /\ z[u] = 0 /\ h[u] = z[u] + Precision * f[u]
               /\ h[u] \in Int /\ h[u] <= g[u]
    <3>1. PICK p \in Provider : p = Record(u)
      BY RecordTyped DEF ProviderInv
    <3>2. Due(p, reserve.acc) >= 0
      BY <3>1 DEF ProviderInv, DebtsCovered
    <3>3. /\ PendingReward(p) \in Nat /\ PendingReward(p) * Precision <= Due(p, reserve.acc)
      BY <3>2, PendingIs DEF ProviderInv
    <3>4. Due(p, reserve.acc) \in Int
      BY <2>2 DEF Due, Provider
    <3>5. PendingReward(p) * Precision = 0 + Precision * PendingReward(p) /\ PendingReward(p) * Precision \in Int
      BY <2>2, <3>3
    <3> QED
      BY <2>1, <3>1, <3>3, <3>4, <3>5
  <2>4. \A u \in Providers : z[u] \in Int
    BY <2>3
  <2>5. /\ SumFunctionOnSet(z, Providers) = 0 /\ SumFunctionOnSet(f, Providers) \in Int
        /\ SumFunctionOnSet(h, Providers) = 0 + Precision * SumFunctionOnSet(f, Providers)
        /\ SumFunctionOnSet(h, Providers) <= SumFunctionOnSet(g, Providers)
    <3>1. SumFunctionOnSet(z, Providers) = 0
      BY <2>3, ProviderConstants, SumOfZeros
    <3>2. /\ SumFunctionOnSet(f, Providers) \in Int
          /\ SumFunctionOnSet(h, Providers)
               = SumFunctionOnSet(z, Providers) + Precision * SumFunctionOnSet(f, Providers)
      BY <2>2, <2>3, <2>4, ProviderConstants, SumCombines
    <3>3. SumFunctionOnSet(h, Providers) <= SumFunctionOnSet(g, Providers)
      BY <2>3, ProviderConstants, SumMonotone
    <3> QED
      BY <3>1, <3>2, <3>3
  <2>6. PICK s \in Int, w \in Nat, a \in Nat :
          /\ s = SumFunctionOnSet(f, Providers) /\ w = books.rewarded /\ a = books.accrued + books.synced
    BY <2>5 DEF ProviderInv, ProvidersTyped, Books
  <2>7. SumFunctionOnSet(g, Providers) \in Int
    BY <2>3, ProviderConstants, SumType
  <2>8. w * Precision + Precision * s <= a * Precision
    <3>1. w * Precision + SumFunctionOnSet(g, Providers) <= a * Precision
      BY <2>1, <2>6 DEF ProviderInv, DuesFit
    <3>2. w * Precision \in Int /\ Precision * s \in Int /\ a * Precision \in Int
      BY <2>2
    <3> QED
      BY <2>5, <2>6, <2>7, <3>1, <3>2
  <2>9. w + s <= a
    <3>1. SUFFICES ASSUME a + 1 <= w + s PROVE FALSE
      BY <2>6
    <3>2. (a + 1) * Precision <= (w + s) * Precision
      BY <2>2, <3>1
    <3>3. (a + 1) * Precision = a * Precision + Precision /\ (w + s) * Precision = w * Precision + Precision * s
          /\ a * Precision \in Int /\ w * Precision \in Int /\ Precision * s \in Int
      BY <2>2
    <3> QED
      BY <2>2, <2>8, <3>2, <3>3
  <2>10. RewardsAreAccrued
    BY <2>1, <2>6, <2>9 DEF RewardsAreAccrued
  <2> QED
    BY <2>10 DEF ReserveBooksBalance, ProviderInv
<1> QED
  BY <1>1, ProviderInitInv, ProviderStepInv, PTL DEF ProviderSpec

-----------------------------------------------------------------------------
(* The policies of the contract.                                           *)

Pool == [total : Int, available : Int, active : Nat, paid : Int]
PolicyStatuses == {"Active", "Renewed", "Claimed", "Cancelled", "Expired"}
InsurancePolicy == [holder : Users, coverage : Int, deductible : Int, end : Int,
                    status : PolicyStatuses, claimed : Int, parametric : BOOLEAN,
                    used : SUBSET EvidenceTypes]
Token == [owner : Users, price : Prices \union {None}]
Claim == [policy : Nat, claimant : Users, amount : Int,
          status : {"Pending", "UnderReview", "Approved", "Rejected", "Paid", "Disputed"},
          payout : Int]
Assessment == [score : Int, until : Int]

\* The part of the state a payout changes, and what it may do to the policies:
\* some become settled, and nothing else that their books speak of changes.
IsCore(s) ==
  /\ s = [pool |-> s.pool, policies |-> s.policies, claims |-> s.claims,
          treaties |-> s.treaties, lastPaid |-> s.lastPaid]
  /\ s.pool \in Pool /\ s.policies \in Seq(InsurancePolicy) /\ s.claims \in Seq(Claim)
  /\ \A c \in DOMAIN s.claims : s.claims[c].policy \in DOMAIN s.policies

Settled(ps, qs) ==
  /\ Len(qs) = Len(ps)
  /\ \A id \in 1 .. Len(ps) :
       qs[id].holder = ps[id].holder /\ qs[id].status \in {ps[id].status, "Claimed"}

Settles(s, t) ==
  /\ IsCore(t) /\ t.pool.active = s.pool.active
  /\ Settled(s.policies, t.policies) /\ Len(t.claims) = Len(s.claims)

HavingIn(ps, statuses) == {id \in 1 .. Len(ps) : ps[id].status \in statuses}
Counts(ps, n) ==
  /\ Cardinality(HavingIn(ps, {"Active", "Renewed"})) <= n
  /\ n <= Cardinality(HavingIn(ps, {"Active", "Renewed", "Claimed"}))

Follows(ts, ps) == Len(ts) = Len(ps) /\ \A id \in 1 .. Len(ps) : ts[id].owner = ps[id].holder

PolicyInv ==
  /\ IsCore(Core) /\ tokens \in Seq(Token) /\ now \in Nat
  /\ assessment = None \/ assessment \in Assessment
  /\ Follows(tokens, policies) /\ Counts(policies, pool.active)

LEMMA InsuranceConstants ==
  /\ FeeRate \in Nat /\ Term \in Nat /\ CooldownPeriod \in Nat
  /\ PremiumScale \in Nat /\ PremiumScale > 0 /\ DeductibleScale \in Nat /\ DeductibleScale > 0
  /\ Stakes \subseteq Int /\ Coverages \subseteq Int /\ Payments \subseteq Int
  /\ ClaimAmounts \subseteq Int /\ Prices \subseteq Int /\ Scores \subseteq Int
  BY InsuranceAssumption

LEMMA HavingIsFinite ==
  ASSUME NEW ps, Len(ps) \in Nat, NEW st
  PROVE  IsFiniteSet(HavingIn(ps, st)) /\ Cardinality(HavingIn(ps, st)) \in Nat
<1>1. IsFiniteSet(1 .. Len(ps))
  BY FS_Interval
<1>2. HavingIn(ps, st) \in SUBSET (1 .. Len(ps))
  BY DEF HavingIn
<1> QED
  BY <1>1, <1>2, FS_Subset, FS_CardinalityType

(* A set that is within another has no more elements.                        *)
LEMMA HavingMonotone ==
  ASSUME NEW ps, NEW qs, Len(ps) \in Nat, Len(qs) \in Nat, NEW st, NEW su,
         HavingIn(ps, st) \subseteq HavingIn(qs, su)
  PROVE  Cardinality(HavingIn(ps, st)) <= Cardinality(HavingIn(qs, su))
<1>1. IsFiniteSet(HavingIn(qs, su))
  BY HavingIsFinite
<1> QED
  BY <1>1, FS_Subset

(* Settling policies leaves the count of the active ones good.              *)
LEMMA SettledCounts ==
  ASSUME NEW ps \in Seq(InsurancePolicy), NEW qs \in Seq(InsurancePolicy), NEW n \in Nat,
         Settled(ps, qs), Counts(ps, n)
  PROVE  Counts(qs, n)
<1>1. Len(ps) \in Nat /\ Len(qs) \in Nat
  OBVIOUS
<1>2. /\ HavingIn(qs, {"Active", "Renewed"}) \subseteq HavingIn(ps, {"Active", "Renewed"})
      /\ HavingIn(ps, {"Active", "Renewed", "Claimed"}) \subseteq HavingIn(qs, {"Active", "Renewed", "Claimed"})
  BY DEF HavingIn, Settled
<1>3. /\ Cardinality(HavingIn(qs, {"Active", "Renewed"})) \in Nat
      /\ Cardinality(HavingIn(ps, {"Active", "Renewed"})) \in Nat
      /\ Cardinality(HavingIn(qs, {"Active", "Renewed", "Claimed"})) \in Nat
      /\ Cardinality(HavingIn(ps, {"Active", "Renewed", "Claimed"})) \in Nat
  BY <1>1, HavingIsFinite
<1>4. Cardinality(HavingIn(qs, {"Active", "Renewed"})) <= Cardinality(HavingIn(ps, {"Active", "Renewed"}))
  BY <1>1, <1>2, HavingMonotone
<1>5. Cardinality(HavingIn(ps, {"Active", "Renewed", "Claimed"}))
        <= Cardinality(HavingIn(qs, {"Active", "Renewed", "Claimed"}))
  BY <1>1, <1>2, HavingMonotone
<1> QED
  BY <1>3, <1>4, <1>5 DEF Counts

(* So does a change that leaves both sets as they are.                      *)
LEMMA SameCounts ==
  ASSUME NEW ps, NEW qs, NEW n, Counts(ps, n), Len(qs) = Len(ps),
         \A id \in 1 .. Len(ps) : \/ qs[id].status = ps[id].status
                                  \/ /\ qs[id].status \in {"Active", "Renewed"}
                                     /\ ps[id].status \in {"Active", "Renewed"}
  PROVE  Counts(qs, n)
<1>1. /\ HavingIn(qs, {"Active", "Renewed"}) = HavingIn(ps, {"Active", "Renewed"})
      /\ HavingIn(qs, {"Active", "Renewed", "Claimed"}) = HavingIn(ps, {"Active", "Renewed", "Claimed"})
  BY DEF HavingIn
<1> QED
  BY <1>1 DEF Counts

(* A new policy is active and counted.                                      *)
LEMMA NewCounts ==
  ASSUME NEW ps, NEW qs, NEW n \in Nat, Counts(ps, n), Len(ps) \in Nat, Len(qs) = Len(ps) + 1,
         \A id \in 1 .. Len(ps) : qs[id].status = ps[id].status,
         qs[Len(ps) + 1].status = "Active"
  PROVE  Counts(qs, n + 1)
<1>1. ASSUME NEW st, "Active" \in st
      PROVE  /\ Cardinality(HavingIn(ps, st)) \in Nat
             /\ Cardinality(HavingIn(qs, st)) = Cardinality(HavingIn(ps, st)) + 1
  <2>1. HavingIn(qs, st) = HavingIn(ps, st) \cup {Len(ps) + 1}
    BY <1>1 DEF HavingIn
  <2>2. Len(ps) + 1 \notin HavingIn(ps, st)
    BY DEF HavingIn
  <2>3. IsFiniteSet(HavingIn(ps, st)) /\ Cardinality(HavingIn(ps, st)) \in Nat
    BY HavingIsFinite
  <2>4. Cardinality(HavingIn(ps, st) \cup {Len(ps) + 1}) = Cardinality(HavingIn(ps, st)) + 1
    BY <2>2, <2>3, FS_AddElement
  <2> QED
    BY <2>1, <2>3, <2>4
<1>2. "Active" \in {"Active", "Renewed"} /\ "Active" \in {"Active", "Renewed", "Claimed"}
  OBVIOUS
<1> QED
  BY <1>1, <1>2 DEF Counts

(* Policies that leave the active ones are counted out.                     *)
LEMMA GoneCounts ==
  ASSUME NEW ps, NEW qs, NEW n \in Nat, Counts(ps, n), Len(ps) \in Nat, Len(qs) = Len(ps),
         NEW due \in SUBSET (1 .. Len(ps)),
         \A id \in due : ps[id].status = "Active" /\ qs[id].status \in {"Cancelled", "Expired"},
         \A id \in 1 .. Len(ps) : id \notin due => qs[id].status = ps[id].status
  PROVE  /\ Cardinality(due) \in Nat /\ Cardinality(due) <= n
         /\ Counts(qs, n - Cardinality(due))
<1>1. ASSUME NEW st, "Active" \in st, "Cancelled" \notin st, "Expired" \notin st
      PROVE  /\ Cardinality(HavingIn(ps, st)) \in Nat /\ Cardinality(due) \in Nat
             /\ Cardinality(due) <= Cardinality(HavingIn(ps, st))
             /\ Cardinality(HavingIn(qs, st)) = Cardinality(HavingIn(ps, st)) - Cardinality(due)
  <2>1. IsFiniteSet(HavingIn(ps, st)) /\ Cardinality(HavingIn(ps, st)) \in Nat
    BY HavingIsFinite
  <2>2. due \subseteq HavingIn(ps, st) /\ HavingIn(ps, st) \cap due = due
    BY <1>1 DEF HavingIn
  <2>3. HavingIn(qs, st) = HavingIn(ps, st) \ due
    BY <1>1 DEF HavingIn
  <2>4. IsFiniteSet(due) /\ Cardinality(due) <= Cardinality(HavingIn(ps, st))
    BY <2>1, <2>2, FS_Subset
  <2>5. Cardinality(due) \in Nat
    BY <2>4, FS_CardinalityType
  <2>6. Cardinality(HavingIn(ps, st) \ due)
          = Cardinality(HavingIn(ps, st)) - Cardinality(HavingIn(ps, st) \cap due)
    BY <2>1, FS_Difference
  <2> QED
    BY <2>1, <2>2, <2>3, <2>4, <2>5, <2>6
<1>2. /\ "Active" \in {"Active", "Renewed"} /\ "Active" \in {"Active", "Renewed", "Claimed"}
      /\ "Cancelled" \notin {"Active", "Renewed"} /\ "Cancelled" \notin {"Active", "Renewed", "Claimed"}
      /\ "Expired" \notin {"Active", "Renewed"} /\ "Expired" \notin {"Active", "Renewed", "Claimed"}
  OBVIOUS
<1> QED
  BY <1>1, <1>2 DEF Counts

-----------------------------------------------------------------------------
(* What claims do.                                                         *)

LEMMA SettlesItself == ASSUME NEW s, IsCore(s) PROVE Settles(s, s)
  BY DEF Settles, Settled, IsCore

LEMMA SettlesOn ==
  ASSUME NEW s, NEW t, NEW u, IsCore(s), Settles(s, t), Settles(t, u)
  PROVE  Settles(s, u)
<1>1. Len(t.policies) = Len(s.policies) /\ Len(u.policies) = Len(t.policies)
  BY DEF Settles, Settled
<1>2. ASSUME NEW id \in 1 .. Len(s.policies)
      PROVE  /\ u.policies[id].holder = s.policies[id].holder
             /\ u.policies[id].status \in {s.policies[id].status, "Claimed"}
  BY <1>1, <1>2 DEF Settles, Settled
<1> QED
  BY <1>1, <1>2 DEF Settles, Settled

(* A treaty that pays changes nothing but the treaties.                      *)
LEMMA RecoveredSettles ==
  ASSUME NEW s, IsCore(s), NEW amount
  PROVE  /\ Settles(s, Recovered(s, amount)) /\ Recovered(s, amount).pool = s.pool
         /\ Recovered(s, amount).claims = s.claims /\ Recovered(s, amount).policies = s.policies
<1>1. PICK ts : Recovered(s, amount) = [s EXCEPT !.treaties = ts]
  <2>1. \A i, e : [s EXCEPT !.treaties[i].recovered = e]
                    = [s EXCEPT !.treaties = [s.treaties EXCEPT ![i] = [s.treaties[i] EXCEPT !.recovered = e]]]
    BY DEF IsCore
  <2>2. s = [s EXCEPT !.treaties = s.treaties]
    BY DEF IsCore
  <2> QED
    BY <2>1, <2>2 DEF Recovered
<1>2. PICK t : t = [s EXCEPT !.treaties = ts]
  OBVIOUS
<1>3. /\ t.pool = s.pool /\ t.policies = s.policies /\ t.claims = s.claims /\ t.lastPaid = s.lastPaid
      /\ t.treaties = ts
      /\ t = [pool |-> t.pool, policies |-> t.policies, claims |-> t.claims,
              treaties |-> t.treaties, lastPaid |-> t.lastPaid]
  BY <1>2 DEF IsCore
<1>4. IsCore(t)
  BY ONLY <1>3, IsCore(s) DEF IsCore
<1>5. Settles(s, t)
  BY ONLY <1>3, <1>4, IsCore(s) DEF IsCore, Settles, Settled
<1> QED
  BY <1>1, <1>2, <1>3, <1>5

\* Of the claims, a step from s to t changes that of the id only, and not whose it is.
Touches(s, t, id) ==
  \A c \in DOMAIN s.claims : /\ t.claims[c].policy = s.claims[c].policy
                             /\ c # id => t.claims[c] = s.claims[c]

\* The amount is paid on the claim: it is what its policy and the pool count more.
Pays(s, t, id, amount) ==
  /\ t.pool.paid = s.pool.paid + amount
  /\ \A p \in DOMAIN s.policies :
       t.policies[p].claimed = s.policies[p].claimed
                                 + (IF p = s.claims[id].policy THEN amount ELSE 0)
  /\ Touches(s, t, id) /\ t.claims[id].status = "Paid"
  /\ t.claims[id].payout = s.claims[id].payout

\* A claim is approved for an amount, or rejected.
Decision(s, t, id, amount) ==
  \/ t = [s EXCEPT !.claims[id].status = "Approved", !.claims[id].payout = amount]
  \/ t = [s EXCEPT !.claims[id].status = "Rejected"]

(* So does the decision of a claim, but for the claim.                       *)
LEMMA DecidedSettles ==
  ASSUME NEW s, IsCore(s), NEW id \in DOMAIN s.claims, NEW amount \in Int, NEW t,
         Decision(s, t, id, amount)
  PROVE  /\ Settles(s, t) /\ t.pool = s.pool /\ t.policies = s.policies /\ Touches(s, t, id)
         /\ t.claims[id].status \in {"Approved", "Rejected"}
         /\ t.claims[id].status = "Approved" => t.claims[id].payout = amount
<1>1. /\ s.claims \in Seq(Claim) /\ id \in 1 .. Len(s.claims) /\ Len(s.claims) \in Nat
      /\ s.claims[id] \in Claim
  BY DEF IsCore
<1>2. PICK c \in Claim :
        /\ t = [s EXCEPT !.claims = [s.claims EXCEPT ![id] = c]] /\ c.policy = s.claims[id].policy
        /\ c.status \in {"Approved", "Rejected"}
        /\ c.status = "Approved" => c.payout = amount
  <2>1. CASE t = [s EXCEPT !.claims[id].status = "Rejected"]
    <3>1. PICK c : c = [s.claims[id] EXCEPT !.status = "Rejected"]
      OBVIOUS
    <3>2. c \in Claim /\ c.policy = s.claims[id].policy /\ c.status = "Rejected"
      BY <1>1, <3>1 DEF Claim
    <3>3. t = [s EXCEPT !.claims = [s.claims EXCEPT ![id] = c]]
      BY <2>1, <3>1, <1>1 DEF IsCore
    <3> QED
      BY <3>2, <3>3
  <2>2. CASE t = [s EXCEPT !.claims[id].status = "Approved", !.claims[id].payout = amount]
    <3>1. PICK c : c = [s.claims[id] EXCEPT !.status = "Approved", !.payout = amount]
      OBVIOUS
    <3>2. c \in Claim /\ c.policy = s.claims[id].policy /\ c.status = "Approved" /\ c.payout = amount
      BY <1>1, <3>1 DEF Claim
    <3>3. t = [s EXCEPT !.claims = [s.claims EXCEPT ![id] = c]]
      BY <2>2, <3>1, <1>1 DEF IsCore
    <3> QED
      BY <3>2, <3>3
  <2> QED
    BY <2>1, <2>2 DEF Decision
<1>3. PICK cs : cs = [s.claims EXCEPT ![id] = c]
  OBVIOUS
<1>4. /\ cs \in Seq(Claim) /\ Len(cs) = Len(s.claims)
      /\ \A i \in DOMAIN cs : cs[i].policy = s.claims[i].policy /\ i \in DOMAIN s.claims
  BY <1>1, <1>2, <1>3
<1>5. /\ t.pool = s.pool /\ t.policies = s.policies /\ t.claims = cs
      /\ t = [pool |-> t.pool, policies |-> t.policies, claims |-> t.claims,
              treaties |-> t.treaties, lastPaid |-> t.lastPaid]
  BY <1>2, <1>3 DEF IsCore
<1>6. IsCore(t)
  BY <1>4, <1>5 DEF IsCore
<1>7. Settles(s, t)
  BY <1>4, <1>5, <1>6 DEF Settles, Settled, IsCore
<1>8. \A i \in DOMAIN s.claims : cs[i] = IF i = id THEN c ELSE s.claims[i]
  BY ONLY <1>3
<1>9. Touches(s, t, id)
  BY ONLY <1>2, <1>5, <1>8 DEF Touches
<1> QED
  BY ONLY <1>2, <1>5, <1>7, <1>8, <1>9, id \in DOMAIN s.claims

(* A payout settles the claim's policy or leaves its status.                 *)
LEMMA PaidSettles ==
  ASSUME NEW s, IsCore(s), now \in Nat, NEW id \in DOMAIN s.claims, NEW amount \in Int
  PROVE  Settles(s, Paid(s, id, amount)) /\ Pays(s, Paid(s, id, amount), id, amount)
<1>1. PICK p : p = s.claims[id].policy
  OBVIOUS
<1>2. /\ s.claims \in Seq(Claim) /\ id \in 1 .. Len(s.claims) /\ s.claims[id] \in Claim
      /\ s.policies \in Seq(InsurancePolicy) /\ p \in 1 .. Len(s.policies)
      /\ s.policies[p] \in InsurancePolicy /\ s.pool \in Pool
  BY <1>1 DEF IsCore
<1>3. PICK q : q = [s.policies[p] EXCEPT
                      !.claimed = s.policies[p].claimed + amount,
                      !.status = IF s.policies[p].claimed + amount >= s.policies[p].coverage
                                 THEN "Claimed" ELSE s.policies[p].status]
  OBVIOUS
<1>4. PICK l : l = [s.pool EXCEPT !.available = s.pool.available - amount, !.paid = s.pool.paid + amount]
  OBVIOUS
<1>5. PICK c : c = [s.claims[id] EXCEPT !.status = "Paid"]
  OBVIOUS
<1>6. /\ q \in InsurancePolicy /\ q.holder = s.policies[p].holder
      /\ q.status \in {s.policies[p].status, "Claimed"}
  <2>0. s.policies[p].claimed \in Int
    BY ONLY <1>2 DEF InsurancePolicy
  <2>1. PICK n \in Int : n = s.policies[p].claimed + amount
    BY ONLY <2>0, amount \in Int
  <2>2. PICK st \in {s.policies[p].status, "Claimed"} :
          st = IF n >= s.policies[p].coverage THEN "Claimed" ELSE s.policies[p].status
    OBVIOUS
  <2>3. q = [s.policies[p] EXCEPT !.claimed = n, !.status = st]
    BY <1>3, <2>1, <2>2
  <2>4. s.policies[p].status \in PolicyStatuses /\ st \in PolicyStatuses
    BY <1>2, <2>2 DEF InsurancePolicy, PolicyStatuses
  <2> QED
    BY ONLY <1>2, <2>1, <2>2, <2>3, <2>4 DEF InsurancePolicy
<1>7. l \in Pool /\ l.active = s.pool.active
  <2>0. s.pool.available \in Int /\ s.pool.paid \in Int
    BY ONLY <1>2 DEF Pool
  <2>1. PICK m \in Int, n \in Int : m = s.pool.available - amount /\ n = s.pool.paid + amount
    BY ONLY <2>0, amount \in Int
  <2>2. l = [s.pool EXCEPT !.available = m, !.paid = n]
    BY <1>4, <2>1
  <2> QED
    BY ONLY <1>2, <2>1, <2>2 DEF Pool
<1>8. c \in Claim /\ c.policy = s.claims[id].policy
  BY <1>2, <1>5 DEF Claim
<1>9. PICK qs, cs : qs = [s.policies EXCEPT ![p] = q] /\ cs = [s.claims EXCEPT ![id] = c]
  OBVIOUS
<1>10. /\ qs \in Seq(InsurancePolicy) /\ Len(qs) = Len(s.policies)
       /\ \A i \in 1 .. Len(qs) : qs[i] = IF i = p THEN q ELSE s.policies[i]
  BY <1>2, <1>6, <1>9
<1>11. /\ cs \in Seq(Claim) /\ Len(cs) = Len(s.claims)
       /\ \A i \in 1 .. Len(cs) : cs[i].policy = s.claims[i].policy
  BY <1>2, <1>8, <1>9
<1>12. Paid(s, id, amount) = [pool |-> l, policies |-> qs, claims |-> cs,
                              treaties |-> s.treaties, lastPaid |-> now]
  <2>1. PICK st : st = IF s.policies[p].claimed + amount >= s.policies[p].coverage
                       THEN "Claimed" ELSE s.policies[p].status
    OBVIOUS
  <2>2. PICK s1 : s1 = [s EXCEPT !.pool.available = @ - amount]
    OBVIOUS
  <2>3. PICK s2 : s2 = [s1 EXCEPT !.pool.paid = @ + amount]
    OBVIOUS
  <2>4. PICK s3 : s3 = [s2 EXCEPT !.policies[p].claimed = @ + amount]
    OBVIOUS
  <2>5. PICK s4 : s4 = [s3 EXCEPT !.policies[p].status =
                          IF s.policies[p].claimed + amount >= s.policies[p].coverage
                          THEN "Claimed" ELSE @]
    OBVIOUS
  <2>6. PICK s5 : s5 = [s4 EXCEPT !.lastPaid = now]
    OBVIOUS
  <2>7. PICK s6 : s6 = [s5 EXCEPT !.claims[id].status = "Paid"]
    OBVIOUS
  <2>8. Paid(s, id, amount) = s6
    <3>1. Paid(s, id, amount) =
            [s EXCEPT !.pool.available = @ - amount, !.pool.paid = @ + amount,
                      !.policies[p].claimed = @ + amount,
                      !.policies[p].status =
                        IF s.policies[p].claimed + amount >= s.policies[p].coverage
                        THEN "Claimed" ELSE @,
                      !.lastPaid = now, !.claims[id].status = "Paid"]
      BY ONLY <1>1 DEF Paid
    <3>2. s2 = [s EXCEPT !.pool.available = @ - amount, !.pool.paid = @ + amount]
      BY ONLY <2>2, <2>3
    <3>3. s3 = [s EXCEPT !.pool.available = @ - amount, !.pool.paid = @ + amount,
                         !.policies[p].claimed = @ + amount]
      BY ONLY <2>4, <3>2
    <3>4. s4 = [s EXCEPT !.pool.available = @ - amount, !.pool.paid = @ + amount,
                         !.policies[p].claimed = @ + amount,
                         !.policies[p].status =
                           IF s.policies[p].claimed + amount >= s.policies[p].coverage
                           THEN "Claimed" ELSE @]
      BY ONLY <2>5, <3>3
    <3>5. s6 = [s4 EXCEPT !.lastPaid = now, !.claims[id].status = "Paid"]
      BY ONLY <2>6, <2>7
    <3> QED
      BY ONLY <3>1, <3>4, <3>5
  <2>9. s2 = [pool |-> l, policies |-> s.policies, claims |-> s.claims,
              treaties |-> s.treaties, lastPaid |-> s.lastPaid]
    <3>1. s1 = [pool |-> [s.pool EXCEPT !.available = s.pool.available - amount],
                policies |-> s.policies, claims |-> s.claims,
                treaties |-> s.treaties, lastPaid |-> s.lastPaid]
      BY <2>2 DEF IsCore
    <3> QED
      BY <2>3, <3>1, <1>2, <1>4 DEF Pool
  <2>10. PICK q1 : q1 = [s.policies[p] EXCEPT !.claimed = s.policies[p].claimed + amount]
    OBVIOUS
  <2>11. PICK ps : ps = [s.policies EXCEPT ![p] = q1]
    OBVIOUS
  <2>12. s3 = [pool |-> l, policies |-> ps, claims |-> s.claims,
               treaties |-> s.treaties, lastPaid |-> s.lastPaid]
    BY ONLY <2>4, <2>9, <2>10, <2>11
  <2>13. s4 = [pool |-> l, policies |-> qs, claims |-> s.claims,
               treaties |-> s.treaties, lastPaid |-> s.lastPaid]
    <3>1. ps[p] = q1 /\ q1.status = s.policies[p].status /\ q = [q1 EXCEPT !.status = st]
      BY ONLY <1>2, <1>3, <2>1, <2>10, <2>11 DEF InsurancePolicy
    <3>2. qs = [ps EXCEPT ![p] = q]
      BY ONLY <1>2, <1>9, <2>11
    <3>3. s4 = [s3 EXCEPT !.policies[p].status = st]
      BY ONLY <2>1, <2>5, <2>12, <3>1
    <3> QED
      BY ONLY <2>12, <3>1, <3>2, <3>3
  <2>14. s5 = [pool |-> l, policies |-> qs, claims |-> s.claims,
               treaties |-> s.treaties, lastPaid |-> now]
    BY ONLY <2>6, <2>13
  <2> QED
    BY <1>5, <1>9, <2>7, <2>8, <2>14
<1>13. PICK t : t = Paid(s, id, amount)
  OBVIOUS
<1>14. /\ t.pool = l /\ t.policies = qs /\ t.claims = cs
       /\ t = [pool |-> t.pool, policies |-> t.policies, claims |-> t.claims,
               treaties |-> t.treaties, lastPaid |-> t.lastPaid]
  BY <1>12, <1>13
<1>15. IsCore(t)
  <2>1. DOMAIN t.claims = 1 .. Len(cs) /\ DOMAIN t.policies = 1 .. Len(qs)
    BY <1>10, <1>11, <1>14
  <2>2. ASSUME NEW i \in 1 .. Len(cs) PROVE t.claims[i].policy \in 1 .. Len(qs)
    <3>1. cs[i].policy = s.claims[i].policy /\ Len(qs) = Len(s.policies) /\ i \in DOMAIN s.claims
      BY ONLY <1>2, <1>10, <1>11, <2>2
    <3>2. s.claims[i].policy \in DOMAIN s.policies /\ DOMAIN s.policies = 1 .. Len(s.policies)
      BY ONLY <1>2, <3>1, IsCore(s) DEF IsCore
    <3>3. t.claims = cs
      BY <1>14
    <3> QED
      BY ONLY <3>1, <3>2, <3>3
  <2> QED
    BY <1>7, <1>10, <1>11, <1>14, <2>1, <2>2 DEF IsCore
<1>16. Settled(s.policies, qs)
  BY <1>2, <1>6, <1>10 DEF Settled
<1>17. Settles(s, t)
  BY <1>7, <1>11, <1>14, <1>15, <1>16 DEF Settles
<1>18. /\ q.claimed = s.policies[p].claimed + amount /\ l.paid = s.pool.paid + amount
       /\ c.status = "Paid" /\ c.payout = s.claims[id].payout
  BY ONLY <1>2, <1>3, <1>4, <1>5 DEF InsurancePolicy, Pool, Claim
<1>19. \A i \in DOMAIN s.policies :
         qs[i].claimed = s.policies[i].claimed + (IF i = p THEN amount ELSE 0)
  <2>1. ASSUME NEW i \in DOMAIN s.policies, i # p
        PROVE  s.policies[i].claimed = s.policies[i].claimed + 0
    <3>1. s.policies[i] \in InsurancePolicy
      BY ONLY <1>2, <2>1
    <3>2. s.policies[i].claimed \in Int
      BY ONLY <3>1 DEF InsurancePolicy
    <3> QED
      BY ONLY <3>2
  <2>2. DOMAIN s.policies = 1 .. Len(qs)
    BY ONLY <1>2, <1>10
  <2> QED
    BY ONLY <1>10, <1>18, <2>1, <2>2
<1>20. \A i \in DOMAIN s.claims : cs[i] = IF i = id THEN c ELSE s.claims[i]
  BY ONLY <1>9
<1>21. Touches(s, t, id)
  BY ONLY <1>8, <1>14, <1>20 DEF Touches
<1>22. Pays(s, t, id, amount)
  BY ONLY <1>1, <1>14, <1>18, <1>19, <1>20, <1>21, id \in DOMAIN s.claims DEF Pays
<1> QED
  BY <1>13, <1>17, <1>22

(* What a claim is worth is an amount.                                       *)
LEMMA PayoutIs ==
  ASSUME NEW s, IsCore(s), NEW id \in DOMAIN s.claims
  PROVE  PayoutOf(s, id) \in Int
<1>1. s.claims[id] \in Claim /\ s.claims[id].policy \in DOMAIN s.policies
  BY DEF IsCore
<1>2. s.policies[s.claims[id].policy] \in InsurancePolicy
  BY <1>1 DEF IsCore
<1>3. s.claims[id].amount \in Int /\ s.policies[s.claims[id].policy].deductible \in Int
  BY ONLY <1>1, <1>2 DEF Claim, InsurancePolicy
<1> QED
  BY ONLY <1>3 DEF PayoutOf, Monus

\* A decision of the claim, which pays what the claim was awarded or nothing.
PaidNow(s, t, id) == Open(s, id) /\ t.claims[id].status = "Paid"
PaidFor(s, t, id) == IF PaidNow(s, t, id) THEN t.claims[id].payout ELSE 0
Decides(s, t, id) ==
  /\ Settles(s, t) /\ Touches(s, t, id)
  /\ ~Open(s, id) => t.claims[id] = s.claims[id]
  /\ t.pool.paid = s.pool.paid + PaidFor(s, t, id)
  /\ \A p \in DOMAIN s.policies :
       t.policies[p].claimed = s.policies[p].claimed
                                 + (IF p = s.claims[id].policy THEN PaidFor(s, t, id) ELSE 0)

LEMMA CoreTypes ==
  ASSUME NEW s, IsCore(s)
  PROVE  /\ s.pool.paid \in Int /\ \A p \in DOMAIN s.policies : s.policies[p].claimed \in Int
         /\ \A c \in DOMAIN s.claims : s.claims[c].payout \in Int
<1>1. s.pool \in Pool /\ s.policies \in Seq(InsurancePolicy) /\ s.claims \in Seq(Claim)
  BY DEF IsCore
<1>2. /\ \A p \in DOMAIN s.policies : s.policies[p] \in InsurancePolicy
      /\ \A c \in DOMAIN s.claims : s.claims[c] \in Claim
  BY ONLY <1>1
<1> QED
  BY ONLY <1>1, <1>2 DEF Pool, InsurancePolicy, Claim

(* A decision without a payout.                                              *)
LEMMA UnpaidDecides ==
  ASSUME NEW s, IsCore(s), NEW t, NEW id, Settles(s, t), Touches(s, t, id),
         ~Open(s, id) => t.claims[id] = s.claims[id], ~PaidNow(s, t, id),
         t.pool.paid = s.pool.paid,
         \A p \in DOMAIN s.policies : t.policies[p].claimed = s.policies[p].claimed
  PROVE  Decides(s, t, id)
  BY CoreTypes DEF Decides, PaidFor

(* A claim that is approved, and paid or not, at most settles its policy.   *)
LEMMA ApproveDecides ==
  ASSUME NEW s, IsCore(s), now \in Nat, NEW id \in DOMAIN s.claims
  PROVE  Decides(s, Approve(s, id), id)
<1>1. PICK amount \in Int : amount = PayoutOf(s, id)
  BY PayoutIs
<1>2. PICK a : a = [s EXCEPT !.claims[id].status = "Approved", !.claims[id].payout = amount]
  OBVIOUS
<1>3. /\ Settles(s, a) /\ a.pool = s.pool /\ a.policies = s.policies /\ Touches(s, a, id)
      /\ a.claims[id].status \in {"Approved", "Rejected"}
  <2>1. Decision(s, a, id, amount)
    BY ONLY <1>2 DEF Decision
  <2> QED
    BY ONLY <2>1, IsCore(s), id \in DOMAIN s.claims, amount \in Int, DecidedSettles
<1>4. PICK r : r = Recovered(a, amount)
  OBVIOUS
<1>5. Settles(a, r) /\ r.pool = a.pool /\ r.policies = a.policies /\ r.claims = a.claims
  BY <1>3, <1>4, RecoveredSettles DEF Settles
<1>6. IsCore(a) /\ IsCore(r) /\ id \in DOMAIN r.claims /\ DOMAIN r.claims = DOMAIN s.claims
  <2>1. IsCore(a) /\ IsCore(r) /\ Len(r.claims) = Len(s.claims)
    BY <1>3, <1>5 DEF Settles
  <2> QED
    BY <2>1 DEF IsCore
<1>7. PICK u : u = Paid(r, id, amount)
  OBVIOUS
<1>8. Settles(r, u) /\ Pays(r, u, id, amount)
  BY <1>6, <1>7, PaidSettles
<1>9. Settles(s, r) /\ Settles(s, u) /\ Settles(s, s)
  BY <1>3, <1>5, <1>6, <1>8, SettlesOn, SettlesItself
<1>10. CASE ~Open(s, id)
  <2>1. Approve(s, id) = s
    BY <1>10 DEF Approve
  <2> QED
    BY <1>9, <1>10, <2>1, UnpaidDecides DEF Touches, PaidNow
<1>11. CASE Open(s, id) /\ Approve(s, id) \in {a, r}
  <2>1. PICK t \in {a, r} : t = Approve(s, id)
    BY <1>11
  <2>2. /\ Settles(s, t) /\ t.pool = s.pool /\ t.policies = s.policies /\ Touches(s, t, id)
        /\ t.claims[id].status # "Paid"
    BY <1>3, <1>5, <1>9, <2>1 DEF Touches
  <2>3. Decides(s, t, id)
    BY <1>11, <2>2, UnpaidDecides DEF PaidNow
  <2> QED
    BY <2>1, <2>3
<1>12. CASE Open(s, id) /\ Approve(s, id) = u
  <2>1. a.claims[id].payout = amount
    <3>1. s.claims \in Seq(Claim) /\ id \in DOMAIN s.claims /\ s.claims[id] \in Claim
      BY DEF IsCore
    <3>2. a.claims[id] = [s.claims[id] EXCEPT !.status = "Approved", !.payout = amount]
      BY ONLY <1>2, <3>1, IsCore(s) DEF IsCore
    <3> QED
      BY ONLY <3>1, <3>2 DEF Claim
  <2>2. /\ u.claims[id].status = "Paid" /\ u.claims[id].payout = amount
    BY <1>5, <1>8, <2>1 DEF Pays
  <2>3. PaidFor(s, u, id) = amount
    BY <1>12, <2>2 DEF PaidFor, PaidNow
  <2>4. Touches(s, u, id)
    BY ONLY <1>3, <1>5, <1>6, <1>8 DEF Touches, Pays
  <2>5. r.pool = s.pool /\ r.policies = s.policies /\ r.claims[id].policy = s.claims[id].policy
    BY <1>3, <1>5 DEF Touches
  <2> QED
    BY ONLY <1>8, <1>9, <1>12, <2>3, <2>4, <2>5 DEF Decides, Pays
<1> QED
  BY <1>1, <1>2, <1>4, <1>7, <1>10, <1>11, <1>12 DEF Approve

LEMMA RejectDecides ==
  ASSUME NEW s, IsCore(s), NEW id \in DOMAIN s.claims
  PROVE  Decides(s, Reject(s, id), id)
<1>1. PICK t : t = [s EXCEPT !.claims[id].status = "Rejected"]
  OBVIOUS
<1>2. /\ Settles(s, t) /\ t.pool = s.pool /\ t.policies = s.policies /\ Touches(s, t, id)
      /\ t.claims[id].status # "Paid"
  <2>1. Decision(s, t, id, 0)
    BY ONLY <1>1 DEF Decision
  <2>2. 0 \in Int
    OBVIOUS
  <2>3. /\ Settles(s, t) /\ t.pool = s.pool /\ t.policies = s.policies /\ Touches(s, t, id)
        /\ t.claims[id].status \in {"Approved", "Rejected"}
    BY ONLY <2>1, <2>2, IsCore(s), id \in DOMAIN s.claims, DecidedSettles
  <2> QED
    BY ONLY <2>3
<1>3. CASE Open(s, id)
  <2>1. Reject(s, id) = t
    BY <1>1, <1>3 DEF Reject
  <2> QED
    BY <1>2, <1>3, <2>1, UnpaidDecides DEF PaidNow
<1>4. CASE ~Open(s, id)
  <2>1. Reject(s, id) = s
    BY <1>4 DEF Reject
  <2> QED
    BY <1>4, <2>1, SettlesItself, UnpaidDecides DEF PaidNow, Touches
<1> QED
  BY <1>3, <1>4

-----------------------------------------------------------------------------
(* What is paid between two states, by any number of decisions.              *)

\* What the claims were awarded.
AwardsIn(t, ids) == SumFunctionOnSet([c \in DOMAIN t.claims |-> t.claims[c].payout], ids)

\* The claims on the policies ps that were paid between s and t.
NewlyPaid(s, t, ps) ==
  {c \in DOMAIN t.claims : /\ t.claims[c].policy \in ps /\ t.claims[c].status = "Paid"
                           /\ c \in DOMAIN s.claims => Open(s, c)}

\* Between s and t each policy and the pool count what the claims paid were
\* awarded, and what was decided stays as it is.
Awards(s, t) ==
  /\ DOMAIN s.claims \subseteq DOMAIN t.claims /\ DOMAIN t.policies = DOMAIN s.policies
  /\ \A c \in DOMAIN s.claims : /\ t.claims[c].policy = s.claims[c].policy
                                /\ ~Open(s, c) => t.claims[c] = s.claims[c]
  /\ \A p \in DOMAIN s.policies :
       t.policies[p].claimed = s.policies[p].claimed + AwardsIn(t, NewlyPaid(s, t, {p}))
  /\ t.pool.paid = s.pool.paid + AwardsIn(t, NewlyPaid(s, t, DOMAIN s.policies))

LEMMA AwardsType ==
  ASSUME NEW t, IsCore(t), NEW ids \in SUBSET DOMAIN t.claims
  PROVE  AwardsIn(t, ids) \in Int /\ IsFiniteSet(ids)
<1>1. PICK f : f = [c \in DOMAIN t.claims |-> t.claims[c].payout]
  OBVIOUS
<1>2. IsFiniteSet(ids)
  <2>1. DOMAIN t.claims = 1 .. Len(t.claims) /\ Len(t.claims) \in Nat
    BY DEF IsCore
  <2>2. IsFiniteSet(1 .. Len(t.claims))
    BY ONLY <2>1, FS_Interval
  <2> QED
    BY <2>1, <2>2, FS_Subset
<1>3. \A c \in ids : f[c] \in Int
  BY <1>1, CoreTypes
<1>4. SumFunctionOnSet(f, ids) \in Int
  BY ONLY <1>2, <1>3, SumType
<1> QED
  BY <1>1, <1>2, <1>4 DEF AwardsIn

(* Nothing is paid between a state and itself, or one with another open claim. *)
LEMMA AwardsNothing ==
  ASSUME NEW s, IsCore(s), NEW t, t.policies = s.policies, t.pool = s.pool,
         DOMAIN s.claims \subseteq DOMAIN t.claims,
         \A c \in DOMAIN s.claims : t.claims[c] = s.claims[c],
         \A c \in DOMAIN t.claims \ DOMAIN s.claims : t.claims[c].status = "Pending"
  PROVE  Awards(s, t)
<1>1. ASSUME NEW ps PROVE AwardsIn(t, NewlyPaid(s, t, ps)) = 0
  <2>1. NewlyPaid(s, t, ps) = {}
    BY DEF NewlyPaid, Open
  <2> QED
    BY <2>1, SumEmpty DEF AwardsIn
<1> QED
  BY <1>1, CoreTypes DEF Awards

(* A further decision adds what it pays.                                     *)
LEMMA AwardsGrow ==
  ASSUME NEW s, NEW t, NEW u, IsCore(t), IsCore(u), DOMAIN u.claims = DOMAIN t.claims, Awards(s, t),
         NEW id \in DOMAIN t.claims, Decides(t, u, id), NEW ps
  PROVE  AwardsIn(u, NewlyPaid(s, u, ps))
           = AwardsIn(t, NewlyPaid(s, t, ps))
               + (IF t.claims[id].policy \in ps THEN PaidFor(t, u, id) ELSE 0)
<1>1. PICK S, R : S = NewlyPaid(s, t, ps) /\ R = NewlyPaid(s, u, ps)
  OBVIOUS
<1>2. PICK f, g : /\ f = [c \in DOMAIN t.claims |-> t.claims[c].payout]
                  /\ g = [c \in DOMAIN t.claims |-> u.claims[c].payout]
  OBVIOUS
<1>3. /\ AwardsIn(t, NewlyPaid(s, t, ps)) = SumFunctionOnSet(f, S)
      /\ AwardsIn(u, NewlyPaid(s, u, ps)) = SumFunctionOnSet(g, R)
  BY ONLY <1>1, <1>2, DOMAIN u.claims = DOMAIN t.claims DEF AwardsIn
<1>4. /\ S \in SUBSET DOMAIN t.claims /\ IsFiniteSet(S) /\ SumFunctionOnSet(f, S) \in Int
  BY <1>1, <1>3, AwardsType DEF NewlyPaid
<1>5. \A c \in DOMAIN t.claims : /\ f[c] = t.claims[c].payout /\ f[c] \in Int
                                 /\ g[c] = u.claims[c].payout /\ g[c] \in Int
  BY <1>2, CoreTypes
<1>6. \A c \in DOMAIN t.claims : c # id => f[c] = g[c] /\ (c \in S <=> c \in R)
  BY <1>1, <1>5 DEF Decides, Touches, NewlyPaid
<1>7. u.claims[id].policy = t.claims[id].policy
  BY DEF Decides, Touches
<1>8. R \subseteq DOMAIN t.claims
  BY <1>1 DEF NewlyPaid
<1>9. id \in DOMAIN s.claims /\ Open(t, id) => Open(s, id)
  BY DEF Awards, Open
<1>10. CASE PaidNow(t, u, id) /\ t.claims[id].policy \in ps
  <2>1. id \notin S /\ id \in R
    BY <1>1, <1>7, <1>9, <1>10 DEF NewlyPaid, PaidNow, Open
  <2>2. R = S \cup {id}
    BY <1>4, <1>6, <1>8, <2>1
  <2>3. /\ g[id] \in Int /\ \A c \in S : g[c] \in Int /\ f[c] = g[c]
    BY <1>4, <1>5, <1>6, <2>1
  <2>4. SumFunctionOnSet(g, S \cup {id}) = g[id] + SumFunctionOnSet(g, S)
    BY ONLY <1>4, <2>1, <2>3, SumAdd
  <2>5. SumFunctionOnSet(f, S) = SumFunctionOnSet(g, S)
    BY ONLY <1>4, <2>3, SumAgrees
  <2>6. PaidFor(t, u, id) = g[id]
    BY <1>5, <1>10 DEF PaidFor
  <2> QED
    BY <1>3, <1>4, <1>10, <2>2, <2>3, <2>4, <2>5, <2>6
<1>11. CASE ~(PaidNow(t, u, id) /\ t.claims[id].policy \in ps)
  <2>1. (id \in S <=> id \in R) /\ (id \in S => f[id] = g[id])
    <3>1. CASE t.claims[id].policy \notin ps
      BY <1>1, <1>7, <3>1 DEF NewlyPaid
    <3>2. CASE ~PaidNow(t, u, id) /\ ~Open(t, id)
      <4>1. u.claims[id] = t.claims[id]
        BY <3>2 DEF Decides
      <4> QED
        BY <1>1, <1>5, <4>1 DEF NewlyPaid
    <3>3. CASE ~PaidNow(t, u, id) /\ Open(t, id)
      BY <1>1, <3>3 DEF NewlyPaid, PaidNow, Open
    <3> QED
      BY <1>11, <3>1, <3>2, <3>3
  <2>2. R = S /\ \A c \in S : f[c] = g[c]
    BY <1>4, <1>6, <1>8, <2>1
  <2>3. SumFunctionOnSet(f, S) = SumFunctionOnSet(g, S)
    BY ONLY <1>4, <2>2, SumAgrees
  <2>4. (IF t.claims[id].policy \in ps THEN PaidFor(t, u, id) ELSE 0) = 0
    BY <1>11 DEF PaidFor
  <2> QED
    BY <1>3, <1>4, <2>2, <2>3, <2>4
<1> QED
  BY <1>10, <1>11

LEMMA AwardsOn ==
  ASSUME NEW s, NEW t, NEW u, IsCore(s), IsCore(t), Awards(s, t),
         NEW id \in DOMAIN t.claims, Decides(t, u, id)
  PROVE  Awards(s, u)
<1>1. /\ IsCore(u) /\ DOMAIN u.claims = DOMAIN t.claims /\ DOMAIN u.policies = DOMAIN t.policies
  <2>1. /\ IsCore(u) /\ Len(u.claims) = Len(t.claims) /\ Len(u.policies) = Len(t.policies)
    BY DEF Decides, Settles, Settled
  <2> QED
    BY <2>1 DEF IsCore
<1>2. PICK more : more = PaidFor(t, u, id)
  OBVIOUS
<1>3. more \in Int
  <2>1. u.claims[id].payout \in Int
    BY <1>1, CoreTypes
  <2> QED
    BY <1>2, <2>1 DEF PaidFor
<1>4. ASSUME NEW ps
      PROVE  /\ AwardsIn(t, NewlyPaid(s, t, ps)) \in Int
             /\ AwardsIn(u, NewlyPaid(s, u, ps))
                  = AwardsIn(t, NewlyPaid(s, t, ps)) + (IF t.claims[id].policy \in ps THEN more ELSE 0)
  <2>1. NewlyPaid(s, t, ps) \in SUBSET DOMAIN t.claims
    BY DEF NewlyPaid
  <2> QED
    BY <1>1, <1>2, <2>1, AwardsGrow, AwardsType
<1>5. ASSUME NEW p \in DOMAIN s.policies
      PROVE  u.policies[p].claimed = s.policies[p].claimed + AwardsIn(u, NewlyPaid(s, u, {p}))
  <2>1. p \in DOMAIN t.policies
    BY <1>5 DEF Awards
  <2>2. u.policies[p].claimed = t.policies[p].claimed + (IF p = t.claims[id].policy THEN more ELSE 0)
    BY <1>2, <2>1 DEF Decides
  <2>3. t.policies[p].claimed = s.policies[p].claimed + AwardsIn(t, NewlyPaid(s, t, {p}))
    BY <1>5 DEF Awards
  <2>4. s.policies[p].claimed \in Int
    BY <1>5, CoreTypes
  <2>5. /\ AwardsIn(t, NewlyPaid(s, t, {p})) \in Int
        /\ AwardsIn(u, NewlyPaid(s, u, {p}))
             = AwardsIn(t, NewlyPaid(s, t, {p})) + (IF t.claims[id].policy \in {p} THEN more ELSE 0)
    BY <1>4
  <2> QED
    BY ONLY <1>3, <2>2, <2>3, <2>4, <2>5
<1>6. u.pool.paid = s.pool.paid + AwardsIn(u, NewlyPaid(s, u, DOMAIN s.policies))
  <2>1. t.claims[id].policy \in DOMAIN s.policies
    BY DEF Awards, IsCore
  <2>2. u.pool.paid = t.pool.paid + more
    BY <1>2 DEF Decides
  <2>3. t.pool.paid = s.pool.paid + AwardsIn(t, NewlyPaid(s, t, DOMAIN s.policies))
    BY DEF Awards
  <2>4. s.pool.paid \in Int
    BY CoreTypes
  <2> QED
    BY <1>3, <1>4, <2>1, <2>2, <2>3, <2>4
<1>7. ASSUME NEW c \in DOMAIN s.claims
      PROVE  /\ u.claims[c].policy = s.claims[c].policy
             /\ ~Open(s, c) => u.claims[c] = s.claims[c]
  <2>1. /\ c \in DOMAIN t.claims /\ t.claims[c].policy = s.claims[c].policy
        /\ ~Open(s, c) => t.claims[c] = s.claims[c] /\ ~Open(t, c)
    BY <1>7 DEF Awards, Open
  <2>2. /\ u.claims[c].policy = t.claims[c].policy
        /\ ~Open(t, c) => u.claims[c] = t.claims[c]
    BY <2>1 DEF Decides, Touches
  <2> QED
    BY <2>1, <2>2
<1>8. DOMAIN s.claims \subseteq DOMAIN u.claims /\ DOMAIN u.policies = DOMAIN s.policies
  BY <1>1 DEF Awards
<1> QED
  BY ONLY <1>5, <1>6, <1>7, <1>8 DEF Awards

-----------------------------------------------------------------------------
(* A batch: the state after its items exists, settles policies and pays what *)
(* the claims were awarded.                                                  *)

Decided(s, id, approved) == IF approved THEN Approve(s, id) ELSE Reject(s, id)

IsBatch(f, ids, approved, n) ==
  f = [m \in 0 .. n |-> IF m = 0 THEN Core ELSE Decided(f[m - 1], ids[m], approved)]

LEMMA BatchExists ==
  ASSUME NEW ids, NEW approved, NEW n \in Nat
  PROVE  \E f : IsBatch(f, ids, approved, n)
<1>1. PICK Bad : Bad = {k \in 0 .. n : ~ \E f : IsBatch(f, ids, approved, k)}
  OBVIOUS
<1>2. SUFFICES ASSUME Bad # {} PROVE FALSE
  BY <1>1
<1>3. PICK k \in Bad : \A m \in 0 .. k - 1 : m \notin Bad
  BY <1>1, <1>2, LeastNatural
<1>4. k \in 0 .. n /\ ~ \E f : IsBatch(f, ids, approved, k)
  BY <1>1
<1>5. k # 0
  <2>1. PICK f : f = [m \in 0 .. 0 |-> Core]
    OBVIOUS
  <2>2. f = [m \in 0 .. 0 |-> IF m = 0 THEN Core ELSE Decided(f[m - 1], ids[m], approved)]
    BY ONLY <2>1
  <2> QED
    BY <1>4, <2>2 DEF IsBatch
<1>6. PICK g : IsBatch(g, ids, approved, k - 1)
  <2>1. k - 1 \in 0 .. k - 1 /\ k - 1 \in 0 .. n
    BY <1>4, <1>5
  <2> QED
    BY <1>1, <1>3, <2>1
<1>7. PICK f : f = [m \in 0 .. k |-> IF m = k THEN Decided(g[k - 1], ids[k], approved) ELSE g[m]]
  OBVIOUS
<1>8. ASSUME NEW m \in 0 .. k
      PROVE  f[m] = IF m = 0 THEN Core ELSE Decided(f[m - 1], ids[m], approved)
  <2>1. CASE m = k
    <3>1. f[k] = Decided(g[k - 1], ids[k], approved) /\ f[k - 1] = g[k - 1]
      BY ONLY <1>4, <1>5, <1>7
    <3> QED
      BY ONLY <1>5, <2>1, <3>1
  <2>2. CASE m # k
    <3>1. m \in 0 .. k - 1 /\ (m # 0 => m - 1 \in 0 .. k - 1)
      BY ONLY <1>4, <1>8, <2>2
    <3>2. g[m] = IF m = 0 THEN Core ELSE Decided(g[m - 1], ids[m], approved)
      BY ONLY <1>6, <3>1 DEF IsBatch
    <3>3. f[m] = g[m] /\ (m # 0 => f[m - 1] = g[m - 1])
      BY ONLY <1>4, <1>7, <1>8, <2>2, <3>1
    <3> QED
      BY ONLY <3>2, <3>3
  <2> QED
    BY <2>1, <2>2
<1>9. IsBatch(f, ids, approved, k)
  <2>1. f = [m \in 0 .. k |-> f[m]]
    BY ONLY <1>7
  <2> QED
    BY ONLY <1>8, <2>1 DEF IsBatch
<1> QED
  BY <1>4, <1>9

LEMMA BatchSettles ==
  ASSUME IsCore(Core), now \in Nat, NEW ids \in Seq(DOMAIN claims), NEW approved \in BOOLEAN
  PROVE  Settles(Core, Batch(ids, approved)) /\ Awards(Core, Batch(ids, approved))
<1>1. PICK n \in Nat : n = Len(ids)
  OBVIOUS
<1>2. PICK f : IsBatch(f, ids, approved, n) /\ Batch(ids, approved) = f[n]
  <2>1. \E f : IsBatch(f, ids, approved, n)
    BY BatchExists
  <2> DEFINE after == CHOOSE f : IsBatch(f, ids, approved, n)
  <2>2. IsBatch(after, ids, approved, n)
    BY <2>1
  <2>3. Batch(ids, approved) = after[n]
    BY ONLY <1>1 DEF Batch, IsBatch, Decided
  <2> QED
    BY <2>2, <2>3
<1>3. PICK Bad : Bad = {k \in 0 .. n : ~ (Settles(Core, f[k]) /\ Awards(Core, f[k]))}
  OBVIOUS
<1>4. SUFFICES ASSUME Bad # {} PROVE FALSE
  <2>1. n \in 0 .. n
    OBVIOUS
  <2> QED
    BY <1>2, <1>3, <2>1
<1>5. PICK k \in Bad : \A m \in 0 .. k - 1 : m \notin Bad
  BY <1>3, <1>4, LeastNatural
<1>6. k \in 0 .. n /\ ~ (Settles(Core, f[k]) /\ Awards(Core, f[k]))
  BY <1>3
<1>7. f[k] = IF k = 0 THEN Core ELSE Decided(f[k - 1], ids[k], approved)
  BY <1>2, <1>6 DEF IsBatch
<1>8. k # 0
  <2>1. Settles(Core, Core) /\ Awards(Core, Core)
    BY SettlesItself, AwardsNothing
  <2> QED
    BY <1>6, <1>7, <2>1
<1>9. PICK s : s = f[k - 1]
  OBVIOUS
<1>10. Settles(Core, s) /\ Awards(Core, s)
  <2>1. k - 1 \in 0 .. k - 1 /\ k - 1 \in 0 .. n
    BY <1>6, <1>8
  <2> QED
    BY <1>3, <1>5, <1>9, <2>1
<1>11. IsCore(s) /\ ids[k] \in DOMAIN s.claims
  <2>1. ids[k] \in DOMAIN claims
    BY <1>1, <1>6, <1>8
  <2>2. IsCore(s) /\ Len(s.claims) = Len(claims)
    BY <1>10 DEF Settles, Core
  <2>3. claims \in Seq(Claim) /\ s.claims \in Seq(Claim)
    BY <2>2 DEF IsCore, Core
  <2> QED
    BY <2>1, <2>2, <2>3
<1>12. Decides(s, f[k], ids[k])
  BY <1>7, <1>8, <1>9, <1>11, ApproveDecides, RejectDecides DEF Decided
<1>13. Settles(Core, f[k])
  BY <1>10, <1>12, SettlesOn DEF Decides
<1>14. Awards(Core, f[k])
  BY <1>10, <1>11, <1>12, AwardsOn
<1> QED
  BY <1>6, <1>13, <1>14

-----------------------------------------------------------------------------
(* Each operation keeps the policies' books.                                 *)

LEMMA PolicyTypes ==
  ASSUME PolicyInv
  PROVE  /\ pool \in Pool /\ policies \in Seq(InsurancePolicy) /\ claims \in Seq(Claim)
         /\ \A c \in DOMAIN claims : claims[c].policy \in DOMAIN policies
         /\ Len(policies) \in Nat /\ DOMAIN policies = 1 .. Len(policies)
         /\ Len(tokens) = Len(policies) /\ Len(claims) \in Nat /\ DOMAIN claims = 1 .. Len(claims)
  BY DEF PolicyInv, IsCore, Core, Follows

(* A payout, or several.                                                     *)
LEMMA BecomesInv ==
  ASSUME PolicyInv, now' = now, NEW t, IsCore(t), t.pool.active = pool.active,
         Settled(policies, t.policies), Becomes(t)
  PROVE  PolicyInv'
<1>1. /\ pool' = t.pool /\ policies' = t.policies /\ claims' = t.claims
      /\ treaties' = t.treaties /\ lastPaid' = t.lastPaid
      /\ assessment' = assessment /\ tokens' = tokens
  BY DEF Becomes, policyVars, limitVars
<1>2. IsCore(Core)'
  BY <1>1 DEF IsCore, Core
<1>3. Follows(tokens, policies)'
  BY <1>1 DEF PolicyInv, Follows, Settled
<1>4. Counts(policies, pool.active)'
  <2>1. pool.active \in Nat
    BY PolicyTypes DEF Pool
  <2>2. Counts(policies, pool.active) /\ policies \in Seq(InsurancePolicy)
        /\ t.policies \in Seq(InsurancePolicy)
    BY PolicyTypes DEF PolicyInv, IsCore
  <2>3. Counts(t.policies, pool.active)
    BY ONLY <2>1, <2>2, Settled(policies, t.policies), SettledCounts
  <2> QED
    BY <1>1, <2>3 DEF Counts, HavingIn
<1> QED
  BY <1>1, <1>2, <1>3, <1>4 DEF PolicyInv

LEMMA ProcessClaimInv ==
  ASSUME PolicyInv, now' = now, NEW id \in DOMAIN claims, NEW approved \in BOOLEAN,
         ProcessClaim(id, approved)
  PROVE  PolicyInv'
<1>1. PICK t : t = IF approved THEN Approve(Core, id) ELSE Reject(Core, id)
  OBVIOUS
<1>2. Settles(Core, t)
  <2>1. IsCore(Core) /\ now \in Nat /\ id \in DOMAIN Core.claims
    BY DEF PolicyInv, Core
  <2> QED
    BY <1>1, <2>1, ApproveDecides, RejectDecides DEF Decides
<1>3. Becomes(t)
  BY <1>1 DEF ProcessClaim
<1> QED
  BY <1>2, <1>3, BecomesInv DEF Settles, Core

LEMMA BatchClaimsInv ==
  ASSUME PolicyInv, now' = now, NEW ids \in SeqOf(DOMAIN claims, MaxClaims),
         NEW approved \in BOOLEAN, BatchClaims(ids, approved)
  PROVE  PolicyInv'
<1>1. ids \in Seq(DOMAIN claims)
  BY DEF SeqOf
<1>2. PICK t : t = Batch(ids, approved)
  OBVIOUS
<1>3. Settles(Core, t)
  BY <1>1, <1>2, BatchSettles DEF PolicyInv
<1>4. Becomes(t)
  BY <1>2 DEF BatchClaims
<1> QED
  BY <1>3, <1>4, BecomesInv DEF Settles, Core

(* A claim that is filed.                                                    *)
LEMMA FiledIs ==
  ASSUME PolicyInv, NEW u \in Users, NEW id \in DOMAIN policies, NEW amount \in Int
  PROVE  /\ Append(claims, NewClaim(u, id, amount)) \in Seq(Claim)
         /\ Len(Append(claims, NewClaim(u, id, amount))) = Len(claims) + 1
         /\ \A c \in DOMAIN Append(claims, NewClaim(u, id, amount)) :
              Append(claims, NewClaim(u, id, amount))[c].policy \in DOMAIN policies
<1>1. NewClaim(u, id, amount) \in Claim /\ NewClaim(u, id, amount).policy = id
  BY PolicyTypes DEF NewClaim, Claim
<1>2. PICK c : c = NewClaim(u, id, amount)
  OBVIOUS
<1> QED
  BY <1>1, <1>2, PolicyTypes

LEMMA SubmitParametricClaimInv ==
  ASSUME PolicyInv, now' = now, NEW u \in Users, NEW id \in DOMAIN policies,
         NEW amount \in Int, NEW type, SubmitParametricClaim(u, id, amount, type)
  PROVE  PolicyInv'
<1>1. PICK cs : cs = Append(claims, NewClaim(u, id, amount))
  OBVIOUS
<1>2. /\ cs \in Seq(Claim) /\ Len(cs) = Len(claims) + 1
      /\ \A c \in DOMAIN cs : cs[c].policy \in DOMAIN policies
  BY <1>1, FiledIs
<1>3. PICK s : s = [Core EXCEPT !.claims = cs]
  OBVIOUS
<1>4. /\ IsCore(s) /\ s.pool = pool /\ s.policies = policies /\ s.claims = cs
  BY <1>2, <1>3 DEF PolicyInv, IsCore, Core
<1>5. PICK t : t = Approve(s, Len(s.claims))
  OBVIOUS
<1>6. Settles(s, t)
  <2>1. Len(s.claims) \in DOMAIN s.claims /\ now \in Nat
    BY <1>2, <1>4, PolicyTypes DEF PolicyInv
  <2> QED
    BY <1>4, <1>5, <2>1, ApproveDecides DEF Decides
<1>7. Becomes(t)
  <2>1. [Core EXCEPT !.claims = Append(@, NewClaim(u, id, amount))] = s
    BY <1>1, <1>3 DEF Core
  <2> QED
    BY <1>5, <2>1 DEF SubmitParametricClaim
<1> QED
  BY <1>4, <1>6, <1>7, BecomesInv DEF Settles

(* What keeps the policies' statuses, holders and tokens.                    *)
LEMMA SamePolicies ==
  ASSUME PolicyInv, now' \in Nat, IsCore(Core)', tokens' \in Seq(Token),
         (assessment = None \/ assessment \in Assessment)',
         Len(policies') = Len(policies), Len(tokens') = Len(tokens),
         pool'.active = pool.active,
         \A id \in 1 .. Len(policies) : /\ tokens'[id].owner = policies'[id].holder
                                        /\ \/ policies'[id].status = policies[id].status
                                           \/ /\ policies'[id].status \in {"Active", "Renewed"}
                                              /\ policies[id].status \in {"Active", "Renewed"}
  PROVE  PolicyInv'
<1>1. Follows(tokens, policies)'
  BY DEF PolicyInv, Follows
<1>2. Counts(policies', pool.active)
  <2>1. Counts(policies, pool.active)
    BY DEF PolicyInv
  <2>2. \A id \in 1 .. Len(policies) : \/ policies'[id].status = policies[id].status
                                       \/ /\ policies'[id].status \in {"Active", "Renewed"}
                                          /\ policies[id].status \in {"Active", "Renewed"}
    OBVIOUS
  <2> QED
    BY ONLY <2>1, <2>2, Len(policies') = Len(policies), SameCounts
<1>3. Counts(policies, pool.active)'
  BY <1>2 DEF Counts, HavingIn
<1> QED
  BY <1>1, <1>3 DEF PolicyInv

(* A change of one policy.                                                   *)
LEMMA OnePolicy ==
  ASSUME PolicyInv, NEW id \in DOMAIN policies, NEW p \in InsurancePolicy,
         policies' = [policies EXCEPT ![id] = p]
  PROVE  /\ policies' \in Seq(InsurancePolicy) /\ Len(policies') = Len(policies)
         /\ DOMAIN policies' = DOMAIN policies
         /\ \A i \in 1 .. Len(policies) : policies'[i] = IF i = id THEN p ELSE policies[i]
<1>1. policies \in Seq(InsurancePolicy)
  BY PolicyTypes
<1> QED
  BY ONLY <1>1, id \in DOMAIN policies, p \in InsurancePolicy, policies' = [policies EXCEPT ![id] = p]

(* The core of the next state, when payouts have no part in it.              *)
LEMMA NextCore ==
  ASSUME pool' \in Pool, policies' \in Seq(InsurancePolicy), claims' \in Seq(Claim),
         \A c \in DOMAIN claims' : claims'[c].policy \in DOMAIN policies'
  PROVE  IsCore(Core)'
  BY DEF IsCore, Core

LEMMA SubmitClaimInv ==
  ASSUME PolicyInv, now' = now, NEW u \in Users, NEW id \in DOMAIN policies,
         NEW amount \in Int, NEW type \in EvidenceTypes, SubmitClaim(u, id, amount, type)
  PROVE  PolicyInv'
<1>1. policies[id] \in InsurancePolicy
  BY PolicyTypes
<1>2. PICK p : p = [policies[id] EXCEPT !.used = policies[id].used \union {type}]
  OBVIOUS
<1>3. /\ p \in InsurancePolicy /\ p.holder = policies[id].holder /\ p.status = policies[id].status
  BY <1>1, <1>2 DEF InsurancePolicy
<1>4. /\ policies' = [policies EXCEPT ![id] = p] /\ pool' = pool /\ tokens' = tokens
      /\ assessment' = assessment /\ claims' = Append(claims, NewClaim(u, id, amount))
  BY <1>2 DEF SubmitClaim
<1>5. /\ policies' \in Seq(InsurancePolicy) /\ Len(policies') = Len(policies)
      /\ DOMAIN policies' = DOMAIN policies
      /\ \A i \in 1 .. Len(policies) : policies'[i] = IF i = id THEN p ELSE policies[i]
  BY <1>3, <1>4, OnePolicy
<1>6. /\ claims' \in Seq(Claim)
      /\ \A c \in DOMAIN claims' : claims'[c].policy \in DOMAIN policies'
  BY <1>4, <1>5, FiledIs
<1>7. IsCore(Core)'
  BY <1>4, <1>5, <1>6, PolicyTypes, NextCore
<1>8. ASSUME NEW i \in 1 .. Len(policies)
      PROVE  tokens'[i].owner = policies'[i].holder /\ policies'[i].status = policies[i].status
  BY <1>3, <1>4, <1>5 DEF PolicyInv, Follows
<1> QED
  BY <1>4, <1>5, <1>7, <1>8, SamePolicies DEF PolicyInv

LEMMA MoveToDisputeInv ==
  ASSUME PolicyInv, now' = now, NEW id \in DOMAIN claims, MoveToDispute(id)
  PROVE  PolicyInv'
<1>1. /\ claims \in Seq(Claim) /\ claims[id] \in Claim
  BY PolicyTypes
<1>2. PICK c : c = [claims[id] EXCEPT !.status = "Disputed"]
  OBVIOUS
<1>3. c \in Claim /\ c.policy = claims[id].policy
  BY <1>1, <1>2 DEF Claim
<1>4. /\ claims' = [claims EXCEPT ![id] = c] /\ pool' = pool /\ tokens' = tokens
      /\ assessment' = assessment /\ policies' = policies
  BY <1>2 DEF MoveToDispute, policyVars
<1>5. /\ claims' \in Seq(Claim)
      /\ \A i \in DOMAIN claims' : i \in DOMAIN claims /\ claims'[i].policy = claims[i].policy
  BY ONLY <1>1, <1>3, <1>4, id \in DOMAIN claims
<1>6. IsCore(Core)'
  BY <1>4, <1>5, PolicyTypes, NextCore
<1>7. ASSUME NEW i \in 1 .. Len(policies)
      PROVE  tokens'[i].owner = policies'[i].holder /\ policies'[i].status = policies[i].status
  BY <1>4 DEF PolicyInv, Follows
<1> QED
  BY <1>4, <1>6, <1>7, SamePolicies DEF PolicyInv

(* What leaves policies, tokens and claims alone.                            *)
LEMMA NoPolicies ==
  ASSUME PolicyInv, now' \in Nat, pool' \in Pool, pool'.active = pool.active,
         (assessment = None \/ assessment \in Assessment)',
         UNCHANGED <<policies, tokens, claims>>
  PROVE  PolicyInv'
<1>1. IsCore(Core)'
  BY PolicyTypes, NextCore
<1>2. ASSUME NEW i \in 1 .. Len(policies)
      PROVE  tokens'[i].owner = policies'[i].holder /\ policies'[i].status = policies[i].status
  BY DEF PolicyInv, Follows
<1> QED
  BY <1>1, <1>2, SamePolicies DEF PolicyInv

LEMMA CapitalInv ==
  ASSUME PolicyInv, now' = now, NEW n \in Int, StakeIn(n) \/ StakeOut(n)
  PROVE  PolicyInv'
<1>1. pool \in Pool
  BY PolicyTypes
<1>2. PICK m \in Int, k \in Int : pool' = [pool EXCEPT !.total = m, !.available = k]
  <2>1. /\ pool.total + n \in Int /\ pool.available + n \in Int
        /\ pool.total - n \in Int /\ pool.available - n \in Int
    BY <1>1 DEF Pool
  <2>2. \/ pool' = [pool EXCEPT !.total = pool.total + n, !.available = pool.available + n]
        \/ pool' = [pool EXCEPT !.total = pool.total - n, !.available = pool.available - n]
    BY DEF StakeIn, StakeOut
  <2> QED
    BY ONLY <2>1, <2>2
<1>3. pool' \in Pool /\ pool'.active = pool.active
  BY ONLY <1>1, <1>2 DEF Pool
<1>4. UNCHANGED <<policies, tokens, claims, assessment>>
  BY DEF StakeIn, StakeOut, policyVars
<1> QED
  BY <1>3, <1>4, NoPolicies DEF PolicyInv

LEMMA OtherInv ==
  ASSUME PolicyInv, now' \in Nat, UNCHANGED <<pool, policyVars, claims>>
  PROVE  PolicyInv'
  BY PolicyTypes, NoPolicies DEF PolicyInv, policyVars

LEMMA UpdateRiskAssessmentInv ==
  ASSUME PolicyInv, now' = now, NEW score \in Int, UpdateRiskAssessment(score)
  PROVE  PolicyInv'
<1>1. assessment' \in Assessment
  BY InsuranceConstants DEF UpdateRiskAssessment, Assessment, PolicyInv
<1> QED
  BY <1>1, PolicyTypes, NoPolicies DEF UpdateRiskAssessment, PolicyInv

LEMMA FeeIs == ASSUME NEW n \in Int PROVE Fee(n) \in Int
  BY InsuranceConstants DEF Fee

LEMMA CreatePolicyInv ==
  ASSUME PolicyInv, now' = now, NEW u \in Users, NEW coverage \in Int, NEW paid \in Int,
         NEW parametric \in BOOLEAN, CreatePolicy(u, coverage, paid, parametric)
  PROVE  PolicyInv'
<1>1. pool \in Pool /\ policies \in Seq(InsurancePolicy) /\ tokens \in Seq(Token)
  BY PolicyTypes DEF PolicyInv
<1>2. assessment \in Assessment
  BY DEF CreatePolicy, PolicyInv
<1>3. PICK d \in Int : d = Deductible(coverage)
  <2>1. RiskMultiplier(assessment.score) \in Int
    BY <1>2 DEF RiskMultiplier, Assessment
  <2>2. coverage * 500 * RiskMultiplier(assessment.score) \in Int
    BY <2>1
  <2> QED
    BY <2>2, InsuranceConstants DEF Deductible
<1>4. PICK p : p = [holder |-> u, coverage |-> coverage, deductible |-> d,
                    end |-> now + Term, status |-> "Active", claimed |-> 0,
                    parametric |-> parametric, used |-> {}]
  OBVIOUS
<1>5. p \in InsurancePolicy /\ p.holder = u /\ p.status = "Active"
  <2>1. now + Term \in Int /\ {} \in SUBSET EvidenceTypes
    BY InsuranceConstants DEF PolicyInv
  <2> QED
    BY <1>4, <2>1 DEF InsurancePolicy, PolicyStatuses
<1>6. PICK t : t = [owner |-> u, price |-> None]
  OBVIOUS
<1>7. t \in Token /\ t.owner = u
  BY <1>6 DEF Token
<1>8. /\ policies' = Append(policies, p) /\ tokens' = Append(tokens, t)
      /\ assessment' = assessment /\ claims' = claims
  BY <1>3, <1>4, <1>6 DEF CreatePolicy
<1>9. /\ policies' \in Seq(InsurancePolicy) /\ Len(policies') = Len(policies) + 1
      /\ policies'[Len(policies) + 1] = p /\ DOMAIN policies' = 1 .. Len(policies) + 1
      /\ \A i \in 1 .. Len(policies) : policies'[i] = policies[i]
  BY ONLY <1>1, <1>5, <1>8
<1>10. /\ tokens' \in Seq(Token) /\ Len(tokens') = Len(tokens) + 1
       /\ tokens'[Len(tokens) + 1] = t
       /\ \A i \in 1 .. Len(tokens) : tokens'[i] = tokens[i]
  BY ONLY <1>1, <1>7, <1>8
<1>11. pool' \in Pool /\ pool'.active = pool.active + 1
  <2>1. PICK k \in Int : k = pool.available + paid - Fee(paid)
    <3>1. Fee(paid) \in Int /\ pool.available \in Int
      BY <1>1, FeeIs DEF Pool
    <3> QED
      BY <3>1
  <2>2. PICK a \in Nat : a = pool.active + 1
    BY <1>1 DEF Pool
  <2>3. pool' = [pool EXCEPT !.available = k, !.active = a]
    BY <2>1, <2>2 DEF CreatePolicy
  <2>4. pool' \in Pool /\ pool'.active = a
    BY ONLY <1>1, k \in Int, a \in Nat, <2>3 DEF Pool
  <2> QED
    BY <2>2, <2>4
<1>12. IsCore(Core)'
  <2>1. \A c \in DOMAIN claims' : claims'[c].policy \in DOMAIN policies'
    BY <1>8, <1>9, PolicyTypes
  <2> QED
    BY <1>8, <1>9, <1>11, <2>1, PolicyTypes, NextCore
<1>13. Follows(tokens, policies)'
  <2>1. Len(tokens) = Len(policies) /\ Len(policies) \in Nat
    BY PolicyTypes
  <2>2. \A i \in 1 .. Len(policies) : tokens[i].owner = policies[i].holder
    BY DEF PolicyInv, Follows
  <2>3. ASSUME NEW i \in 1 .. Len(policies) + 1 PROVE tokens'[i].owner = policies'[i].holder
    BY ONLY <1>5, <1>7, <1>9, <1>10, <2>1, <2>2, <2>3
  <2> QED
    BY ONLY <1>9, <1>10, <2>1, <2>3 DEF Follows
<1>14. Counts(policies, pool.active)'
  <2>1. /\ pool.active \in Nat /\ Counts(policies, pool.active) /\ Len(policies) \in Nat
    BY <1>1, PolicyTypes DEF PolicyInv, Pool
  <2>2. /\ \A i \in 1 .. Len(policies) : policies'[i].status = policies[i].status
        /\ policies'[Len(policies) + 1].status = "Active"
    BY <1>5, <1>9
  <2>3. Counts(policies', pool.active + 1)
    BY ONLY <1>9, <2>1, <2>2, NewCounts
  <2> QED
    BY <1>11, <2>3 DEF Counts, HavingIn
<1> QED
  BY <1>8, <1>10, <1>12, <1>13, <1>14 DEF PolicyInv

LEMMA RenewPolicyInv ==
  ASSUME PolicyInv, now' = now, NEW u, NEW id \in DOMAIN policies, NEW paid \in Int,
         RenewPolicy(u, id, paid)
  PROVE  PolicyInv'
<1>1. policies[id] \in InsurancePolicy /\ pool \in Pool
  BY PolicyTypes
<1>2. PICK e \in Int : e = policies[id].end + Term
  BY <1>1, InsuranceConstants DEF InsurancePolicy
<1>3. PICK p : p = [policies[id] EXCEPT !.end = e, !.status = "Renewed"]
  OBVIOUS
<1>4. /\ p \in InsurancePolicy /\ p.holder = policies[id].holder /\ p.status = "Renewed"
  BY ONLY <1>1, <1>2, <1>3 DEF InsurancePolicy, PolicyStatuses
<1>5. policies' = [policies EXCEPT ![id] = p]
  BY <1>2, <1>3 DEF RenewPolicy
<1>6. /\ tokens' = tokens /\ assessment' = assessment /\ claims' = claims
      /\ policies[id].status \in {"Active", "Renewed"}
  BY DEF RenewPolicy
<1>7. /\ policies' \in Seq(InsurancePolicy) /\ Len(policies') = Len(policies)
      /\ DOMAIN policies' = DOMAIN policies
      /\ \A i \in 1 .. Len(policies) : policies'[i] = IF i = id THEN p ELSE policies[i]
  BY <1>4, <1>5, OnePolicy
<1>8. pool' \in Pool /\ pool'.active = pool.active
  <2>1. PICK k \in Int : k = pool.available + paid - Fee(paid)
    <3>1. Fee(paid) \in Int /\ pool.available \in Int
      BY <1>1, FeeIs DEF Pool
    <3> QED
      BY <3>1
  <2>2. pool' = [pool EXCEPT !.available = k]
    BY <2>1 DEF RenewPolicy
  <2> QED
    BY ONLY <1>1, <2>1, <2>2 DEF Pool
<1>9. IsCore(Core)'
  BY <1>6, <1>7, <1>8, PolicyTypes, NextCore
<1>10. ASSUME NEW i \in 1 .. Len(policies)
       PROVE  /\ tokens'[i].owner = policies'[i].holder
              /\ \/ policies'[i].status = policies[i].status
                 \/ /\ policies'[i].status \in {"Active", "Renewed"}
                    /\ policies[i].status \in {"Active", "Renewed"}
  BY <1>4, <1>6, <1>7 DEF PolicyInv, Follows
<1> QED
  BY <1>6, <1>7, <1>8, <1>9, <1>10, SamePolicies DEF PolicyInv

LEMMA TokenIs ==
  ASSUME PolicyInv, NEW id \in DOMAIN policies
  PROVE  tokens \in Seq(Token) /\ id \in 1 .. Len(tokens) /\ tokens[id] \in Token
  BY PolicyTypes DEF PolicyInv

LEMMA ListTokenForSaleInv ==
  ASSUME PolicyInv, now' = now, NEW u, NEW id \in DOMAIN policies, NEW price \in Prices,
         ListTokenForSale(u, id, price)
  PROVE  PolicyInv'
<1>1. tokens \in Seq(Token) /\ id \in 1 .. Len(tokens) /\ tokens[id] \in Token
  BY TokenIs
<1>2. PICK t : t = [tokens[id] EXCEPT !.price = price]
  OBVIOUS
<1>3. t \in Token /\ t.owner = tokens[id].owner
  BY ONLY <1>1, <1>2, price \in Prices DEF Token
<1>4. /\ tokens' = [tokens EXCEPT ![id] = t] /\ pool' = pool /\ policies' = policies
      /\ claims' = claims /\ assessment' = assessment
  BY <1>2 DEF ListTokenForSale
<1>5. /\ tokens' \in Seq(Token) /\ Len(tokens') = Len(tokens)
      /\ \A i \in 1 .. Len(tokens) : tokens'[i].owner = tokens[i].owner
  BY ONLY <1>1, <1>3, <1>4
<1>6. IsCore(Core)'
  BY <1>4, PolicyTypes, NextCore
<1>7. ASSUME NEW i \in 1 .. Len(policies)
      PROVE  tokens'[i].owner = policies'[i].holder /\ policies'[i].status = policies[i].status
  BY <1>4, <1>5, PolicyTypes DEF PolicyInv, Follows
<1> QED
  BY <1>4, <1>5, <1>6, <1>7, SamePolicies DEF PolicyInv

LEMMA PurchaseTokenInv ==
  ASSUME PolicyInv, now' = now, NEW u \in Users, NEW id \in DOMAIN policies, NEW paid,
         PurchaseToken(u, id, paid)
  PROVE  PolicyInv'
<1>1. /\ tokens \in Seq(Token) /\ id \in 1 .. Len(tokens) /\ tokens[id] \in Token
      /\ policies[id] \in InsurancePolicy
  BY TokenIs, PolicyTypes
<1>2. PICK p : p = [policies[id] EXCEPT !.holder = u]
  OBVIOUS
<1>3. p \in InsurancePolicy /\ p.holder = u /\ p.status = policies[id].status
  BY ONLY <1>1, <1>2, u \in Users DEF InsurancePolicy
<1>4. PICK t : t = [owner |-> u, price |-> None]
  OBVIOUS
<1>5. t \in Token /\ t.owner = u
  BY <1>4 DEF Token
<1>6. /\ tokens' = [tokens EXCEPT ![id] = t] /\ policies' = [policies EXCEPT ![id] = p]
      /\ pool' = pool /\ claims' = claims /\ assessment' = assessment
  BY <1>2, <1>4 DEF PurchaseToken
<1>7. /\ policies' \in Seq(InsurancePolicy) /\ Len(policies') = Len(policies)
      /\ DOMAIN policies' = DOMAIN policies
      /\ \A i \in 1 .. Len(policies) : policies'[i] = IF i = id THEN p ELSE policies[i]
  BY <1>3, <1>6, OnePolicy
<1>8. /\ tokens' \in Seq(Token) /\ Len(tokens') = Len(tokens)
      /\ \A i \in 1 .. Len(tokens) : tokens'[i] = IF i = id THEN t ELSE tokens[i]
  BY ONLY <1>1, <1>5, <1>6
<1>9. IsCore(Core)'
  BY <1>6, <1>7, PolicyTypes, NextCore
<1>10. ASSUME NEW i \in 1 .. Len(policies)
       PROVE  tokens'[i].owner = policies'[i].holder /\ policies'[i].status = policies[i].status
  BY <1>3, <1>5, <1>7, <1>8, PolicyTypes DEF PolicyInv, Follows
<1> QED
  BY <1>6, <1>7, <1>8, <1>9, <1>10, SamePolicies DEF PolicyInv

(* Policies that end without a settlement.                                   *)
LEMMA GoneInv ==
  ASSUME PolicyInv, now' = now, NEW due \in SUBSET DOMAIN policies,
         policies' \in Seq(InsurancePolicy), Len(policies') = Len(policies),
         pool' = [pool EXCEPT !.active = Monus(pool.active, Cardinality(due))],
         UNCHANGED <<assessment, tokens, claims>>,
         \A i \in due : policies[i].status = "Active" /\ policies'[i].status \in {"Cancelled", "Expired"},
         \A i \in DOMAIN policies : /\ policies'[i].holder = policies[i].holder
                                    /\ i \notin due => policies'[i].status = policies[i].status
  PROVE  PolicyInv'
<1>1. /\ pool \in Pool /\ pool.active \in Nat /\ Len(policies) \in Nat
      /\ DOMAIN policies = 1 .. Len(policies) /\ DOMAIN policies' = 1 .. Len(policies)
  BY PolicyTypes DEF Pool
<1>2. /\ Cardinality(due) \in Nat /\ Cardinality(due) <= pool.active
      /\ Counts(policies', pool.active - Cardinality(due))
  <2>1. Counts(policies, pool.active)
    BY DEF PolicyInv
  <2>2. due \in SUBSET (1 .. Len(policies))
    BY <1>1
  <2>3. \A i \in 1 .. Len(policies) : i \notin due => policies'[i].status = policies[i].status
    BY <1>1
  <2> QED
    BY <1>1, <2>1, <2>2, <2>3, GoneCounts
<1>3. PICK a \in Nat : a = Monus(pool.active, Cardinality(due)) /\ a = pool.active - Cardinality(due)
  BY <1>1, <1>2 DEF Monus
<1>4. pool' = [pool EXCEPT !.active = a]
  BY <1>3
<1>5. pool' \in Pool /\ pool'.active = a
  BY ONLY <1>1, <1>4, a \in Nat DEF Pool
<1>6. IsCore(Core)'
  BY <1>1, <1>5, PolicyTypes, NextCore
<1>7. Follows(tokens, policies)'
  BY <1>1 DEF PolicyInv, Follows
<1>8. Counts(policies, pool.active)'
  BY <1>2, <1>3, <1>5 DEF Counts, HavingIn
<1> QED
  BY <1>6, <1>7, <1>8 DEF PolicyInv

LEMMA CancelPolicyInv ==
  ASSUME PolicyInv, now' = now, NEW id \in DOMAIN policies, CancelPolicy(id)
  PROVE  PolicyInv'
<1>1. policies[id] \in InsurancePolicy
  BY PolicyTypes
<1>2. PICK p : p = [policies[id] EXCEPT !.status = "Cancelled"]
  OBVIOUS
<1>3. p \in InsurancePolicy /\ p.holder = policies[id].holder /\ p.status = "Cancelled"
  BY ONLY <1>1, <1>2 DEF InsurancePolicy, PolicyStatuses
<1>4. /\ policies' = [policies EXCEPT ![id] = p] /\ policies[id].status = "Active"
      /\ UNCHANGED <<assessment, tokens, claims>>
  BY <1>2 DEF CancelPolicy
<1>5. /\ policies' \in Seq(InsurancePolicy) /\ Len(policies') = Len(policies)
      /\ \A i \in DOMAIN policies : policies'[i] = IF i = id THEN p ELSE policies[i]
  BY <1>3, <1>4, OnePolicy, PolicyTypes
<1>6. PICK due : due = {id}
  OBVIOUS
<1>7. due \in SUBSET DOMAIN policies /\ Cardinality(due) = 1
  BY <1>6, FS_Singleton
<1>8. pool' = [pool EXCEPT !.active = Monus(pool.active, Cardinality(due))]
  BY <1>7 DEF CancelPolicy
<1> QED
  BY <1>3, <1>4, <1>5, <1>6, <1>7, <1>8, GoneInv

LEMMA ExpirePoliciesInv ==
  ASSUME PolicyInv, now' = now, ExpirePolicies
  PROVE  PolicyInv'
<1>1. PICK due : due = {id \in DOMAIN policies : policies[id].status = "Active" /\ now > policies[id].end}
  OBVIOUS
<1>2. /\ policies' = [id \in DOMAIN policies |->
                        IF id \in due THEN [policies[id] EXCEPT !.status = "Expired"] ELSE policies[id]]
      /\ pool' = [pool EXCEPT !.active = Monus(pool.active, Cardinality(due))]
      /\ UNCHANGED <<assessment, tokens, claims>>
  BY <1>1 DEF ExpirePolicies
<1>3. ASSUME NEW i \in DOMAIN policies
      PROVE  /\ policies'[i] \in InsurancePolicy /\ policies'[i].holder = policies[i].holder
             /\ i \in due => policies'[i].status = "Expired"
             /\ i \notin due => policies'[i].status = policies[i].status
  <2>1. policies[i] \in InsurancePolicy
    BY PolicyTypes
  <2>2. PICK p : p = [policies[i] EXCEPT !.status = "Expired"]
    OBVIOUS
  <2>3. p \in InsurancePolicy /\ p.holder = policies[i].holder /\ p.status = "Expired"
    BY ONLY <2>1, <2>2 DEF InsurancePolicy, PolicyStatuses
  <2>4. policies'[i] = IF i \in due THEN p ELSE policies[i]
    BY <1>2, <2>2
  <2> QED
    BY <2>1, <2>3, <2>4
<1>4. policies' \in Seq(InsurancePolicy) /\ Len(policies') = Len(policies)
  <2>1. Len(policies) \in Nat /\ DOMAIN policies = 1 .. Len(policies)
    BY PolicyTypes
  <2>2. policies' \in [1 .. Len(policies) -> InsurancePolicy]
    BY <1>2, <1>3, <2>1
  <2> QED
    BY ONLY <2>1, <2>2
<1>5. due \in SUBSET DOMAIN policies
  BY <1>1
<1> QED
  BY <1>1, <1>2, <1>3, <1>4, <1>5, GoneInv

-----------------------------------------------------------------------------
LEMMA PolicyInitInv == InsuranceInit => PolicyInv
<1> SUFFICES ASSUME InsuranceInit PROVE PolicyInv
  OBVIOUS
<1>1. /\ pool \in Pool /\ pool.active = 0 /\ policies = <<>> /\ claims = <<>> /\ tokens = <<>>
      /\ assessment = None /\ now \in Nat
  BY InsuranceConstants DEF InsuranceInit, Pool
<1>2. IsCore(Core)
  BY <1>1 DEF IsCore, Core
<1>3. Counts(policies, pool.active)
  <2>1. ASSUME NEW st PROVE HavingIn(policies, st) = {}
    BY <1>1 DEF HavingIn
  <2>2. /\ HavingIn(policies, {"Active", "Renewed"}) = {}
        /\ HavingIn(policies, {"Active", "Renewed", "Claimed"}) = {}
    BY <2>1
  <2>3. Cardinality({}) = 0
    BY FS_EmptySet
  <2>4. /\ Cardinality(HavingIn(policies, {"Active", "Renewed"})) = 0
        /\ Cardinality(HavingIn(policies, {"Active", "Renewed", "Claimed"})) = 0
    BY <2>2, <2>3
  <2>5. pool.active = 0
    BY <1>1
  <2> QED
    BY ONLY <2>4, <2>5 DEF Counts
<1> QED
  BY <1>1, <1>2, <1>3 DEF PolicyInv, Follows

LEMMA PolicyStepInv == PolicyInv /\ [InsuranceNext]_insuranceVars => PolicyInv'
<1> SUFFICES ASSUME PolicyInv, [InsuranceNext]_insuranceVars PROVE PolicyInv'
  OBVIOUS
<1>1. CASE UNCHANGED insuranceVars \/ (Tick /\ UNCHANGED <<pool, policyVars, claims, limitVars, otherVars>>)
  <2>1. now' \in Nat /\ UNCHANGED <<pool, policyVars, claims>>
    BY <1>1 DEF insuranceVars, Tick, PolicyInv
  <2> QED
    BY <2>1, OtherInv
<1>2. ASSUME now' = now, NEW u \in Users, HolderNext(u) PROVE PolicyInv'
  <2>1. ASSUME NEW c \in Coverages, NEW n \in Payments, NEW p \in BOOLEAN, CreatePolicy(u, c, n, p)
        PROVE  PolicyInv'
    BY <1>2, <2>1, CreatePolicyInv, InsuranceConstants
  <2>2. ASSUME NEW id \in DOMAIN policies, NEW n \in Payments, RenewPolicy(u, id, n) \/ PurchaseToken(u, id, n)
        PROVE  PolicyInv'
    BY <1>2, <2>2, RenewPolicyInv, PurchaseTokenInv, InsuranceConstants
  <2>3. ASSUME NEW id \in DOMAIN policies, NEW n \in Prices, ListTokenForSale(u, id, n)
        PROVE  PolicyInv'
    BY <1>2, <2>3, ListTokenForSaleInv
  <2>4. ASSUME NEW id \in DOMAIN policies, NEW n \in ClaimAmounts, NEW t \in EvidenceTypes,
               SubmitClaim(u, id, n, t) \/ SubmitParametricClaim(u, id, n, t)
        PROVE  PolicyInv'
    BY <1>2, <2>4, SubmitClaimInv, SubmitParametricClaimInv, InsuranceConstants
  <2> QED
    BY <1>2, <2>1, <2>2, <2>3, <2>4 DEF HolderNext
<1>3. ASSUME now' = now, AdminNext PROVE PolicyInv'
  <2>1. ASSUME NEW s \in Scores, UpdateRiskAssessment(s) PROVE PolicyInv'
    BY <1>3, <2>1, UpdateRiskAssessmentInv, InsuranceConstants
  <2>2. ASSUME NEW id \in DOMAIN policies, CancelPolicy(id) PROVE PolicyInv'
    BY <1>3, <2>2, CancelPolicyInv
  <2>3. ASSUME ExpirePolicies PROVE PolicyInv'
    BY <1>3, <2>3, ExpirePoliciesInv
  <2>4. ASSUME NEW id \in DOMAIN claims, NEW approved \in BOOLEAN,
               MoveToDispute(id) \/ ProcessClaim(id, approved)
        PROVE  PolicyInv'
    BY <1>3, <2>4, MoveToDisputeInv, ProcessClaimInv
  <2>5. ASSUME NEW ids \in SeqOf(DOMAIN claims, MaxClaims), NEW approved \in BOOLEAN,
               BatchClaims(ids, approved)
        PROVE  PolicyInv'
    BY <1>3, <2>5, BatchClaimsInv
  <2>6. ASSUME NEW t \in TreatyTerms, RegisterReinsurance(t) PROVE PolicyInv'
    BY <1>3, <2>6, OtherInv DEF RegisterReinsurance, PolicyInv
  <2> QED
    BY <1>3, <2>1, <2>2, <2>3, <2>4, <2>5, <2>6 DEF AdminNext
<1>4. ASSUME now' = now, BreakerStep PROVE PolicyInv'
  BY <1>4, OtherInv DEF BreakerStep, PolicyInv
<1>5. ASSUME now' = now, NEW n \in Stakes, StakeIn(n) \/ StakeOut(n) PROVE PolicyInv'
  BY <1>5, CapitalInv, InsuranceConstants
<1> QED
  BY <1>1, <1>2, <1>3, <1>4, <1>5 DEF InsuranceNext

\* For any number of policies and claims, and any amounts: the tokens are in the
\* hands of their policies' holders, and the pool counts the policies that are
\* active or renewed, and beside them only settled ones.
THEOREM PoliciesStayCounted == InsuranceSpec => []PolicyBooksAgree
<1>1. PolicyInv => PolicyBooksAgree
  <2> SUFFICES ASSUME PolicyInv PROVE PolicyBooksAgree
    OBVIOUS
  <2>1. DOMAIN policies = 1 .. Len(policies)
    BY PolicyTypes
  <2> QED
    BY <2>1 DEF PolicyInv, PolicyBooksAgree, TokenFollowsPolicy, ActiveIsCounted, Follows,
                Counts, Having, HavingIn
<1> QED
  BY <1>1, PolicyInitInv, PolicyStepInv, PTL DEF InsuranceSpec

-----------------------------------------------------------------------------
(* Each operation pays what the claims it settles were awarded.              *)

AreAwards ==
  /\ \A p \in DOMAIN policies :
       policies'[p].claimed - policies[p].claimed = Awarded(SettledNow(p))
  /\ pool'.paid - pool.paid = Awarded(UNION {SettledNow(p) : p \in DOMAIN policies})

LEMMA BecomesAwards ==
  ASSUME PolicyInv, NEW t, IsCore(t), Awards(Core, t), Becomes(t)
  PROVE  AreAwards
<1>1. pool' = t.pool /\ policies' = t.policies /\ claims' = t.claims
  BY DEF Becomes
<1>2. Core.pool = pool /\ Core.policies = policies /\ Core.claims = claims /\ IsCore(Core)
  BY DEF PolicyInv, Core
<1>3. ASSUME NEW p \in DOMAIN policies
      PROVE  SettledNow(p) = NewlyPaid(Core, t, {p})
  BY <1>1, <1>2 DEF SettledNow, NewlyPaid
<1>4. UNION {SettledNow(p) : p \in DOMAIN policies} = NewlyPaid(Core, t, DOMAIN policies)
  BY <1>1, <1>2 DEF SettledNow, NewlyPaid
<1>5. ASSUME NEW ids PROVE Awarded(ids) = AwardsIn(t, ids)
  BY <1>1 DEF Awarded, AwardsIn
<1>6. ASSUME NEW ps PROVE AwardsIn(t, NewlyPaid(Core, t, ps)) \in Int
  <2>1. NewlyPaid(Core, t, ps) \in SUBSET DOMAIN t.claims
    BY DEF NewlyPaid
  <2> QED
    BY <2>1, AwardsType
<1>7. pool.paid \in Int /\ \A p \in DOMAIN policies : policies[p].claimed \in Int
  BY <1>2, CoreTypes
<1>8. ASSUME NEW p \in DOMAIN policies
      PROVE  policies'[p].claimed - policies[p].claimed = Awarded(SettledNow(p))
  <2>1. policies'[p].claimed = policies[p].claimed + AwardsIn(t, NewlyPaid(Core, t, {p}))
    BY <1>1, <1>2, <1>8 DEF Awards
  <2>2. AwardsIn(t, NewlyPaid(Core, t, {p})) \in Int /\ policies[p].claimed \in Int
    BY <1>6, <1>7, <1>8
  <2>3. Awarded(SettledNow(p)) = AwardsIn(t, NewlyPaid(Core, t, {p}))
    BY <1>3, <1>5, <1>8
  <2> QED
    BY ONLY <2>1, <2>2, <2>3
<1>9. pool'.paid - pool.paid = Awarded(UNION {SettledNow(p) : p \in DOMAIN policies})
  <2>1. pool'.paid = pool.paid + AwardsIn(t, NewlyPaid(Core, t, DOMAIN policies))
    BY <1>1, <1>2 DEF Awards
  <2>2. AwardsIn(t, NewlyPaid(Core, t, DOMAIN policies)) \in Int /\ pool.paid \in Int
    BY <1>6, <1>7
  <2>3. Awarded(UNION {SettledNow(p) : p \in DOMAIN policies})
          = AwardsIn(t, NewlyPaid(Core, t, DOMAIN policies))
    BY ONLY <1>4, <1>5
  <2> QED
    BY ONLY <2>1, <2>2, <2>3
<1> QED
  BY ONLY <1>8, <1>9 DEF AreAwards

(* What pays no claim.                                                       *)
LEMMA NothingPaid ==
  ASSUME PolicyInv, pool'.paid = pool.paid,
         \A p \in DOMAIN policies : policies'[p].claimed = policies[p].claimed,
         \A c \in DOMAIN claims' :
           claims'[c].status = "Paid" => c \in DOMAIN claims /\ claims[c].status = "Paid"
  PROVE  AreAwards
<1>1. ASSUME NEW p PROVE SettledNow(p) = {}
  BY DEF SettledNow, Open, Core
<1>2. UNION {SettledNow(p) : p \in DOMAIN policies} = {}
  BY <1>1
<1>3. Awarded({}) = 0
  BY SumEmpty DEF Awarded
<1>4. pool.paid \in Int /\ \A p \in DOMAIN policies : policies[p].claimed \in Int
  <2>1. IsCore(Core) /\ Core.pool = pool /\ Core.policies = policies
    BY DEF PolicyInv, Core
  <2> QED
    BY <2>1, CoreTypes
<1>5. ASSUME NEW p \in DOMAIN policies
      PROVE  policies'[p].claimed - policies[p].claimed = Awarded(SettledNow(p))
  <2>1. policies'[p].claimed = policies[p].claimed /\ policies[p].claimed \in Int
    BY <1>4, <1>5
  <2>2. Awarded(SettledNow(p)) = 0
    BY <1>1, <1>3
  <2> QED
    BY ONLY <2>1, <2>2
<1>6. pool'.paid - pool.paid = Awarded(UNION {SettledNow(p) : p \in DOMAIN policies})
  <2>1. Awarded(UNION {SettledNow(p) : p \in DOMAIN policies}) = 0
    BY ONLY <1>2, <1>3
  <2> QED
    BY <1>4, <2>1
<1> QED
  BY ONLY <1>5, <1>6 DEF AreAwards

LEMMA ProcessClaimAwards ==
  ASSUME PolicyInv, NEW id \in DOMAIN claims, NEW approved \in BOOLEAN,
         ProcessClaim(id, approved)
  PROVE  AreAwards
<1>1. PICK t : t = IF approved THEN Approve(Core, id) ELSE Reject(Core, id)
  OBVIOUS
<1>2. IsCore(Core) /\ now \in Nat /\ id \in DOMAIN Core.claims
  BY DEF PolicyInv, Core
<1>3. Decides(Core, t, id)
  BY <1>1, <1>2, ApproveDecides, RejectDecides
<1>4. Awards(Core, Core)
  BY <1>2, AwardsNothing
<1>5. Awards(Core, t) /\ IsCore(t)
  BY <1>2, <1>3, <1>4, AwardsOn DEF Decides, Settles
<1>6. Becomes(t)
  BY <1>1 DEF ProcessClaim
<1> QED
  BY <1>5, <1>6, BecomesAwards

LEMMA BatchClaimsAwards ==
  ASSUME PolicyInv, NEW ids \in SeqOf(DOMAIN claims, MaxClaims), NEW approved \in BOOLEAN,
         BatchClaims(ids, approved)
  PROVE  AreAwards
<1>1. ids \in Seq(DOMAIN claims)
  BY DEF SeqOf
<1>2. PICK t : t = Batch(ids, approved)
  OBVIOUS
<1>3. Awards(Core, t) /\ IsCore(t)
  BY <1>1, <1>2, BatchSettles DEF PolicyInv, Settles
<1>4. Becomes(t)
  BY <1>2 DEF BatchClaims
<1> QED
  BY <1>3, <1>4, BecomesAwards

LEMMA SubmitParametricClaimAwards ==
  ASSUME PolicyInv, NEW u \in Users, NEW id \in DOMAIN policies,
         NEW amount \in Int, NEW type, SubmitParametricClaim(u, id, amount, type)
  PROVE  AreAwards
<1>1. PICK cs : cs = Append(claims, NewClaim(u, id, amount))
  OBVIOUS
<1>2. /\ cs \in Seq(Claim) /\ Len(cs) = Len(claims) + 1
      /\ \A c \in DOMAIN cs : cs[c].policy \in DOMAIN policies
  BY <1>1, FiledIs
<1>3. PICK s : s = [Core EXCEPT !.claims = cs]
  OBVIOUS
<1>4. /\ IsCore(Core) /\ IsCore(s) /\ s.pool = pool /\ s.policies = policies /\ s.claims = cs
  BY <1>2, <1>3 DEF PolicyInv, IsCore, Core
<1>5. Awards(Core, s)
  <2>1. PICK c : c = NewClaim(u, id, amount)
    OBVIOUS
  <2>2. /\ DOMAIN claims = 1 .. Len(claims) /\ DOMAIN cs = 1 .. Len(claims) + 1
        /\ \A i \in DOMAIN claims : cs[i] = claims[i]
        /\ cs[Len(claims) + 1] = c
    BY ONLY <1>1, <2>1, PolicyTypes, PolicyInv
  <2>3. c.status = "Pending"
    BY <2>1 DEF NewClaim
  <2>4. /\ Core.claims = claims /\ Core.pool = pool /\ Core.policies = policies
    BY DEF Core
  <2>5. /\ DOMAIN Core.claims \subseteq DOMAIN s.claims
        /\ \A i \in DOMAIN Core.claims : s.claims[i] = Core.claims[i]
        /\ \A i \in DOMAIN s.claims \ DOMAIN Core.claims : s.claims[i].status = "Pending"
    BY <1>4, <2>2, <2>3, <2>4, PolicyTypes
  <2> QED
    BY <1>4, <2>4, <2>5, AwardsNothing
<1>6. PICK n : n = Len(s.claims)
  OBVIOUS
<1>7. PICK t : t = Approve(s, n)
  OBVIOUS
<1>8. n \in DOMAIN s.claims /\ now \in Nat
  BY <1>2, <1>4, <1>6, PolicyTypes DEF PolicyInv
<1>9. Decides(s, t, n)
  BY <1>4, <1>7, <1>8, ApproveDecides
<1>10. Awards(Core, t) /\ IsCore(t)
  BY <1>4, <1>5, <1>8, <1>9, AwardsOn DEF Decides, Settles
<1>11. Becomes(t)
  <2>1. [Core EXCEPT !.claims = Append(@, NewClaim(u, id, amount))] = s
    BY <1>1, <1>3 DEF Core
  <2> QED
    BY <1>6, <1>7, <2>1 DEF SubmitParametricClaim
<1> QED
  BY <1>10, <1>11, BecomesAwards

(* Of a policy, what is not the total paid on it.                            *)
LEMMA PolicyUnpaid ==
  ASSUME PolicyInv, UNCHANGED claims, pool'.paid = pool.paid,
         \A p \in DOMAIN policies : policies'[p].claimed = policies[p].claimed
  PROVE  AreAwards
  BY NothingPaid

LEMMA CreatePolicyAwards ==
  ASSUME PolicyInv, NEW u, NEW c \in Int, NEW n \in Int, NEW p, CreatePolicy(u, c, n, p)
  PROVE  AreAwards
<1>1. pool'.paid = pool.paid
  BY PolicyTypes DEF CreatePolicy, Pool
<1>2. PICK q : policies' = Append(policies, q)
  BY DEF CreatePolicy
<1>3. \A i \in DOMAIN policies : policies'[i] = policies[i]
  BY ONLY <1>2, PolicyTypes, PolicyInv
<1> QED
  BY <1>1, <1>3, PolicyUnpaid DEF CreatePolicy

LEMMA OneUnpaid ==
  ASSUME PolicyInv, NEW id \in DOMAIN policies, UNCHANGED claims, pool'.paid = pool.paid,
         NEW q, policies' = [policies EXCEPT ![id] = q], q.claimed = policies[id].claimed
  PROVE  AreAwards
<1>1. \A i \in DOMAIN policies : policies'[i].claimed = policies[i].claimed
  OBVIOUS
<1> QED
  BY <1>1, PolicyUnpaid

LEMMA RenewPolicyAwards ==
  ASSUME PolicyInv, NEW u, NEW id \in DOMAIN policies, NEW n \in Int, RenewPolicy(u, id, n)
  PROVE  AreAwards
<1>1. PICK e : e = policies[id].end + Term
  OBVIOUS
<1>2. PICK q : q = [policies[id] EXCEPT !.end = e, !.status = "Renewed"]
  OBVIOUS
<1>3. policies[id] \in InsurancePolicy /\ policies \in Seq(InsurancePolicy)
  BY PolicyTypes
<1>4. q.claimed = policies[id].claimed
  BY ONLY <1>2, <1>3 DEF InsurancePolicy
<1>5. policies' = [policies EXCEPT ![id] = q]
  <2>1. policies' = [policies EXCEPT ![id].end = e, ![id].status = "Renewed"]
    BY <1>1 DEF RenewPolicy
  <2> QED
    BY ONLY <1>2, <1>3, <2>1
<1>6. pool'.paid = pool.paid /\ UNCHANGED claims
  BY PolicyTypes DEF RenewPolicy, Pool
<1> QED
  BY <1>4, <1>5, <1>6, OneUnpaid

LEMMA PurchaseTokenAwards ==
  ASSUME PolicyInv, NEW u, NEW id \in DOMAIN policies, NEW n, PurchaseToken(u, id, n)
  PROVE  AreAwards
<1>1. PICK q : q = [policies[id] EXCEPT !.holder = u]
  OBVIOUS
<1>2. policies[id] \in InsurancePolicy
  BY PolicyTypes
<1>3. q.claimed = policies[id].claimed
  BY ONLY <1>1, <1>2 DEF InsurancePolicy
<1>4. policies' = [policies EXCEPT ![id] = q] /\ pool'.paid = pool.paid /\ UNCHANGED claims
  BY <1>1 DEF PurchaseToken
<1> QED
  BY <1>3, <1>4, OneUnpaid

LEMMA SubmitClaimAwards ==
  ASSUME PolicyInv, NEW u \in Users, NEW id \in DOMAIN policies,
         NEW amount \in Int, NEW type, SubmitClaim(u, id, amount, type)
  PROVE  AreAwards
<1>1. PICK q : q = [policies[id] EXCEPT !.used = policies[id].used \union {type}]
  OBVIOUS
<1>2. policies[id] \in InsurancePolicy
  BY PolicyTypes
<1>3. q.claimed = policies[id].claimed
  BY ONLY <1>1, <1>2 DEF InsurancePolicy
<1>4. PICK c : c = NewClaim(u, id, amount)
  OBVIOUS
<1>5. /\ policies' = [policies EXCEPT ![id] = q] /\ pool' = pool
      /\ claims' = Append(claims, c) /\ c.status = "Pending"
  BY <1>1, <1>4 DEF SubmitClaim, NewClaim
<1>6. \A i \in DOMAIN policies : policies'[i].claimed = policies[i].claimed
  BY <1>3, <1>5
<1>7. ASSUME NEW i \in DOMAIN claims', claims'[i].status = "Paid"
      PROVE  i \in DOMAIN claims /\ claims[i].status = "Paid"
  <2>1. claims \in Seq(Claim)
    BY PolicyTypes
  <2>2. i \in 1 .. Len(claims) + 1
    BY ONLY <1>5, <1>7, <2>1
  <2>3. i # Len(claims) + 1
    BY ONLY <1>5, <1>7, <2>1
  <2> QED
    BY ONLY <1>5, <1>7, <2>1, <2>2, <2>3
<1> QED
  BY <1>5, <1>6, <1>7, NothingPaid

LEMMA CancelPolicyAwards ==
  ASSUME PolicyInv, NEW id \in DOMAIN policies, CancelPolicy(id)
  PROVE  AreAwards
<1>1. PICK q : q = [policies[id] EXCEPT !.status = "Cancelled"]
  OBVIOUS
<1>2. policies[id] \in InsurancePolicy
  BY PolicyTypes
<1>3. q.claimed = policies[id].claimed
  BY ONLY <1>1, <1>2 DEF InsurancePolicy
<1>4. policies' = [policies EXCEPT ![id] = q] /\ pool'.paid = pool.paid /\ UNCHANGED claims
  BY <1>1, PolicyTypes DEF CancelPolicy, Pool
<1> QED
  BY <1>3, <1>4, OneUnpaid

LEMMA ExpirePoliciesAwards ==
  ASSUME PolicyInv, ExpirePolicies
  PROVE  AreAwards
<1>1. pool'.paid = pool.paid /\ UNCHANGED claims
  BY PolicyTypes DEF ExpirePolicies, Pool
<1>2. ASSUME NEW i \in DOMAIN policies PROVE policies'[i].claimed = policies[i].claimed
  <2>1. policies[i] \in InsurancePolicy
    BY PolicyTypes
  <2>2. policies'[i] = policies[i] \/ policies'[i] = [policies[i] EXCEPT !.status = "Expired"]
    BY DEF ExpirePolicies
  <2> QED
    BY ONLY <2>1, <2>2 DEF InsurancePolicy
<1> QED
  BY <1>1, <1>2, PolicyUnpaid

LEMMA MoveToDisputeAwards ==
  ASSUME PolicyInv, NEW id \in DOMAIN claims, MoveToDispute(id)
  PROVE  AreAwards
<1>1. claims \in Seq(Claim) /\ claims[id] \in Claim
  BY PolicyTypes
<1>2. PICK c : c = [claims[id] EXCEPT !.status = "Disputed"]
  OBVIOUS
<1>3. c.status = "Disputed"
  BY ONLY <1>1, <1>2 DEF Claim
<1>4. claims' = [claims EXCEPT ![id] = c] /\ pool' = pool /\ policies' = policies
  BY <1>2 DEF MoveToDispute, policyVars
<1>5. ASSUME NEW i \in DOMAIN claims', claims'[i].status = "Paid"
      PROVE  i \in DOMAIN claims /\ claims[i].status = "Paid"
  BY <1>3, <1>4, <1>5
<1> QED
  BY <1>4, <1>5, NothingPaid

LEMMA CapitalAwards ==
  ASSUME PolicyInv, NEW n, StakeIn(n) \/ StakeOut(n)
  PROVE  AreAwards
<1>1. UNCHANGED claims /\ UNCHANGED policies /\ pool'.paid = pool.paid
  BY PolicyTypes DEF StakeIn, StakeOut, policyVars, Pool
<1> QED
  BY <1>1, PolicyUnpaid

LEMMA OtherAwards ==
  ASSUME PolicyInv, UNCHANGED <<pool, policies, claims>>
  PROVE  AreAwards
  BY PolicyUnpaid

LEMMA StepAwards == PolicyInv /\ [InsuranceNext]_insuranceVars => AreAwards
<1> SUFFICES ASSUME PolicyInv, [InsuranceNext]_insuranceVars PROVE AreAwards
  OBVIOUS
<1>1. CASE UNCHANGED insuranceVars \/ (Tick /\ UNCHANGED <<pool, policyVars, claims, limitVars, otherVars>>)
  BY <1>1, OtherAwards DEF insuranceVars, policyVars
<1>2. ASSUME NEW u \in Users, HolderNext(u) PROVE AreAwards
  <2>1. ASSUME NEW c \in Coverages, NEW n \in Payments, NEW p \in BOOLEAN, CreatePolicy(u, c, n, p)
        PROVE  AreAwards
    BY <2>1, CreatePolicyAwards, InsuranceConstants
  <2>2. ASSUME NEW id \in DOMAIN policies, NEW n \in Payments, RenewPolicy(u, id, n) \/ PurchaseToken(u, id, n)
        PROVE  AreAwards
    BY <2>2, RenewPolicyAwards, PurchaseTokenAwards, InsuranceConstants
  <2>3. ASSUME NEW id \in DOMAIN policies, NEW n \in Prices, ListTokenForSale(u, id, n)
        PROVE  AreAwards
    BY <2>3, OtherAwards DEF ListTokenForSale
  <2>4. ASSUME NEW id \in DOMAIN policies, NEW n \in ClaimAmounts, NEW t \in EvidenceTypes,
               SubmitClaim(u, id, n, t) \/ SubmitParametricClaim(u, id, n, t)
        PROVE  AreAwards
    BY <1>2, <2>4, SubmitClaimAwards, SubmitParametricClaimAwards, InsuranceConstants
  <2> QED
    BY <1>2, <2>1, <2>2, <2>3, <2>4 DEF HolderNext
<1>3. ASSUME AdminNext PROVE AreAwards
  <2>1. ASSUME NEW s \in Scores, UpdateRiskAssessment(s) PROVE AreAwards
    BY <2>1, OtherAwards DEF UpdateRiskAssessment
  <2>2. ASSUME NEW id \in DOMAIN policies, CancelPolicy(id) PROVE AreAwards
    BY <2>2, CancelPolicyAwards
  <2>3. ASSUME ExpirePolicies PROVE AreAwards
    BY <2>3, ExpirePoliciesAwards
  <2>4. ASSUME NEW id \in DOMAIN claims, NEW approved \in BOOLEAN,
               MoveToDispute(id) \/ ProcessClaim(id, approved)
        PROVE  AreAwards
    BY <2>4, MoveToDisputeAwards, ProcessClaimAwards
  <2>5. ASSUME NEW ids \in SeqOf(DOMAIN claims, MaxClaims), NEW approved \in BOOLEAN,
               BatchClaims(ids, approved)
        PROVE  AreAwards
    BY <2>5, BatchClaimsAwards
  <2>6. ASSUME NEW t \in TreatyTerms, RegisterReinsurance(t) PROVE AreAwards
    BY <2>6, OtherAwards DEF RegisterReinsurance, policyVars
  <2> QED
    BY <1>3, <2>1, <2>2, <2>3, <2>4, <2>5, <2>6 DEF AdminNext
<1>4. ASSUME BreakerStep PROVE AreAwards
  BY <1>4, OtherAwards DEF BreakerStep, policyVars
<1>5. ASSUME NEW n \in Stakes, StakeIn(n) \/ StakeOut(n) PROVE AreAwards
  BY <1>5, CapitalAwards
<1> QED
  BY <1>1, <1>2, <1>3, <1>4, <1>5 DEF InsuranceNext

\* For any batch of claims, in any order and with repetitions, and any amounts:
\* each policy's total grows by what the claims on it that the step pays were
\* awarded, and the pool's by what all of them were.
THEOREM PaymentsAreAwarded == InsuranceSpec => PayoutsAreAwards
<1>1. PolicyInv /\ [InsuranceNext]_insuranceVars => [AreAwards]_insuranceVars
  BY StepAwards
<1> QED
  BY <1>1, PolicyInitInv, PolicyStepInv, PTL DEF InsuranceSpec, PayoutsAreAwards, AreAwards
=============================================================================
