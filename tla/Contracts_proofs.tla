--------------------------- MODULE Contracts_proofs ---------------------------
(***************************************************************************)
(* TLAPS proofs about the four Soroban contracts of MCContracts, each on   *)
(* its own: the risk pool, slashing, governance and the escrow.  They hold *)
(* for every set of accounts, amount, weight, threshold and timelock.      *)
(***************************************************************************)
EXTENDS RiskPool, Slashing, Governance, Escrow, Operators_proofs

-----------------------------------------------------------------------------
(* The risk pool.                                                          *)

\* The inductive invariant: the types, the accounting equations and the sum of
\* the stakes, each inductive together with the types alone.
PoolInv ==
  /\ PoolTypeOK
  /\ TokensExplainAvailable
  /\ CapitalExplained
  /\ StateRootIsFresh
  /\ StakesExplainTotal

(* A change of one stake changes the sum of the stakes by as much. *)
LEMMA StakeSum ==
  ASSUME NEW old \in [Providers -> Nat], NEW p \in Providers,
         NEW new \in [Providers -> Nat], \A q \in Providers : q # p => new[q] = old[q]
  PROVE  /\ SumFunctionOnSet(old, Providers) \in Int
         /\ SumFunctionOnSet(new, Providers)
              = SumFunctionOnSet(old, Providers) - old[p] + new[p]
<1>1. /\ old \in [Providers -> Int] /\ new \in [Providers -> Int]
  OBVIOUS
<1> QED BY <1>1, SumUpdate, PoolAssumption

(* A transfer between typed balances leaves typed balances. *)
LEMMA TransferType ==
  ASSUME balance \in [Accounts -> Nat], poolTokens \in Nat,
         NEW a \in Accounts, NEW n \in Int,
         TransferIn(a, n) \/ TransferOut(a, n)
  PROVE  /\ balance' \in [Accounts -> Nat]
         /\ poolTokens' \in Nat
         /\ n \in Nat
  BY DEF TransferIn, TransferOut

(* A refreshed root is typed and fresh whenever the statistics are typed. *)
LEMMA RootType ==
  ASSUME NEW e \in PoolEvents, RefreshStateRoot(e), totalCapital' \in Int, availableCapital' \in Nat,
         claimsPaid' \in Nat, poolVersion' \in Versions
  PROVE  /\ stateRoot' \in [total : Int, available : Nat, paid : Nat,
                            version : Versions, event : PoolEvents]
         /\ StateRootIsFresh'
  BY DEF RefreshStateRoot, RootOf, StateRootIsFresh

\* A pool in which nobody has staked yet, whatever its version and roles.
PoolEmpty ==
  /\ stake = [p \in Providers |-> 0]
  /\ totalCapital = 0 /\ availableCapital = 0 /\ claimsPaid = 0
  /\ poolVersion \in Versions
  /\ stateRoot = RootOf(0, 0, 0, poolVersion, "NONE")
  /\ poolRoles \subseteq Roles
  /\ balance = [a \in Accounts |-> IF a \in Providers THEN Supply ELSE 0]
  /\ poolTokens = 0 /\ slashed = 0

(* An empty pool satisfies the invariant. *)
LEMMA PoolEmptyInv == PoolEmpty => PoolInv
<1> SUFFICES ASSUME PoolEmpty PROVE PoolInv
  OBVIOUS
<1>1. balance \in [Accounts -> Nat]
  BY PoolAssumption DEF PoolEmpty
<1>2. PoolTypeOK
  BY <1>1 DEF PoolEmpty, PoolTypeOK, RootOf, PoolEvents
<1>3. TokensExplainAvailable /\ CapitalExplained /\ StateRootIsFresh
  BY DEF PoolEmpty, TokensExplainAvailable, CapitalExplained, StateRootIsFresh,
         RootOf
<1>4. StakesExplainTotal
  <2>1. \A p \in Providers : stake[p] = 0
    BY DEF PoolEmpty
  <2>2. SumFunctionOnSet(stake, Providers) = 0
    BY <2>1, SumOfZeros, PoolAssumption
  <2> QED BY <2>2 DEF PoolEmpty, StakesExplainTotal
<1> QED
  BY <1>2, <1>3, <1>4 DEF PoolInv

(* The pool starts empty. *)
LEMMA PoolInitInv == PoolInit => PoolInv
<1>1. PoolInit => PoolEmpty
  BY DEF PoolInit, PoolEmpty
<1> QED BY <1>1, PoolEmptyInv

\* A call of an entry point, with whatever amount.
PoolCall ==
  \/ \E r \in Roles : PoolSetRole(r)
  \/ \E p \in Providers, n \in Int :
       DepositLiquidity(p, n) \/ WithdrawLiquidity(p, n) \/ AbsorbSlash(p, n)
  \/ \E a \in Accounts, n \in Int : PayoutClaim(a, n)
  \/ \E v \in Versions : PoolMigrate(v)

(* Every entry point preserves the invariant, whoever calls it with what amount. *)
LEMMA PoolCallInv == PoolInv /\ [PoolCall]_poolVars => PoolInv'
<1> SUFFICES ASSUME PoolInv, [PoolCall]_poolVars PROVE PoolInv'
  OBVIOUS
<1> USE DEF PoolInv
<1>t. /\ stake \in [Providers -> Nat]
      /\ totalCapital \in Int /\ availableCapital \in Nat
      /\ claimsPaid \in Nat /\ poolVersion \in Versions
      /\ poolTokens \in Nat /\ slashed \in Nat
      /\ balance \in [Accounts -> Nat]
      /\ poolRoles \subseteq Roles
  BY DEF PoolTypeOK
<1>e. /\ availableCapital = poolTokens + slashed
      /\ totalCapital + slashed = availableCapital + claimsPaid
      /\ SumFunctionOnSet(stake, Providers) + slashed = totalCapital
  BY DEF TokensExplainAvailable, CapitalExplained, StakesExplainTotal
<1>1. ASSUME NEW r \in Roles, PoolSetRole(r) PROVE PoolInv'
  BY <1>1 DEF PoolSetRole, books, PoolTypeOK, TokensExplainAvailable,
              CapitalExplained, StateRootIsFresh, StakesExplainTotal
<1>2. ASSUME NEW p \in Providers, NEW n \in Int, DepositLiquidity(p, n)
      PROVE  PoolInv'
  <2>1. n \in Int /\ p \in Accounts /\ TransferIn(p, n)
    BY <1>2 DEF Accounts, DepositLiquidity
  <2>2. /\ balance' \in [Accounts -> Nat] /\ poolTokens' \in Nat
        /\ n \in Nat /\ poolTokens' = poolTokens + n
    BY <1>t, <2>1, TransferType DEF TransferIn
  <2>3. /\ totalCapital' = totalCapital + n
        /\ availableCapital' = availableCapital + n
        /\ stake' = [stake EXCEPT ![p] = @ + n]
        /\ UNCHANGED <<claimsPaid, poolVersion, poolRoles, slashed>>
        /\ RefreshStateRoot("DEPOSIT")
    BY <1>2 DEF DepositLiquidity
  <2>4. /\ stateRoot' \in [total : Int, available : Nat, paid : Nat,
                           version : Versions, event : PoolEvents]
        /\ StateRootIsFresh'
    BY <1>t, <2>2, <2>3, RootType DEF PoolEvents
  <2>5. PoolTypeOK'
    BY <1>t, <2>2, <2>3, <2>4 DEF PoolTypeOK
  <2>6. TokensExplainAvailable' /\ CapitalExplained'
    BY <1>t, <1>e, <2>2, <2>3 DEF TokensExplainAvailable, CapitalExplained
  <2>7. StakesExplainTotal'
    <3>1. /\ stake' \in [Providers -> Nat] /\ stake'[p] = stake[p] + n
          /\ \A q \in Providers : q # p => stake'[q] = stake[q]
      BY <1>t, <2>2, <2>3, <2>5 DEF PoolTypeOK
    <3>2. /\ SumFunctionOnSet(stake, Providers) \in Int
          /\ SumFunctionOnSet(stake', Providers)
               = SumFunctionOnSet(stake, Providers) - stake[p] + stake'[p]
      BY <1>t, <3>1, StakeSum
    <3> QED BY <1>t, <1>e, <3>1, <3>2, <2>2, <2>3 DEF StakesExplainTotal
  <2> QED
    BY <2>4, <2>5, <2>6, <2>7
<1>3. ASSUME NEW p \in Providers, NEW n \in Int, WithdrawLiquidity(p, n)
      PROVE  PoolInv'
  <2>1. n \in Int /\ p \in Accounts /\ TransferOut(p, n)
    BY <1>3 DEF Accounts, WithdrawLiquidity
  <2>2. /\ balance' \in [Accounts -> Nat] /\ poolTokens' \in Nat
        /\ n \in Nat /\ poolTokens' = poolTokens - n
    BY <1>t, <2>1, TransferType DEF TransferOut
  <2>3. /\ totalCapital' = totalCapital - n
        /\ availableCapital' = availableCapital - n
        /\ availableCapital' \in Nat
        /\ stake' = [stake EXCEPT ![p] = @ - n]
        /\ stake[p] >= n
        /\ UNCHANGED <<claimsPaid, poolVersion, poolRoles, slashed>>
        /\ RefreshStateRoot("WITHDRAW")
    BY <1>t, <1>3, <2>2 DEF WithdrawLiquidity
  <2>4. /\ stateRoot' \in [total : Int, available : Nat, paid : Nat,
                           version : Versions, event : PoolEvents]
        /\ StateRootIsFresh'
    BY <1>t, <2>2, <2>3, RootType DEF PoolEvents
  <2>5. PoolTypeOK'
    BY <1>t, <2>2, <2>3, <2>4 DEF PoolTypeOK
  <2>6. TokensExplainAvailable' /\ CapitalExplained'
    BY <1>t, <1>e, <2>2, <2>3 DEF TokensExplainAvailable, CapitalExplained
  <2>7. StakesExplainTotal'
    <3>1. /\ stake' \in [Providers -> Nat] /\ stake'[p] = stake[p] - n
          /\ \A q \in Providers : q # p => stake'[q] = stake[q]
      BY <1>t, <2>2, <2>3, <2>5 DEF PoolTypeOK
    <3>2. /\ SumFunctionOnSet(stake, Providers) \in Int
          /\ SumFunctionOnSet(stake', Providers)
               = SumFunctionOnSet(stake, Providers) - stake[p] + stake'[p]
      BY <1>t, <3>1, StakeSum
    <3> QED BY <1>t, <1>e, <3>1, <3>2, <2>2, <2>3 DEF StakesExplainTotal
  <2> QED
    BY <2>4, <2>5, <2>6, <2>7
<1>4. ASSUME NEW p \in Providers, NEW n \in Int, AbsorbSlash(p, n)
      PROVE  PoolInv'
  <2>1. n \in Nat /\ stake[p] >= n
    BY <1>t, <1>4 DEF AbsorbSlash
  <2>2. /\ availableCapital' = availableCapital + n
        /\ slashed' = slashed + n
        /\ stake' = [stake EXCEPT ![p] = @ - n]
        /\ UNCHANGED <<totalCapital, claimsPaid, poolVersion, poolRoles,
                       balance, poolTokens>>
        /\ RefreshStateRoot("SLASHED")
    BY <1>4 DEF AbsorbSlash
  <2>3. /\ stateRoot' \in [total : Int, available : Nat, paid : Nat,
                           version : Versions, event : PoolEvents]
        /\ StateRootIsFresh'
    BY <1>t, <2>1, <2>2, RootType DEF PoolEvents
  <2>4. PoolTypeOK'
    BY <1>t, <2>1, <2>2, <2>3 DEF PoolTypeOK
  <2>5. TokensExplainAvailable' /\ CapitalExplained'
    BY <1>t, <1>e, <2>1, <2>2 DEF TokensExplainAvailable, CapitalExplained
  <2>6. StakesExplainTotal'
    <3>1. /\ stake' \in [Providers -> Nat] /\ stake'[p] = stake[p] - n
          /\ \A q \in Providers : q # p => stake'[q] = stake[q]
      BY <1>t, <2>1, <2>2, <2>4 DEF PoolTypeOK
    <3>2. /\ SumFunctionOnSet(stake, Providers) \in Int
          /\ SumFunctionOnSet(stake', Providers)
               = SumFunctionOnSet(stake, Providers) - stake[p] + stake'[p]
      BY <1>t, <3>1, StakeSum
    <3> QED BY <1>t, <1>e, <3>1, <3>2, <2>1, <2>2 DEF StakesExplainTotal
  <2> QED
    BY <2>3, <2>4, <2>5, <2>6
<1>5. ASSUME NEW a \in Accounts, NEW n \in Int, PayoutClaim(a, n)
      PROVE  PoolInv'
  <2>1. n \in Int /\ TransferOut(a, n)
    BY <1>5 DEF PayoutClaim
  <2>2. /\ balance' \in [Accounts -> Nat] /\ poolTokens' \in Nat
        /\ n \in Nat /\ poolTokens' = poolTokens - n
    BY <1>t, <2>1, TransferType DEF TransferOut
  <2>3. /\ claimsPaid' = claimsPaid + n
        /\ availableCapital' = availableCapital - n
        /\ availableCapital' \in Nat
        /\ UNCHANGED <<stake, totalCapital, poolVersion, poolRoles, slashed>>
        /\ RefreshStateRoot("PAYOUT")
    BY <1>t, <1>5, <2>2 DEF PayoutClaim
  <2>4. /\ stateRoot' \in [total : Int, available : Nat, paid : Nat,
                           version : Versions, event : PoolEvents]
        /\ StateRootIsFresh'
    BY <1>t, <2>2, <2>3, RootType DEF PoolEvents
  <2>5. PoolTypeOK'
    BY <1>t, <2>2, <2>3, <2>4 DEF PoolTypeOK
  <2>6. TokensExplainAvailable' /\ CapitalExplained'
    BY <1>t, <1>e, <2>2, <2>3 DEF TokensExplainAvailable, CapitalExplained
  <2>7. StakesExplainTotal'
    BY <1>e, <2>3 DEF StakesExplainTotal
  <2> QED
    BY <2>4, <2>5, <2>6, <2>7
<1>6. ASSUME NEW v \in Versions, PoolMigrate(v) PROVE PoolInv'
  <2>1. /\ poolVersion' = v /\ RefreshStateRoot("MIGRATED")
        /\ UNCHANGED <<stake, totalCapital, availableCapital, claimsPaid,
                       poolRoles, balance, poolTokens, slashed>>
    BY <1>6 DEF PoolMigrate, books
  <2>2. /\ stateRoot' \in [total : Int, available : Nat, paid : Nat,
                           version : Versions, event : PoolEvents]
        /\ StateRootIsFresh'
    BY <1>t, <2>1, RootType DEF PoolEvents
  <2>3. /\ PoolTypeOK' /\ TokensExplainAvailable' /\ CapitalExplained'
        /\ StakesExplainTotal'
    BY <1>t, <1>e, <2>1, <2>2
    DEF PoolTypeOK, TokensExplainAvailable, CapitalExplained, StakesExplainTotal
  <2> QED
    BY <2>2, <2>3
<1>7. CASE UNCHANGED poolVars
  BY <1>7 DEF poolVars, PoolTypeOK, TokensExplainAvailable, CapitalExplained,
              StateRootIsFresh, StakesExplainTotal
<1> QED
  BY <1>1, <1>2, <1>3, <1>4, <1>5, <1>6, <1>7 DEF PoolCall

(* So does every step of the pool. *)
LEMMA PoolStepInv == PoolInv /\ [PoolNext]_poolVars => PoolInv'
<1>1. [PoolNext]_poolVars => [PoolCall]_poolVars
  BY PoolAssumption DEF PoolNext, PoolCall
<1> QED BY <1>1, PoolCallInv

(* The invariant holds in every reachable state. *)
THEOREM PoolInvariance == PoolSpec => []PoolInv
  BY PoolInitInv, PoolStepInv, PTL DEF PoolSpec

(* Stakes, balances, available capital and claims paid are never negative. *)
THEOREM PoolTypeCorrect == PoolSpec => []PoolTypeOK
<1>1. PoolInv => PoolTypeOK
  BY DEF PoolInv
<1> QED
  BY <1>1, PoolInvariance, PTL

(* The books exceed the tokens by exactly what was slashed, and total       *)
(* capital is what is available or paid, less what was slashed.             *)
THEOREM PoolBooks == PoolSpec => []BooksBalance
<1>1. PoolInv => BooksBalance
  BY DEF PoolInv, BooksBalance
<1> QED
  BY <1>1, PoolInvariance, PTL

(* The stakes of the providers and the slashed ones add up to the total      *)
(* capital, for any finite set of providers.                                *)
THEOREM StakesAddUp == PoolSpec => []StakesExplainTotal
<1>1. PoolInv => StakesExplainTotal
  BY DEF PoolInv
<1> QED
  BY <1>1, PoolInvariance, PTL

(* The state root commits to the current statistics in every state. *)
THEOREM PoolRoot == PoolSpec => []StateRootIsFresh
<1>1. PoolInv => StateRootIsFresh
  BY DEF PoolInv
<1> QED
  BY <1>1, PoolInvariance, PTL

(* The books balance and the root commits to them, for every set of        *)
(* accounts, supply, minimum stake and amounts.                            *)
THEOREM BooksAreRooted == PoolSpec => []RootedBooks
  BY PoolBooks, PoolRoot, PTL DEF RootedBooks

-----------------------------------------------------------------------------
(* Slashing.  CooldownSpacing relates two neighbours of a trimmed history. *)

(* No recorded violation lies in the future. *)
NotFuture ==
  \A o \in Offences : \A i \in 1 .. Len(history[o]) : history[o][i].timestamp <= now

SlashInv == SlashTypeOK /\ HistoryIsRecent /\ CooldownSpacing /\ NotFuture

-----------------------------------------------------------------------------
\* How many entries make room for a new one.
Trimmed(h) == IF Len(h) >= MaxHistory THEN 1 ELSE 0

(* Recorded appends the entry and shifts the others by what it trims. *)
LEMMA RecordedShape ==
  ASSUME NEW R, NEW h \in Seq(R), NEW e \in R
  PROVE  /\ Recorded(h, e) \in Seq(R)
         /\ Len(Recorded(h, e)) = Len(h) + 1 - Trimmed(h)
         /\ \A i \in 1 .. Len(h) - Trimmed(h) : Recorded(h, e)[i] = h[i + Trimmed(h)]
         /\ Recorded(h, e)[Len(h) + 1 - Trimmed(h)] = e
<1> DEFINE k == Trimmed(h)
<1>1. Len(h) \in Nat /\ MaxHistory \in Nat /\ MaxHistory >= 1
  BY SlashingAssumption
<1>2. CASE Len(h) >= MaxHistory
  <2>1. h # <<>> /\ Recorded(h, e) = Append(Tail(h), e) /\ k = 1
    BY <1>1, <1>2 DEF Recorded, Trimmed
  <2>2. Tail(h) \in Seq(R) /\ Len(Tail(h)) = Len(h) - 1
    BY <2>1
  <2>3. \A i \in 1 .. Len(h) - 1 : Tail(h)[i] = h[i + 1]
    BY <2>1
  <2> DEFINE s == Tail(h)
             a == Append(s, e)
  <2>4. /\ a \in Seq(R) /\ Len(a) = Len(s) + 1
        /\ \A i \in 1 .. Len(s) : a[i] = s[i]
        /\ a[Len(s) + 1] = e
    BY <2>2
  <2>5. Len(h) + 1 - k = Len(h) /\ Len(s) + 1 = Len(h) /\ Len(h) - k = Len(s)
    BY <1>1, <2>1, <2>2
  <2>6. \A i \in 1 .. Len(s) : a[i] = h[i + k]
    BY <2>1, <2>2, <2>3, <2>4
  <2> HIDE DEF a, s, k
  <2>7. Recorded(h, e) = a
    BY <2>1 DEF a, s
  <2>8. Recorded(h, e)[Len(h) + 1 - k] = e
    BY <2>4, <2>5, <2>7
  <2> QED
    BY <2>4, <2>5, <2>6, <2>7, <2>8 DEF k
<1>3. CASE ~(Len(h) >= MaxHistory)
  BY <1>1, <1>3 DEF Recorded, Trimmed
<1> QED
  BY <1>2, <1>3

(* A synchronisation, a pause and the rest keep the breaker's type. *)
LEMMA BreakerTypes ==
  ASSUME SlashTypeOK
  PROVE  /\ now \in Time
         /\ SyncResult(slashBreaker, now) \in BreakerState({Governor})
         /\ \A d \in Nat : PauseAccepted(slashBreaker, now, d) =>
              PauseResult(slashBreaker, now, d, Governor) \in BreakerState({Governor})
         /\ EmergencyResult(slashBreaker, now, Governor) \in BreakerState({Governor})
         /\ ResumeScheduledResult(slashBreaker, now) \in BreakerState({Governor})
         /\ Cleared \in BreakerState({Governor})
<1>1. now \in Time /\ slashBreaker \in BreakerState({Governor})
  BY SlashingAssumption, LedgerAssumption, TimelockAssumption DEF SlashTypeOK, Time
<1>2. ResumeScheduledResult(slashBreaker, now) \in BreakerState({Governor})
  BY <1>1 DEF ResumeScheduledResult, BreakerState, OptTime
<1> QED
  BY <1>1, <1>2, SyncType, PauseType, EmergencyType, ClearedType

-----------------------------------------------------------------------------
LEMMA SlashInitInv == SlashInit => SlashInv
<1> SUFFICES ASSUME SlashInit PROVE SlashInv
  OBVIOUS
<1>1. SlashTypeOK
  BY ClearedType, LedgerAssumption DEF SlashInit, SlashTypeOK, OptTime
<1>2. HistoryIsRecent
  BY SlashingAssumption DEF SlashInit, HistoryIsRecent
<1>3. CooldownSpacing /\ NotFuture
  BY DEF SlashInit, CooldownSpacing, NotFuture
<1> QED
  BY <1>1, <1>2, <1>3 DEF SlashInv

(* What slash_funds appends keeps the history typed, recent and spaced. *)
LEMMA SlashKeeps ==
  ASSUME SlashInv, NEW t \in Targets, NEW r \in SlashRoles,
         NEW n \in I128, SlashFunds(t, r, n), now' = now
  PROVE  SlashInv'
<1> DEFINE o == <<t, r>>
           h == history[o]
           e == [amount |-> n, timestamp |-> now, cooldown |-> cooldown[r]]
           k == Trimmed(h)
<1>1. /\ o \in Offences
      /\ violations \in [Offences -> Nat]
      /\ history \in [Offences -> Seq(SlashingRecord)]
      /\ now \in 0 .. MaxTime /\ now \in Nat
      /\ cooldown[r] \in OptTime
  BY LedgerAssumption DEF SlashInv, SlashTypeOK, Offences
<1>2. /\ violations' = [violations EXCEPT ![o] = @ + 1]
      /\ history' = [history EXCEPT ![o] = Recorded(@, e)]
      /\ CanBeSlashed(t, r)
  BY DEF SlashFunds
<1>3. h \in Seq(SlashingRecord) /\ e \in SlashingRecord /\ Len(h) \in Nat /\ k \in {0, 1}
  <2>1. h \in Seq(SlashingRecord) /\ e \in SlashingRecord
    BY <1>1 DEF SlashingRecord
  <2>2. Len(h) \in Nat
    BY <2>1
  <2> QED
    BY <2>1, <2>2 DEF Trimmed
<1>4. e.timestamp = now /\ e.cooldown = cooldown[r]
  OBVIOUS
<1> HIDE DEF e, k
<1>5. /\ Recorded(h, e) \in Seq(SlashingRecord)
      /\ Len(Recorded(h, e)) = Len(h) + 1 - k
      /\ \A i \in 1 .. Len(h) - k : Recorded(h, e)[i] = h[i + k]
      /\ Recorded(h, e)[Len(h) + 1 - k] = e
  BY <1>3, RecordedShape DEF k
<1>6. /\ history'[o] = Recorded(h, e)
      /\ violations'[o] = violations[o] + 1
      /\ \A p \in Offences \ {o} : history'[p] = history[p] /\ violations'[p] = violations[p]
  BY <1>1, <1>2
<1>7. SlashTypeOK'
  <2>1. slashBreaker' \in BreakerState({Governor})
    BY BreakerTypes DEF SlashInv, SlashFunds, NotPaused
  <2>2. violations' \in [Offences -> Nat]
    BY <1>1, <1>2
  <2>3. history' \in [Offences -> Seq(SlashingRecord)]
    BY <1>1, <1>2, <1>5
  <2> QED
    BY <2>1, <2>2, <2>3 DEF SlashInv, SlashTypeOK, SlashFunds
<1>8. HistoryIsRecent'
  <2>1. \A p \in Offences \ {o} :
          Len(history'[p]) = IF violations'[p] <= MaxHistory THEN violations'[p] ELSE MaxHistory
    BY <1>6 DEF SlashInv, HistoryIsRecent
  <2>2. Len(h) = IF violations[o] <= MaxHistory THEN violations[o] ELSE MaxHistory
    BY <1>1 DEF SlashInv, HistoryIsRecent
  <2>3. Len(history'[o]) = IF violations'[o] <= MaxHistory THEN violations'[o] ELSE MaxHistory
    BY <1>1, <1>3, <1>5, <1>6, <2>2, SlashingAssumption DEF k, Trimmed
  <2> QED
    BY <2>1, <2>3 DEF HistoryIsRecent
<1>9. NotFuture'
  <2>1. \A p \in Offences \ {o} : \A i \in 1 .. Len(history'[p]) : history'[p][i].timestamp <= now
    BY <1>6 DEF SlashInv, NotFuture
  <2>2. \A i \in 1 .. Len(h) : h[i].timestamp <= now
    BY <1>1 DEF SlashInv, NotFuture
  <2>3. ASSUME NEW i \in 1 .. Len(history'[o]) PROVE history'[o][i].timestamp <= now
    <3>1. CASE i = Len(h) + 1 - k
      BY <1>1, <1>4, <1>5, <1>6, <3>1
    <3>2. CASE i # Len(h) + 1 - k
      <4>1. i \in 1 .. Len(h) - k /\ i + k \in 1 .. Len(h)
        BY <1>3, <1>5, <1>6, <3>2
      <4> QED
        BY <1>5, <1>6, <2>2, <4>1
    <3> QED
      BY <3>1, <3>2
  <2> QED
    BY <2>1, <2>3 DEF NotFuture
<1>10. CooldownSpacing'
  <2>1. \A p \in Offences \ {o} : \A i \in 1 .. Len(history'[p]) - 1 :
          Spaced(history'[p][i], history'[p][i + 1])
    BY <1>6 DEF SlashInv, CooldownSpacing
  <2>2. \A i \in 1 .. Len(h) - 1 : Spaced(h[i], h[i + 1])
    BY <1>1 DEF SlashInv, CooldownSpacing
  <2>3. ASSUME NEW i \in 1 .. Len(history'[o]) - 1
        PROVE  Spaced(history'[o][i], history'[o][i + 1])
    <3>1. i \in 1 .. Len(h) - k /\ i + k \in 1 .. Len(h) /\ history'[o][i] = h[i + k]
      <4>1. i \in 1 .. Len(h) - k /\ i + k \in 1 .. Len(h)
        BY <1>3, <1>5, <1>6
      <4> QED
        BY <1>5, <1>6, <4>1
    <3>2. CASE i = Len(h) - k
      <4>1. history'[o][i + 1] = e /\ history'[o][i] = h[Len(h)] /\ h # <<>>
        BY <1>3, <1>5, <1>6, <3>1, <3>2
      <4>2. h[Len(h)] \in SlashingRecord /\ h[Len(h)].timestamp <= now
        BY <1>1, <1>3, <3>1, <3>2 DEF SlashInv, NotFuture
      <4>3. h[Len(h)].timestamp \in Nat
        BY <4>2, LedgerAssumption DEF SlashingRecord
      <4>4. cooldown[r] # None => now >= WrappingEnd(h[Len(h)].timestamp, cooldown[r])
        BY <1>2, <4>1 DEF CanBeSlashed
      <4>5. Spaced(h[Len(h)], e)
        BY <1>1, <1>4, <4>2, <4>3, <4>4, TimelockAssumption
        DEF Spaced, WrappingEnd, OptTime, Time
      <4> QED
        BY <4>1, <4>5
    <3>3. CASE i # Len(h) - k
      <4>1. i + 1 \in 1 .. Len(h) - k /\ (i + 1) + k = (i + k) + 1 /\ i + k \in 1 .. Len(h) - 1
        BY <1>3, <3>1, <3>3
      <4>2. history'[o][i + 1] = h[(i + 1) + k]
        BY <1>5, <1>6, <4>1
      <4> QED
        BY <2>2, <3>1, <4>1, <4>2
    <3> QED
      BY <3>2, <3>3
  <2> QED
    BY <2>1, <2>3 DEF CooldownSpacing
<1> QED
  BY <1>7, <1>8, <1>9, <1>10 DEF SlashInv

(* A step that records nothing keeps what is said of the records. *)
LEMMA RecordsKeep ==
  ASSUME SlashInv, UNCHANGED slashRecords, SlashTypeOK', now' >= now
  PROVE  SlashInv'
<1>1. HistoryIsRecent' /\ CooldownSpacing'
  BY DEF SlashInv, HistoryIsRecent, CooldownSpacing, slashRecords
<1>2. NotFuture'
  <2> SUFFICES ASSUME NEW o \in Offences, NEW i \in 1 .. Len(history[o])
               PROVE  history[o][i].timestamp <= now'
    BY DEF NotFuture, slashRecords
  <2>1. history[o] \in Seq(SlashingRecord) /\ history[o][i].timestamp <= now
    BY DEF SlashInv, SlashTypeOK, NotFuture
  <2>2. history[o][i] \in SlashingRecord
    BY <2>1
  <2>3. history[o][i].timestamp \in Int /\ now \in Int /\ now' \in Int
    BY <2>2, LedgerAssumption DEF SlashInv, SlashTypeOK, SlashingRecord
  <2> QED
    BY <2>1, <2>3
<1> QED
  BY <1>1, <1>2 DEF SlashInv

LEMMA SlashNextInv == SlashInv /\ [SlashStep]_<<now, slashVars>> => SlashInv'
<1> SUFFICES ASSUME SlashInv, [SlashStep]_<<now, slashVars>> PROVE SlashInv'
  OBVIOUS
<1>1. /\ SlashTypeOK /\ now \in Nat
      /\ cooldown \in [SlashRoles -> OptTime]
      /\ Cooldowns \subseteq OptTime
  BY LedgerAssumption, SlashingAssumption DEF SlashInv, SlashTypeOK, OptTime
<1>2. ASSUME NEW t \in Targets, NEW r \in SlashRoles, NEW n \in SlashAmounts,
             SlashFunds(t, r, n), now' = now
      PROVE  SlashInv'
  BY <1>2, SlashKeeps, SlashingAssumption
<1>3. ASSUME NEW r \in {"Admin", "Governance"}, SlashSetRole(r), now' = now
      PROVE  UNCHANGED slashRecords /\ SlashTypeOK'
  BY <1>1, <1>3 DEF SlashSetRole, slashRecords, SlashTypeOK
<1>4. ASSUME NEW r \in SlashRoles, NEW s \in Cooldowns,
             ConfigurePenaltyParameters(r, s), now' = now
      PROVE  UNCHANGED slashRecords /\ SlashTypeOK'
  <2>1. cooldown' \in [SlashRoles -> OptTime]
    BY <1>1, <1>4 DEF ConfigurePenaltyParameters
  <2> QED
    BY <1>1, <1>4, <2>1 DEF ConfigurePenaltyParameters, slashRecords, SlashTypeOK
<1>5. ASSUME NEW r \in SlashRoles, AddSlashableRole(r) \/ RemoveSlashableRole(r), now' = now
      PROVE  UNCHANGED slashRecords /\ SlashTypeOK'
  BY <1>1, <1>5 DEF AddSlashableRole, RemoveSlashableRole, slashRecords, SlashTypeOK
<1>6. ASSUME \/ \E d \in PauseLengths : SlashPause(d)
             \/ SlashEmergencyPause \/ SlashResume \/ SlashIsPaused,
             now' = now
      PROVE  UNCHANGED slashRecords /\ SlashTypeOK'
  <2>1. slashBreaker' \in BreakerState({Governor})
    BY <1>1, <1>6, BreakerTypes, SlashingAssumption
    DEF SlashPause, SlashEmergencyPause, SlashResume, SlashIsPaused
  <2>2. UNCHANGED <<slashRecords, slashable, cooldown, slashRoles>>
    BY <1>6 DEF SlashPause, SlashEmergencyPause, SlashResume, SlashIsPaused
  <2> QED
    BY <1>1, <1>6, <2>1, <2>2 DEF slashRecords, SlashTypeOK
<1>7. ASSUME Tick, UNCHANGED slashVars PROVE SlashInv'
  <2>1. now' \in 0 .. MaxTime /\ now' >= now
    BY <1>1, <1>7, LedgerAssumption DEF Tick
  <2>2. SlashTypeOK' /\ UNCHANGED slashRecords
    BY <1>1, <1>7, <2>1 DEF SlashTypeOK, slashVars, slashRecords
  <2> QED
    BY <2>1, <2>2, RecordsKeep
<1>8. CASE UNCHANGED <<now, slashVars>>
  BY <1>1, <1>8 DEF SlashInv, SlashTypeOK, HistoryIsRecent, CooldownSpacing, NotFuture, slashVars
<1>9. now' = now => now' >= now
  BY <1>1
<1> QED
  BY <1>2, <1>3, <1>4, <1>5, <1>6, <1>7, <1>8, <1>9, RecordsKeep
  DEF SlashStep, SlashNext

(* The inductive invariant holds of every reachable state. *)
THEOREM SlashInvariance == SlashSpec => []SlashInv
  BY SlashInitInv, SlashNextInv, PTL DEF SlashSpec

(* Counters, histories and the breaker keep their types: no accepted pause *)
(* or resume of the embedded breaker stores a time beyond u64.             *)
THEOREM SlashTypeCorrect == SlashSpec => []SlashTypeOK
<1>1. SlashInv => SlashTypeOK
  BY DEF SlashInv
<1> QED
  BY <1>1, SlashInvariance, PTL

(* The capped history always holds the most recent violations. *)
THEOREM HistoryFollowsCounter == SlashSpec => []HistoryIsRecent
<1>1. SlashInv => HistoryIsRecent
  BY DEF SlashInv
<1> QED
  BY <1>1, SlashInvariance, PTL

(* Violations are spaced by the cooldown, however often the history is     *)
(* trimmed and the cooldown reconfigured, for every cap and cooldown.      *)
THEOREM ViolationsAreSpaced == SlashSpec => []CooldownSpacing
<1>1. SlashInv => CooldownSpacing
  BY DEF SlashInv
<1> QED
  BY <1>1, SlashInvariance, PTL

(* The trimmed history is recent and spaced, for every cap and cooldowns.  *)
THEOREM TrimmedHistory == SlashSpec => []HistoryIsSound
  BY HistoryFollowsCounter, ViolationsAreSpaced, PTL DEF HistoryIsSound

(* A paused contract records no violation. *)
LEMMA PausedStep ==
  [SlashStep]_<<now, slashVars>> =>
    [IsPaused(slashBreaker, now) => UNCHANGED slashRecords]_slashVars
<1> SUFFICES ASSUME [SlashStep]_<<now, slashVars>>, IsPaused(slashBreaker, now)
             PROVE  UNCHANGED slashRecords \/ UNCHANGED slashVars
  OBVIOUS
<1>1. ASSUME NEW t \in Targets, NEW r \in SlashRoles, NEW n \in SlashAmounts
      PROVE  ~SlashFunds(t, r, n)
  BY DEF SlashFunds, NotPaused
<1> QED
  BY <1>1 DEF SlashStep, SlashNext, SlashSetRole, ConfigurePenaltyParameters,
       AddSlashableRole, RemoveSlashableRole, SlashPause, SlashEmergencyPause,
       SlashResume, SlashIsPaused, slashRecords, slashVars

(* While the slashing contract is paused (its breaker, asked first in        *)
(* slash_funds) no violation is recorded, whoever is the caller.            *)
THEOREM PauseStopsSlashing == SlashSpec => NoViolationWhilePaused
  BY PausedStep, PTL DEF SlashSpec, NoViolationWhilePaused

-----------------------------------------------------------------------------
(* Governance.                                                             *)

\* What every entry point relies on when it reads the storage.  Inductive.
GovInv == GovTypeOK /\ DecisionsStand

-----------------------------------------------------------------------------
(* A sum of the contract is an integer. *)
LEMMA WrappingType ==
  ASSUME NEW x \in Int, NEW y \in Int PROVE WrappingAdd(x, y) \in Int
  BY LedgerAssumption DEF WrappingAdd

(* Whether a proposal passes depends on its votes and threshold alone. *)
LEMMA PassesCongruence ==
  ASSUME NEW p, NEW q, p.yes = q.yes, p.no = q.no, p.threshold = q.threshold
  PROVE  Passes(p) = Passes(q)
  BY DEF Passes

(* The parts of the invariant, proposal by proposal, in the form in which *)
(* the steps use them.                                                    *)
LEMMA ProposalFacts ==
  ASSUME GovInv, NEW id \in DOMAIN proposals
  PROVE  /\ proposals[id] \in Proposal
         /\ id \in 1 .. Len(proposals)
         /\ proposals[id].finalized => now > proposals[id].expires
         /\ proposals[id].executed => proposals[id].finalized
         /\ proposals[id].executed => Passes(proposals[id])
         /\ id \in DOMAIN pending => ~proposals[id].executed
  BY DEF GovInv, GovTypeOK, DecisionsStand, FinalizedIsOver, ExecutedPasses,
         PendingIsUnexecuted

-----------------------------------------------------------------------------
(* The initial state satisfies the invariant. *)
LEMMA GovInitInv == GovInit => GovInv
  BY LedgerAssumption
  DEF GovInit, GovInv, GovTypeOK, DecisionsStand, FinalizedIsOver,
      ExecutedPasses, PendingIsUnexecuted

(* A later time preserves it: what is over stays over. *)
LEMMA GovTickInv == GovInv /\ Tick /\ UNCHANGED govVars => GovInv'
<1> SUFFICES ASSUME GovInv, Tick, UNCHANGED govVars PROVE GovInv'
  OBVIOUS
<1>1. /\ proposals' = proposals /\ pending' = pending /\ votes' = votes
      /\ now \in 0 .. MaxTime /\ now' = now + 1 /\ now < MaxTime
  BY DEF govVars, Tick, GovInv, GovTypeOK
<1>2. GovTypeOK'
  BY <1>1, LedgerAssumption DEF GovInv, GovTypeOK
<1>3. FinalizedIsOver'
  <2> SUFFICES ASSUME NEW id \in DOMAIN proposals
               PROVE  /\ proposals[id].finalized => now' > proposals[id].expires
                      /\ proposals[id].executed => proposals[id].finalized
    BY <1>1 DEF FinalizedIsOver
  <2>1. proposals[id].expires \in Nat
    BY ProposalFacts DEF Proposal
  <2> QED
    BY <1>1, <2>1, ProposalFacts, LedgerAssumption
<1>4. ExecutedPasses' /\ PendingIsUnexecuted'
  <2> SUFFICES ASSUME NEW id \in DOMAIN proposals
               PROVE  /\ proposals[id].executed => Passes(proposals[id])
                      /\ id \in DOMAIN pending => ~proposals[id].executed
    BY <1>1 DEF ExecutedPasses, PendingIsUnexecuted, GovInv, GovTypeOK
  <2> QED
    BY ProposalFacts
<1> QED
  BY <1>2, <1>3, <1>4 DEF GovInv, DecisionsStand

(* A new proposal is neither finalized nor executed, and its action, if it *)
(* has one, is stored under its own id.                                    *)
LEMMA ProposeInv ==
  ASSUME GovInv, NEW a \in Actions, NEW t \in Thresholds, Propose(a, t),
         UNCHANGED now
  PROVE  GovInv'
<1> DEFINE n == Len(proposals) + 1
           p == [ expires |-> now + VotingPeriod, threshold |-> t,
                  yes |-> 0, no |-> 0, finalized |-> FALSE, executed |-> FALSE ]
<1>1. /\ proposals \in Seq(Proposal) /\ proposals' = Append(proposals, p)
      /\ votes' = votes /\ now' = now /\ now \in 0 .. MaxTime
  BY DEF Propose, GovInv, GovTypeOK
<1>2. p \in Proposal
  <2>1. now + VotingPeriod \in Nat /\ t \in Nat
    BY <1>1, GovernanceAssumption, LedgerAssumption
  <2> QED
    BY <2>1 DEF Proposal
<1>3. ~p.finalized /\ ~p.executed
  OBVIOUS
<1> HIDE DEF p
<1>4. /\ proposals' \in Seq(Proposal)
      /\ DOMAIN proposals = 1 .. Len(proposals)
      /\ DOMAIN proposals' = DOMAIN proposals \union {n}
      /\ \A id \in DOMAIN proposals : proposals'[id] = proposals[id]
      /\ proposals'[n] = p
      /\ n \notin DOMAIN proposals
      /\ Len(proposals') = n
  BY <1>1, <1>2
<1>5. /\ DOMAIN pending' \subseteq DOMAIN pending \union {n}
      /\ \A id \in DOMAIN pending' : pending'[id] \in Actions \ {NoAction}
  BY <1>4 DEF Propose, Having, GovInv, GovTypeOK
<1>6. GovTypeOK'
  BY <1>1, <1>4, <1>5 DEF GovInv, GovTypeOK
<1>7. ASSUME NEW id \in DOMAIN proposals'
      PROVE  /\ proposals'[id].finalized => now' > proposals'[id].expires
             /\ proposals'[id].executed => proposals'[id].finalized
             /\ proposals'[id].executed => Passes(proposals'[id])
             /\ id \in DOMAIN pending' => ~proposals'[id].executed
  <2>1. CASE id = n
    BY <2>1, <1>3, <1>4
  <2>2. CASE id \in DOMAIN proposals
    BY <2>2, <1>1, <1>4, <1>5, ProposalFacts
  <2> QED
    BY <1>4, <2>1, <2>2
<1>8. DOMAIN pending' \subseteq DOMAIN proposals'
  BY <1>6 DEF GovTypeOK
<1> QED
  BY <1>6, <1>7, <1>8
  DEF GovInv, DecisionsStand, FinalizedIsOver, ExecutedPasses,
      PendingIsUnexecuted

(* Steps that replace one proposal by another with the same end and the same *)
(* threshold, keep the records' types, and leave or shrink the pending       *)
(* actions, preserve the invariant when the new proposal is in order.        *)
LEMMA ReplaceInv ==
  ASSUME GovInv, UNCHANGED now,
         NEW id \in DOMAIN proposals, NEW p \in Proposal,
         proposals' = [proposals EXCEPT ![id] = p],
         p.finalized => now > p.expires,
         p.executed => p.finalized,
         p.executed => Passes(p),
         pending' = pending \/ pending' = Without(pending, id),
         id \in DOMAIN pending' => ~p.executed,
         DOMAIN votes' \subseteq (DOMAIN proposals) \X Voters,
         \A v \in DOMAIN votes' : votes'[v] \in VoteRecord
  PROVE  GovInv'
<1>1. /\ proposals \in Seq(Proposal) /\ now' = now /\ now \in 0 .. MaxTime
      /\ DOMAIN pending \subseteq DOMAIN proposals
      /\ \A i \in DOMAIN pending : pending[i] \in Actions \ {NoAction}
  BY DEF GovInv, GovTypeOK
<1>2. /\ proposals' \in Seq(Proposal)
      /\ DOMAIN proposals' = DOMAIN proposals
      /\ proposals'[id] = p
      /\ \A i \in DOMAIN proposals : i # id => proposals'[i] = proposals[i]
  BY <1>1
<1>3. /\ DOMAIN pending' \subseteq DOMAIN pending
      /\ \A i \in DOMAIN pending' : pending'[i] = pending[i]
  BY DEF Without
<1>4. GovTypeOK'
  BY <1>1, <1>2, <1>3 DEF GovTypeOK
<1>5. ASSUME NEW i \in DOMAIN proposals'
      PROVE  /\ proposals'[i].finalized => now' > proposals'[i].expires
             /\ proposals'[i].executed => proposals'[i].finalized
             /\ proposals'[i].executed => Passes(proposals'[i])
             /\ i \in DOMAIN pending' => ~proposals'[i].executed
  <2>1. CASE i = id
    BY <2>1, <1>1, <1>2
  <2>2. CASE i # id
    BY <2>2, <1>1, <1>2, <1>3, ProposalFacts
  <2> QED
    BY <2>1, <2>2
<1>6. DOMAIN pending' \subseteq DOMAIN proposals'
  BY <1>4 DEF GovTypeOK
<1> QED
  BY <1>4, <1>5, <1>6
  DEF GovInv, DecisionsStand, FinalizedIsOver, ExecutedPasses,
      PendingIsUnexecuted

(* A vote reaches only a proposal whose time is not over, hence none that *)
(* is finalized or executed.                                              *)
LEMMA VoteInv ==
  ASSUME GovInv, UNCHANGED now, NEW id \in DOMAIN proposals, NEW v \in Voters,
         NEW w \in Weights, NEW y \in BOOLEAN, Vote(id, v, w, y)
  PROVE  GovInv' /\ ~proposals[id].finalized
<1>1. /\ proposals[id] \in Proposal
      /\ now \in Nat /\ now <= proposals[id].expires
      /\ w \in Int
  BY ProposalFacts, GovernanceAssumption, LedgerAssumption
  DEF Vote, GovInv, GovTypeOK, I128
<1>2. ~proposals[id].finalized /\ ~proposals[id].executed
  BY <1>1, ProposalFacts DEF Proposal
<1> DEFINE p == IF y THEN [proposals[id] EXCEPT !.yes = WrappingAdd(@, w)]
                     ELSE [proposals[id] EXCEPT !.no = WrappingAdd(@, w)]
<1>3. p \in Proposal
  <2>1. /\ WrappingAdd(proposals[id].yes, w) \in Int
        /\ WrappingAdd(proposals[id].no, w) \in Int
    BY <1>1, WrappingType DEF Proposal
  <2> QED
    BY <1>1, <2>1 DEF Proposal
<1>4. ~p.finalized /\ ~p.executed
  BY <1>1, <1>2 DEF Proposal
<1>5. proposals' = [proposals EXCEPT ![id] = p] /\ pending' = pending
  BY DEF Vote
<1>6. /\ DOMAIN votes' \subseteq (DOMAIN proposals) \X Voters
      /\ \A b \in DOMAIN votes' : votes'[b] \in VoteRecord
  BY DEF Vote, Having, GovInv, GovTypeOK, VoteRecord
<1> HIDE DEF p
<1>7. GovInv'
  BY <1>3, <1>4, <1>5, <1>6, ReplaceInv
<1> QED
  BY <1>2, <1>7

(* Finalizing changes no vote and no decision. *)
LEMMA FinalizeInv ==
  ASSUME GovInv, UNCHANGED now, NEW id \in DOMAIN proposals,
         FinalizeProposal(id)
  PROVE  GovInv'
<1> DEFINE q == proposals[id]
           p == [q EXCEPT !.finalized = TRUE]
<1>1. /\ q \in Proposal /\ now > q.expires
      /\ q.executed => Passes(q)
      /\ id \in DOMAIN pending => ~q.executed
  BY ProposalFacts DEF FinalizeProposal
<1>2. /\ p \in Proposal /\ p.finalized
      /\ p.executed = q.executed /\ p.expires = q.expires
      /\ p.yes = q.yes /\ p.no = q.no /\ p.threshold = q.threshold
  BY <1>1 DEF Proposal
<1>3. Passes(p) = Passes(q)
  BY <1>2, PassesCongruence
<1>4. /\ proposals' = [proposals EXCEPT ![id] = p]
      /\ pending' = pending /\ votes' = votes
  BY DEF FinalizeProposal
<1>5. /\ DOMAIN votes' \subseteq (DOMAIN proposals) \X Voters
      /\ \A b \in DOMAIN votes' : votes'[b] \in VoteRecord
  BY <1>4 DEF GovInv, GovTypeOK
<1> HIDE DEF p, q
<1> QED
  BY <1>1, <1>2, <1>3, <1>4, <1>5, ReplaceInv

(* An execution marks a proposal that passes and takes its action away. *)
LEMMA ExecuteInv ==
  ASSUME GovInv, UNCHANGED now, NEW id \in DOMAIN proposals,
         ExecuteProposal(id)
  PROVE  GovInv'
<1> DEFINE q == proposals[id]
           p == [q EXCEPT !.executed = TRUE]
<1>1. /\ q \in Proposal /\ q.finalized /\ now > q.expires /\ Passes(q)
  BY ProposalFacts DEF ExecuteProposal
<1>2. /\ p \in Proposal /\ p.finalized = q.finalized /\ p.expires = q.expires
      /\ p.yes = q.yes /\ p.no = q.no /\ p.threshold = q.threshold
  BY <1>1 DEF Proposal
<1>3. Passes(p) = Passes(q)
  BY <1>2, PassesCongruence
<1>4. /\ proposals' = [proposals EXCEPT ![id] = p]
      /\ pending' = Without(pending, id) /\ votes' = votes
      /\ id \notin DOMAIN pending'
  BY DEF ExecuteProposal, Without
<1>5. /\ DOMAIN votes' \subseteq (DOMAIN proposals) \X Voters
      /\ \A b \in DOMAIN votes' : votes'[b] \in VoteRecord
  BY <1>4 DEF GovInv, GovTypeOK
<1> HIDE DEF p, q
<1> QED
  BY <1>1, <1>2, <1>3, <1>4, <1>5, ReplaceInv

(* Everything but the execution preserves the invariant. *)
LEMMA DeliberateInv == GovInv /\ Deliberate /\ UNCHANGED now => GovInv'
<1> SUFFICES ASSUME GovInv, Deliberate, UNCHANGED now PROVE GovInv'
  OBVIOUS
<1>1. ASSUME NEW t \in Thresholds,
             \/ CreateProposal(t)
             \/ CreateSlashingProposal(t)
             \/ CreateClaimApprovalProposal(t)
             \/ CreateFundAllocationProposal(t)
             \/ CreatePolicyChangeProposal(t)
             \/ CreatePauseProposal(t)
      PROVE  GovInv'
  <2>1. \E a \in Actions : Propose(a, t)
    BY <1>1
    DEF CreateProposal, CreateSlashingProposal, CreateClaimApprovalProposal,
        CreateFundAllocationProposal, CreatePolicyChangeProposal,
        CreatePauseProposal, ActionsOf
  <2> QED
    BY <2>1, ProposeInv
<1>2. ASSUME NEW id \in DOMAIN proposals,
             \/ \E v \in Voters, w \in Weights, y \in BOOLEAN : Vote(id, v, w, y)
             \/ FinalizeProposal(id)
      PROVE  GovInv'
  BY <1>2, VoteInv, FinalizeInv
<1> QED
  BY <1>1, <1>2 DEF Deliberate

(* Every step of the contract preserves the invariant. *)
LEMMA GovStepInv == GovInv /\ [GovStep]_<<now, govVars>> => GovInv'
<1> SUFFICES ASSUME GovInv, [GovStep]_<<now, govVars>> PROVE GovInv'
  OBVIOUS
<1>1. CASE Tick /\ UNCHANGED govVars
  BY <1>1, GovTickInv
<1>2. CASE Deliberate /\ UNCHANGED now
  BY <1>2, DeliberateInv
<1>3. ASSUME NEW id \in DOMAIN proposals, ExecuteProposal(id), UNCHANGED now
      PROVE  GovInv'
  BY <1>3, ExecuteInv
<1>4. CASE UNCHANGED <<now, govVars>>
  BY <1>4
  DEF govVars, GovInv, GovTypeOK, DecisionsStand, FinalizedIsOver,
      ExecutedPasses, PendingIsUnexecuted
<1> QED
  BY <1>1, <1>2, <1>3, <1>4 DEF GovStep

-----------------------------------------------------------------------------
(* GovInv holds in every reachable state. *)
THEOREM GovInvariance == GovSpec => []GovInv
<1> QED
  BY GovInitInv, GovStepInv, PTL DEF GovSpec

(* Proposals, pending actions and vote records have their types. *)
THEOREM GovTypeCorrect == GovSpec => []GovTypeOK
<1>1. GovInv => GovTypeOK
  BY DEF GovInv
<1> QED
  BY <1>1, GovInvariance, PTL

(* lib.rs finalize_proposal and execute_proposal: a decision stands, whatever *)
(* is voted, finalized or executed after it.                                  *)
THEOREM DecisionsNeverFall == GovSpec => []DecisionsStand
<1>1. GovInv => DecisionsStand
  BY DEF GovInv
<1> QED
  BY <1>1, GovInvariance, PTL

(* No call changes a vote of a finalized proposal: what vote's own guard *)
(* (the expiry, never the flag) leaves open is closed by finalize's.     *)
THEOREM FinalTally == GovSpec => TallyIsFrozen
<1> DEFINE Frozen == \A id \in DOMAIN proposals : proposals[id].finalized =>
                        /\ proposals'[id].yes = proposals[id].yes
                        /\ proposals'[id].no = proposals[id].no
<1>1. GovInv /\ [GovStep]_<<now, govVars>> => [Frozen]_govVars
  <2> SUFFICES ASSUME GovInv, GovStep, NEW id \in DOMAIN proposals,
                      proposals[id].finalized, proposals' # proposals
               PROVE  /\ proposals'[id].yes = proposals[id].yes
                      /\ proposals'[id].no = proposals[id].no
    BY DEF govVars
  <2>1. proposals \in Seq(Proposal) /\ proposals[id] \in Proposal
    BY ProposalFacts DEF GovInv, GovTypeOK
  <2>2. ASSUME NEW a, NEW t, Propose(a, t)
        PROVE  proposals'[id] = proposals[id]
    BY <2>1, <2>2 DEF Propose
  <2>3. ASSUME NEW i \in DOMAIN proposals, NEW v \in Voters, NEW w \in Weights,
               NEW y \in BOOLEAN, Vote(i, v, w, y), UNCHANGED now
        PROVE  proposals'[id] = proposals[id]
    <3>1. ~proposals[i].finalized
      BY <2>3, VoteInv
    <3>2. i # id
      BY <3>1
    <3> QED
      BY <2>1, <2>3, <3>2 DEF Vote
  <2>4. ASSUME NEW i \in DOMAIN proposals,
               FinalizeProposal(i) \/ ExecuteProposal(i)
        PROVE  /\ proposals'[id].yes = proposals[id].yes
               /\ proposals'[id].no = proposals[id].no
    <3>1. proposals[i] \in Proposal /\ proposals \in Seq(Proposal)
      BY ProposalFacts DEF GovInv, GovTypeOK
    <3>2. \/ proposals' = [proposals EXCEPT ![i].finalized = TRUE]
          \/ proposals' = [proposals EXCEPT ![i].executed = TRUE]
      BY <2>4 DEF FinalizeProposal, ExecuteProposal
    <3>3. CASE i # id
      <4>1. proposals'[id] = proposals[id]
        BY <2>1, <3>1, <3>2, <3>3
      <4> QED
        BY <4>1
    <3>4. CASE i = id
      <4>1. CASE proposals' = [proposals EXCEPT ![i].finalized = TRUE]
        <5>1. proposals'[id] = [proposals[id] EXCEPT !.finalized = TRUE]
          BY <2>1, <3>1, <3>4, <4>1
        <5> QED
          BY <3>1, <3>4, <5>1 DEF Proposal
      <4>2. CASE proposals' = [proposals EXCEPT ![i].executed = TRUE]
        <5>1. proposals'[id] = [proposals[id] EXCEPT !.executed = TRUE]
          BY <2>1, <3>1, <3>4, <4>2
        <5> QED
          BY <3>1, <3>4, <5>1 DEF Proposal
      <4> QED
        BY <3>2, <4>1, <4>2
    <3> QED
      BY <3>3, <3>4
  <2> QED
    BY <2>2, <2>3, <2>4
    DEF GovStep, govVars, Deliberate, CreateProposal, CreateSlashingProposal,
        CreateClaimApprovalProposal, CreateFundAllocationProposal,
        CreatePolicyChangeProposal, CreatePauseProposal
<1> QED
  BY <1>1, GovInvariance, PTL DEF GovSpec, TallyIsFrozen

-----------------------------------------------------------------------------
(* The tally.                                                              *)

\* What it takes that no sum of weights, taken a hundred times, leaves i128.
WeightsFit ==
  \E n \in Nat : /\ Weights \subseteq -n .. n
                 /\ 100 * (n * Cardinality(Voters)) <= I128Max

\* Inductive when no sum of weights wraps: each sum is that of its records.
TallyOK ==
  \A id \in DOMAIN proposals :
    /\ proposals[id].yes = WeightOf(Cast(id, {TRUE}))
    /\ proposals[id].no = WeightOf(Cast(id, {FALSE}))
    /\ proposals[id].yes + proposals[id].no = WeightOf(Cast(id, BOOLEAN))

\* No sum of weights wraps, and neither does a hundred times one.
SumsFit ==
  \A id, c : /\ WeightOf(Cast(id, c)) \in Int
             /\ 100 * WeightOf(Cast(id, c)) <= I128Max
             /\ -I128Max <= 100 * WeightOf(Cast(id, c))

\* The records of vs at S, weighed.
Weigh(vs, S) == SumFunctionOnSet([v \in DOMAIN vs |-> vs[v].weight], S)

(* Records that weigh the same. *)
LEMMA WeighAgrees ==
  ASSUME NEW S, IsFiniteSet(S), NEW vs, NEW ws, S \subseteq DOMAIN vs, S \subseteq DOMAIN ws,
         \A v \in S : ws[v].weight = vs[v].weight
  PROVE  Weigh(ws, S) = Weigh(vs, S)
<1> DEFINE f == [v \in DOMAIN vs |-> vs[v].weight]
           g == [v \in DOMAIN ws |-> ws[v].weight]
<1>1. \A v \in S : g[v] = f[v]
  OBVIOUS
<1> HIDE DEF f, g
<1>2. SumFunctionOnSet(g, S) = SumFunctionOnSet(f, S)
  BY <1>1, SumAgrees
<1> QED BY <1>2 DEF Weigh, f, g

(* One more record. *)
LEMMA WeighAdd ==
  ASSUME NEW S, IsFiniteSet(S), NEW vs, S \subseteq DOMAIN vs, NEW e \in DOMAIN vs, e \notin S,
         vs[e].weight \in Int, \A v \in S : vs[v].weight \in Int
  PROVE  Weigh(vs, S \union {e}) = Weigh(vs, S) + vs[e].weight
<1> DEFINE f == [v \in DOMAIN vs |-> vs[v].weight]
<1>1. f[e] = vs[e].weight /\ f[e] \in Int
  OBVIOUS
<1>2. \A v \in S : f[v] \in Int
  OBVIOUS
<1> HIDE DEF f
<1>3. SumFunctionOnSet(f, S \union {e}) = f[e] + SumFunctionOnSet(f, S)
  BY <1>1, <1>2, SumAdd
<1>4. SumFunctionOnSet(f, S) \in Int
  BY <1>2, SumType
<1> QED BY <1>1, <1>3, <1>4 DEF Weigh, f

(* A proposal has at most one record of each voter. *)
LEMMA CastFinite ==
  ASSUME GovTypeOK, NEW id, NEW c
  PROVE  /\ IsFiniteSet(Cast(id, c)) /\ Cast(id, c) \subseteq DOMAIN votes
         /\ Cardinality(Cast(id, c)) \in Nat /\ Cardinality(Voters) \in Nat
         /\ Cardinality(Cast(id, c)) <= Cardinality(Voters)
         /\ \A v \in Cast(id, c) : votes[v].weight \in Weights /\ votes[v].weight \in Int
<1>1. Cast(id, c) \in SUBSET ({id} \X Voters)
  BY DEF Cast, GovTypeOK
<1>2. IsFiniteSet(Voters) /\ IsFiniteSet({id}) /\ Cardinality({id}) = 1
      /\ Cardinality(Voters) \in Nat
  BY GovernanceAssumption, FS_Singleton, FS_CardinalityType
<1>3. /\ IsFiniteSet({id} \X Voters)
      /\ Cardinality({id} \X Voters) = 1 * Cardinality(Voters)
  BY <1>2, FS_Product
<1>4. /\ IsFiniteSet(Cast(id, c)) /\ Cardinality(Cast(id, c)) \in Nat
      /\ Cardinality(Cast(id, c)) <= Cardinality({id} \X Voters)
  BY <1>1, <1>3, FS_Subset, FS_CardinalityType
<1>5. ASSUME NEW v \in Cast(id, c) PROVE votes[v].weight \in Weights /\ votes[v].weight \in Int
  <2>1. votes[v] \in VoteRecord
    BY DEF Cast, GovTypeOK
  <2>2. votes[v].weight \in Weights
    BY <2>1 DEF VoteRecord
  <2>3. \A w \in Weights : w \in Int
    BY GovernanceAssumption DEF I128
  <2> QED BY <2>2, <2>3
<1> QED BY <1>2, <1>3, <1>4, <1>5 DEF Cast

(* A product grows with its first factor. *)
LEMMA ProductGrows ==
  ASSUME NEW x \in Nat, NEW y \in Nat, NEW n \in Nat, x <= y
  PROVE  x * n <= y * n /\ n * x <= n * y /\ n * x \in Int /\ n * y \in Int
  OBVIOUS

(* No sum of the records of a proposal wraps. *)
LEMMA NoSumWraps == ASSUME WeightsFit PROVE GovTypeOK => SumsFit
<1> SUFFICES ASSUME GovTypeOK, NEW id, NEW c
             PROVE  /\ WeightOf(Cast(id, c)) \in Int
                    /\ 100 * WeightOf(Cast(id, c)) <= I128Max
                    /\ -I128Max <= 100 * WeightOf(Cast(id, c))
  BY DEF SumsFit
<1> PICK n \in Nat : Weights \subseteq -n .. n /\ 100 * (n * Cardinality(Voters)) <= I128Max
  BY DEF WeightsFit
<1> DEFINE S == Cast(id, c)
           f == [v \in DOMAIN votes |-> votes[v].weight]
           k == Cardinality(S)
           m == Cardinality(Voters)
<1>1. \A v \in S : f[v] \in -n .. n
  BY CastFinite
<1>2. IsFiniteSet(S) /\ k \in Nat /\ m \in Nat /\ k <= m
  BY CastFinite
<1>3. SumFunctionOnSet(f, S) = WeightOf(Cast(id, c))
  BY DEF WeightOf
<1>4. 100 * (n * m) <= I128Max
  OBVIOUS
<1> HIDE DEF f, S
<1>5. /\ SumFunctionOnSet(f, S) \in Int
      /\ SumFunctionOnSet(f, S) <= n * k
      /\ -(n * k) <= SumFunctionOnSet(f, S)
  BY <1>1, <1>2, SumBounded
<1> HIDE DEF k, m
<1>6. n * k <= n * m /\ n * k \in Int /\ n * m \in Int
  BY <1>2, ProductGrows
<1> QED BY <1>3, <1>4, <1>5, <1>6, LedgerAssumption

(* The same of the next state. *)
LEMMA NoSumWrapsNext == ASSUME WeightsFit PROVE GovTypeOK' => SumsFit'
<1>1. GovTypeOK => SumsFit
  BY NoSumWraps
<1> QED BY <1>1, PTL

(* A vote adds its weight to the sums it belongs to. *)
LEMMA VoteCounted ==
  ASSUME GovTypeOK, NEW id \in DOMAIN proposals, NEW v \in Voters, NEW w \in Weights,
         NEW y \in BOOLEAN, Vote(id, v, w, y), NEW i, NEW c
  PROVE  WeightOf(Cast(i, c))' = IF i = id /\ y \in c THEN WeightOf(Cast(i, c)) + w
                                                      ELSE WeightOf(Cast(i, c))
<1> DEFINE e == <<id, v>>
           S == Cast(i, c)
<1>1. /\ DOMAIN votes' = DOMAIN votes \union {e} /\ e \notin DOMAIN votes
      /\ votes'[e].weight = w /\ votes'[e].yes = y
      /\ \A x \in DOMAIN votes : votes'[x] = votes[x]
      /\ e[1] = id
  BY DEF Vote, Having
<1>2. /\ IsFiniteSet(S) /\ S \subseteq DOMAIN votes /\ e \notin S
      /\ \A x \in S : votes[x].weight \in Int
  BY <1>1, CastFinite
<1> HIDE DEF e
<1>3. S' = IF i = id /\ y \in c THEN S \union {e} ELSE S
  BY <1>1 DEF Cast
<1> HIDE DEF S
<1>4. Weigh(votes', S) = Weigh(votes, S)
  BY <1>1, <1>2, WeighAgrees
<1>5. Weigh(votes', S \union {e}) = Weigh(votes', S) + w
  <2>1. w \in Int
    BY GovernanceAssumption DEF I128
  <2>2. S \subseteq DOMAIN votes' /\ e \in DOMAIN votes' /\ \A x \in S : votes'[x].weight \in Int
    BY <1>1, <1>2
  <2> QED BY <1>1, <1>2, <2>1, <2>2, WeighAdd
<1>6. WeightOf(S) = Weigh(votes, S) /\ WeightOf(S)' = Weigh(votes', S')
  BY DEF WeightOf, Weigh
<1> QED BY <1>3, <1>4, <1>5, <1>6 DEF S

(* Steps that leave the votes alone, and the sums of the proposals there were, *)
(* keep the tally: a new proposal has no votes.                                *)
LEMMA TallyUntouched ==
  ASSUME GovTypeOK, TallyOK, UNCHANGED votes,
         \A id \in DOMAIN proposals :
           proposals'[id].yes = proposals[id].yes /\ proposals'[id].no = proposals[id].no,
         \A id \in DOMAIN proposals' : id \notin DOMAIN proposals =>
           proposals'[id].yes = 0 /\ proposals'[id].no = 0
  PROVE  TallyOK'
<1>1. \A id, c : WeightOf(Cast(id, c))' = WeightOf(Cast(id, c))
  BY DEF WeightOf, Cast
<1>2. ASSUME NEW id, NEW c, id \notin DOMAIN proposals PROVE WeightOf(Cast(id, c)) = 0
  <2>1. Cast(id, c) = {}
    BY <1>2 DEF Cast, GovTypeOK
  <2> QED BY <2>1, SumEmpty DEF WeightOf
<1>3. ASSUME NEW id \in DOMAIN proposals'
      PROVE  /\ proposals'[id].yes = WeightOf(Cast(id, {TRUE}))
             /\ proposals'[id].no = WeightOf(Cast(id, {FALSE}))
             /\ proposals'[id].yes + proposals'[id].no = WeightOf(Cast(id, BOOLEAN))
  <2>1. CASE id \in DOMAIN proposals
    BY <2>1 DEF TallyOK
  <2>2. CASE id \notin DOMAIN proposals
    BY <1>2, <2>2
  <2> QED BY <2>1, <2>2
<1> QED BY <1>1, <1>3 DEF TallyOK

(* A vote, when no sum wraps. *)
LEMMA VoteTallied ==
  ASSUME GovTypeOK, TallyOK, SumsFit, SumsFit',
         NEW id \in DOMAIN proposals, NEW v \in Voters, NEW w \in Weights,
         NEW y \in BOOLEAN, Vote(id, v, w, y)
  PROVE  TallyOK'
<1> DEFINE q == proposals[id]
<1>0. proposals \in Seq(Proposal) /\ q \in Proposal /\ w \in Int
  BY GovernanceAssumption DEF GovTypeOK, I128
<1>1. \A i, c : WeightOf(Cast(i, c))' = IF i = id /\ y \in c THEN WeightOf(Cast(i, c)) + w
                                                             ELSE WeightOf(Cast(i, c))
  BY VoteCounted
<1>2. \A i, c : /\ WeightOf(Cast(i, c)) \in Int
                /\ WeightOf(Cast(i, c))' <= I128Max /\ -I128Max <= WeightOf(Cast(i, c))'
  <2>1. \A i, c : /\ WeightOf(Cast(i, c))' \in Int
                  /\ 100 * WeightOf(Cast(i, c))' <= I128Max
                  /\ -I128Max <= 100 * WeightOf(Cast(i, c))'
    BY DEF SumsFit
  <2>2. \A x \in Int : 100 * x <= I128Max /\ -I128Max <= 100 * x => x <= I128Max /\ -I128Max <= x
    BY LedgerAssumption
  <2> QED BY <2>1, <2>2 DEF SumsFit
<1>3. CASE y
  <2> DEFINE n == WrappingAdd(q.yes, w)
  <2>1. n = q.yes + w
    <3>1. q.yes = WeightOf(Cast(id, {TRUE})) /\ q.yes \in Int
      BY <1>0 DEF TallyOK, Proposal
    <3>2. WeightOf(Cast(id, {TRUE}))' = q.yes + w
      BY <1>1, <1>3, <3>1
    <3> QED BY <1>0, <1>2, <3>1, <3>2, LedgerAssumption DEF WrappingAdd
  <2>2. proposals' = [proposals EXCEPT ![id] = [q EXCEPT !.yes = n]]
    BY <1>0, <1>3 DEF Vote, Proposal
  <2>3. [q EXCEPT !.yes = n].yes = n /\ [q EXCEPT !.yes = n].no = q.no
    BY <1>0 DEF Proposal
  <2> HIDE DEF n
  <2>4. /\ DOMAIN proposals' = DOMAIN proposals
        /\ proposals'[id].yes = q.yes + w /\ proposals'[id].no = q.no
        /\ \A i \in DOMAIN proposals : i # id => proposals'[i] = proposals[i]
    BY <1>0, <2>1, <2>2, <2>3
  <2>5. q.yes \in Int /\ q.no \in Int
    BY <1>0 DEF Proposal
  <2>6. /\ q.yes = WeightOf(Cast(id, {TRUE})) /\ q.no = WeightOf(Cast(id, {FALSE}))
        /\ q.yes + q.no = WeightOf(Cast(id, BOOLEAN))
    BY DEF TallyOK
  <2> HIDE DEF q
  <2>7. /\ q.yes + w = WeightOf(Cast(id, {TRUE}))'
        /\ q.no = WeightOf(Cast(id, {FALSE}))'
        /\ q.yes + q.no + w = WeightOf(Cast(id, BOOLEAN))'
    BY <1>1, <1>3, <2>6
  <2>8. proposals'[id].yes + proposals'[id].no = q.yes + q.no + w
    BY <1>0, <2>4, <2>5
  <2>9. ASSUME NEW i \in DOMAIN proposals, i # id
        PROVE  /\ proposals'[i].yes = WeightOf(Cast(i, {TRUE}))'
               /\ proposals'[i].no = WeightOf(Cast(i, {FALSE}))'
               /\ proposals'[i].yes + proposals'[i].no = WeightOf(Cast(i, BOOLEAN))'
    BY <1>1, <2>4, <2>9 DEF TallyOK
  <2> QED BY <2>4, <2>7, <2>8, <2>9 DEF TallyOK
<1>4. CASE ~y
  <2> DEFINE n == WrappingAdd(q.no, w)
  <2>1. n = q.no + w
    <3>1. q.no = WeightOf(Cast(id, {FALSE})) /\ q.no \in Int
      BY <1>0 DEF TallyOK, Proposal
    <3>2. WeightOf(Cast(id, {FALSE}))' = q.no + w
      BY <1>1, <1>4, <3>1
    <3> QED BY <1>0, <1>2, <3>1, <3>2, LedgerAssumption DEF WrappingAdd
  <2>2. proposals' = [proposals EXCEPT ![id] = [q EXCEPT !.no = n]]
    BY <1>0, <1>4 DEF Vote, Proposal
  <2>3. [q EXCEPT !.no = n].no = n /\ [q EXCEPT !.no = n].yes = q.yes
    BY <1>0 DEF Proposal
  <2> HIDE DEF n
  <2>4. /\ DOMAIN proposals' = DOMAIN proposals
        /\ proposals'[id].no = q.no + w /\ proposals'[id].yes = q.yes
        /\ \A i \in DOMAIN proposals : i # id => proposals'[i] = proposals[i]
    BY <1>0, <2>1, <2>2, <2>3
  <2>5. q.yes \in Int /\ q.no \in Int
    BY <1>0 DEF Proposal
  <2>6. /\ q.yes = WeightOf(Cast(id, {TRUE})) /\ q.no = WeightOf(Cast(id, {FALSE}))
        /\ q.yes + q.no = WeightOf(Cast(id, BOOLEAN))
    BY DEF TallyOK
  <2> HIDE DEF q
  <2>7. /\ q.no + w = WeightOf(Cast(id, {FALSE}))'
        /\ q.yes = WeightOf(Cast(id, {TRUE}))'
        /\ q.yes + q.no + w = WeightOf(Cast(id, BOOLEAN))'
    BY <1>1, <1>4, <2>6
  <2>8. proposals'[id].yes + proposals'[id].no = q.yes + q.no + w
    BY <1>0, <2>4, <2>5
  <2>9. ASSUME NEW i \in DOMAIN proposals, i # id
        PROVE  /\ proposals'[i].yes = WeightOf(Cast(i, {TRUE}))'
               /\ proposals'[i].no = WeightOf(Cast(i, {FALSE}))'
               /\ proposals'[i].yes + proposals'[i].no = WeightOf(Cast(i, BOOLEAN))'
    BY <1>1, <2>4, <2>9 DEF TallyOK
  <2> QED BY <2>4, <2>7, <2>8, <2>9 DEF TallyOK
<1> QED BY <1>3, <1>4

(* Every step of the contract keeps the tally, when no sum of weights wraps. *)
LEMMA TallyStep ==
  ASSUME WeightsFit
  PROVE  GovInv /\ TallyOK /\ [GovStep]_<<now, govVars>> => TallyOK'
<1> SUFFICES ASSUME GovInv, TallyOK, [GovStep]_<<now, govVars>> PROVE TallyOK'
  OBVIOUS
<1>0. /\ GovTypeOK /\ SumsFit /\ SumsFit'
      /\ proposals \in Seq(Proposal)
      /\ \A id \in DOMAIN proposals : proposals[id] \in Proposal
  <2>1. GovTypeOK /\ GovTypeOK'
    BY GovStepInv DEF GovInv
  <2> QED BY <2>1, NoSumWraps, NoSumWrapsNext DEF GovTypeOK
<1>1. CASE UNCHANGED govVars
  BY <1>0, <1>1, TallyUntouched DEF govVars
<1>2. ASSUME NEW a, NEW t, Propose(a, t) PROVE TallyOK'
  <2> DEFINE p == [ expires |-> now + VotingPeriod, threshold |-> t,
                    yes |-> 0, no |-> 0, finalized |-> FALSE, executed |-> FALSE ]
  <2>1. proposals' = Append(proposals, p) /\ votes' = votes
    BY <1>2 DEF Propose
  <2>2. p.yes = 0 /\ p.no = 0
    OBVIOUS
  <2> HIDE DEF p
  <2>3. /\ \A id \in DOMAIN proposals : proposals'[id] = proposals[id]
        /\ \A id \in DOMAIN proposals' : id \notin DOMAIN proposals => proposals'[id] = p
    BY <1>0, <2>1
  <2> QED BY <1>0, <2>1, <2>2, <2>3, TallyUntouched
<1>3. ASSUME NEW id \in DOMAIN proposals, NEW p, UNCHANGED votes,
             p.yes = proposals[id].yes, p.no = proposals[id].no,
             proposals' = [proposals EXCEPT ![id] = p]
      PROVE  TallyOK'
  <2>1. /\ DOMAIN proposals' = DOMAIN proposals
        /\ \A i \in DOMAIN proposals : proposals'[i].yes = proposals[i].yes
                                       /\ proposals'[i].no = proposals[i].no
    BY <1>0, <1>3
  <2> QED BY <1>0, <1>3, <2>1, TallyUntouched
<1>4. ASSUME NEW id \in DOMAIN proposals, FinalizeProposal(id) PROVE TallyOK'
  <2>1. /\ [proposals[id] EXCEPT !.finalized = TRUE].yes = proposals[id].yes
        /\ [proposals[id] EXCEPT !.finalized = TRUE].no = proposals[id].no
    BY <1>0 DEF Proposal
  <2> QED BY <1>3, <1>4, <2>1 DEF FinalizeProposal
<1>5. ASSUME NEW id \in DOMAIN proposals, ExecuteProposal(id) PROVE TallyOK'
  <2>1. /\ [proposals[id] EXCEPT !.executed = TRUE].yes = proposals[id].yes
        /\ [proposals[id] EXCEPT !.executed = TRUE].no = proposals[id].no
    BY <1>0 DEF Proposal
  <2> QED BY <1>3, <1>5, <2>1 DEF ExecuteProposal
<1>6. ASSUME NEW id \in DOMAIN proposals,
             \E v \in Voters, w \in Weights, y \in BOOLEAN : Vote(id, v, w, y)
      PROVE  TallyOK'
  BY <1>0, <1>6, VoteTallied
<1> QED
  BY <1>1, <1>2, <1>4, <1>5, <1>6
  DEF GovStep, govVars, Deliberate, CreateProposal, CreateSlashingProposal,
      CreateClaimApprovalProposal, CreateFundAllocationProposal,
      CreatePolicyChangeProposal, CreatePauseProposal

(* A share of at least t, computed with a division that rounds down. *)
LEMMA ShareOf ==
  ASSUME NEW x \in Nat, NEW y \in Nat, NEW t \in Nat, y > 0, x \div y >= t
  PROVE  x >= t * y
<1> DEFINE q == x \div y
<1>1. q \in Nat /\ q * y <= x
  OBVIOUS
<1>2. t <= q
  OBVIOUS
<1> HIDE DEF q
<1>3. t * y <= q * y
  BY <1>1, <1>2, ProductGrows
<1> QED BY <1>1, <1>3

(* A proposal that passes on sums that do not wrap, of which the yes votes and *)
(* the total are not negative, has its share.                                  *)
LEMMA PassingShare ==
  ASSUME NEW p \in Proposal, Passes(p), p.yes >= 0, p.yes + p.no >= 0,
         p.yes + p.no <= I128Max, 100 * p.yes <= I128Max
  PROVE  100 * p.yes >= p.threshold * (p.yes + p.no)
<1> DEFINE s == p.yes + p.no
           h == 100 * p.yes
<1>1. p.yes \in Nat /\ p.no \in Int /\ p.threshold \in Nat /\ s \in Nat /\ h \in Nat
  BY DEF Proposal
<1>2. WrappingAdd(p.yes, p.no) = s
  BY <1>1, LedgerAssumption DEF WrappingAdd
<1>3. p.yes * 100 = h
  BY <1>1
<1>4. s # 0 /\ Quotient(Wrapped(h), s) >= p.threshold
  BY <1>2, <1>3 DEF Passes
<1>5. h <= I128Max
  OBVIOUS
<1> HIDE DEF s, h
<1>6. Wrapped(h) = h
  <2> DEFINE a == h + I128Max + 1
             b == 2 * (I128Max + 1)
  <2>1. a \in Nat /\ b \in Nat /\ a < b /\ a - (I128Max + 1) = h
    BY <1>1, <1>5, LedgerAssumption
  <2>2. Wrapped(h) = (a % b) - (I128Max + 1)
    BY DEF Wrapped
  <2> HIDE DEF a, b
  <2>3. a % b = a
    BY <2>1
  <2> QED BY <2>1, <2>2, <2>3
<1>7. Quotient(h, s) = h \div s
  BY <1>1 DEF Quotient, Magnitude
<1>8. h >= p.threshold * s
  BY <1>1, <1>4, <1>6, <1>7, ShareOf
<1> QED BY <1>8 DEF s, h

(* What the records of an executed proposal show, when they are positive. *)
LEMMA SupportShown ==
  ASSUME GovInv, TallyOK, SumsFit, NEW id \in DOMAIN proposals, proposals[id].executed,
         \A v \in Cast(id, BOOLEAN) : votes[v].weight > 0
  PROVE  100 * WeightOf(Cast(id, {TRUE}))
           >= proposals[id].threshold * WeightOf(Cast(id, BOOLEAN))
<1> DEFINE p == proposals[id]
<1>1. GovTypeOK /\ p \in Proposal /\ Passes(p)
  BY ProposalFacts DEF GovInv
<1>2. ASSUME NEW c \in {{TRUE}, BOOLEAN} PROVE WeightOf(Cast(id, c)) \in Nat
  <2> DEFINE f == [v \in DOMAIN votes |-> votes[v].weight]
             S == Cast(id, c)
  <2>1. S \subseteq Cast(id, BOOLEAN)
    BY DEF Cast
  <2>2. IsFiniteSet(S) /\ \A v \in S : f[v] \in Nat
    BY <1>1, <2>1, CastFinite
  <2>3. WeightOf(Cast(id, c)) = SumFunctionOnSet(f, S)
    BY DEF WeightOf
  <2> HIDE DEF f, S
  <2> QED BY <2>2, <2>3, SumNonNegative
<1>3. /\ p.yes = WeightOf(Cast(id, {TRUE}))
      /\ p.yes + p.no = WeightOf(Cast(id, BOOLEAN))
  BY DEF TallyOK
<1>4. 100 * p.yes <= I128Max /\ 100 * (p.yes + p.no) <= I128Max
  BY <1>3 DEF SumsFit
<1>5. p.yes \in Nat /\ p.yes + p.no \in Nat
  BY <1>2, <1>3
<1> HIDE DEF p
<1>6. p.yes + p.no <= I128Max
  BY <1>4, <1>5, LedgerAssumption
<1>7. 100 * p.yes >= p.threshold * (p.yes + p.no)
  BY <1>1, <1>4, <1>5, <1>6, PassingShare
<1> QED BY <1>3, <1>7 DEF p

(* What the invariant says of the tally, when no sum of weights wraps. *)
LEMMA TallyShows == ASSUME WeightsFit, GovInv, TallyOK PROVE TallyIsHonest
<1>1. SumsFit
  BY NoSumWraps DEF GovInv
<1>2. VoteSumEqualsTotalWeight
  BY DEF TallyOK, VoteSumEqualsTotalWeight
<1>3. ExecutedHasSupport
  BY <1>1, SupportShown DEF ExecutedHasSupport
<1> QED BY <1>2, <1>3 DEF TallyIsHonest

(* The tally decides and the records explain it, as long as no sum of weights  *)
(* taken a hundred times leaves the i128 range: vote and execute_proposal      *)
(* compute with wrapping arithmetic.                                           *)
THEOREM HonestTally == WeightsFit => (GovSpec => []TallyIsHonest)
<1> SUFFICES ASSUME WeightsFit PROVE GovSpec => []TallyIsHonest
  OBVIOUS
<1>1. GovInit => TallyOK
  BY DEF GovInit, TallyOK
<1>2. GovInv /\ TallyOK /\ [GovStep]_<<now, govVars>> => TallyOK'
  BY TallyStep
<1>3. GovInv /\ TallyOK => TallyIsHonest
  BY TallyShows
<1> QED BY <1>1, <1>2, <1>3, GovInvariance, PTL DEF GovSpec

-----------------------------------------------------------------------------
(* The escrow contract.                                                    *)

\* Who has signed escrow id for a type.
Signed(id, t) == {p \in People : <<id, t, p>> \in signatures}

\* Each counter is the number of signatures it stands for.
CountersOK ==
  \A id \in DOMAIN escrows, t \in ApprovalType :
    /\ IsFiniteSet(Signed(id, t))
    /\ Count(id, t) = Cardinality(Signed(id, t))
    /\ Signed(id, t) \subseteq SignersOf(escrows[id])

\* One escrow whose status says how much it holds.
StatusOK(e) ==
  /\ e.status \in {"Created", "Released"} => e.deposited = 0
  /\ e.status = "Funded" => 0 < e.deposited /\ e.deposited < e.amount
  /\ e.status = "Active" => e.deposited = e.amount

\* A released escrow had what release_funds asks for, and still has it.
ReleaseOK ==
  \A id \in DOMAIN escrows : escrows[id].status = "Released" =>
    /\ escrows[id].lock # None => now >= escrows[id].lock
    /\ Count(id, "Release") >= escrows[id].required

\* The escrows created for a buyer.
Bought(b) == {id \in DOMAIN escrows : escrows[id].buyer = b}

\* What the entry points rely on when they read the storage.  Inductive.
EscrowInv ==
  /\ EscrowTypeOK
  /\ CountersOK
  /\ \A id \in DOMAIN escrows : StatusOK(escrows[id])
  /\ ReleaseOK
  /\ NonceCountsEscrows

-----------------------------------------------------------------------------
(* The types of one escrow and of the breaker, as the steps use them. *)
LEMMA EscrowFacts ==
  ASSUME EscrowTypeOK
  PROVE  /\ now \in Nat /\ now \in Time
         /\ escrowBreaker \in BreakerState({EscrowGovernor})
         /\ \A id \in DOMAIN escrows : escrows[id] \in EscrowData
<1>1. now \in 0 .. MaxTime
  BY DEF EscrowTypeOK
<1>2. now \in Nat /\ now \in Time
  BY <1>1, EscrowAssumption, LedgerAssumption, TimelockAssumption DEF Time
<1> QED
  BY <1>2 DEF EscrowTypeOK

(* What require_not_paused leaves behind is a breaker. *)
LEMMA NotPausedType ==
  ASSUME EscrowTypeOK, RequireNotPaused
  PROVE  escrowBreaker' \in BreakerState({EscrowGovernor})
  BY EscrowFacts, SyncType DEF RequireNotPaused

(* Nothing is signed, hence counted, for an escrow that does not exist. *)
LEMMA NoStrangers ==
  ASSUME EscrowTypeOK, NEW id, id \notin DOMAIN escrows, NEW t
  PROVE  Signed(id, t) = {} /\ Count(id, t) = 0
  BY DEF EscrowTypeOK, Signed, Count

(* The initial state satisfies the invariant. *)
LEMMA EscrowInitInv == EscrowInit => EscrowInv
<1> SUFFICES ASSUME EscrowInit PROVE EscrowInv
  OBVIOUS
<1>1. /\ now = 0 /\ escrows = <<>> /\ signatures = {}
      /\ DOMAIN sigCount = {} /\ nonces = [p \in People |-> 0]
      /\ storage \in {[version |-> 1, fee |-> None], [version |-> 2, fee |-> 0]}
      /\ escrowBreaker = Cleared
  BY DEF EscrowInit
<1>2. DOMAIN escrows = {} /\ escrows \in Seq(EscrowData)
  BY <1>1
<1>3. EscrowTypeOK
  <2>1. now \in 0 .. MaxTime
    BY <1>1, LedgerAssumption
  <2>2. escrowBreaker \in BreakerState({EscrowGovernor})
    BY <1>1, ClearedType
  <2>3. nonces \in [People -> Nat]
    BY <1>1
  <2> QED
    BY <1>1, <1>2, <2>1, <2>2, <2>3 DEF EscrowTypeOK
<1>4. CountersOK /\ ReleaseOK /\ \A id \in DOMAIN escrows : StatusOK(escrows[id])
  BY <1>2 DEF CountersOK, ReleaseOK
<1>5. NonceCountsEscrows
  <2> SUFFICES ASSUME NEW b \in People
               PROVE  nonces[b] = Cardinality({id \in DOMAIN escrows :
                                                escrows[id].buyer = b})
    BY DEF NonceCountsEscrows
  <2>1. {id \in DOMAIN escrows : escrows[id].buyer = b} = {}
    BY <1>2
  <2> QED
    BY <1>1, <2>1, FS_EmptySet
<1> QED
  BY <1>3, <1>4, <1>5 DEF EscrowInv

-----------------------------------------------------------------------------
(* Steps that leave the records alone.                                     *)

(* Time, the breaker and a migration change no record, and a lock that has *)
(* passed stays passed.                                                    *)
LEMMA RecordsKept ==
  ASSUME EscrowInv, UNCHANGED escrowRecords, now' \in now .. MaxTime,
         storage' \in {[version |-> 1, fee |-> None], [version |-> 2, fee |-> 0]},
         escrowBreaker' \in BreakerState({EscrowGovernor})
  PROVE  EscrowInv'
<1>1. /\ escrows' = escrows /\ signatures' = signatures
      /\ sigCount' = sigCount /\ nonces' = nonces
  BY DEF escrowRecords
<1>2. EscrowTypeOK /\ now \in Nat /\ now' \in 0 .. MaxTime /\ now <= now'
  <2>1. EscrowTypeOK /\ now \in Nat
    BY EscrowFacts DEF EscrowInv
  <2> QED
    BY <2>1, LedgerAssumption
<1>3. EscrowTypeOK'
  BY <1>1, <1>2 DEF EscrowTypeOK
<1>4. CountersOK'
  <2>1. ASSUME NEW id, NEW t
        PROVE  Signed(id, t)' = Signed(id, t) /\ Count(id, t)' = Count(id, t)
    BY <1>1 DEF Signed, Count
  <2> QED
    BY <1>1, <2>1 DEF EscrowInv, CountersOK
<1>5. ReleaseOK'
  <2> SUFFICES ASSUME NEW id \in DOMAIN escrows, escrows[id].status = "Released"
               PROVE  /\ escrows[id].lock # None => now' >= escrows[id].lock
                      /\ Count(id, "Release")' >= escrows[id].required
    BY <1>1 DEF ReleaseOK
  <2>1. escrows[id].lock \in Nat \union {None}
    BY <1>2, EscrowFacts DEF EscrowData
  <2>2. /\ escrows[id].lock # None => now >= escrows[id].lock
        /\ Count(id, "Release") >= escrows[id].required
    BY DEF EscrowInv, ReleaseOK
  <2>3. Count(id, "Release")' = Count(id, "Release")
    BY <1>1 DEF Count
  <2> QED
    BY <1>2, <2>1, <2>2, <2>3
<1>6. NonceCountsEscrows' /\ \A id \in DOMAIN escrows' : StatusOK(escrows'[id])
  BY <1>1 DEF EscrowInv, NonceCountsEscrows
<1> QED
  BY <1>3, <1>4, <1>5, <1>6 DEF EscrowInv

(* pause, emergency_pause, resume and is_paused leave a breaker. *)
LEMMA BreakerStepInv == EscrowInv /\ BreakerStep /\ UNCHANGED now => EscrowInv'
<1> SUFFICES ASSUME EscrowInv, BreakerStep, UNCHANGED now PROVE EscrowInv'
  OBVIOUS
<1>1. /\ EscrowTypeOK /\ now \in Time /\ now \in now .. MaxTime
      /\ escrowBreaker \in BreakerState({EscrowGovernor})
  <2>1. EscrowTypeOK
    BY DEF EscrowInv
  <2>2. now \in 0 .. MaxTime
    BY <2>1 DEF EscrowTypeOK
  <2> QED
    BY <2>1, <2>2, EscrowFacts, LedgerAssumption
<1>2. UNCHANGED escrowRecords /\ storage' = storage
  BY DEF BreakerStep
<1>3. escrowBreaker' \in BreakerState({EscrowGovernor})
  <2>1. ASSUME NEW d \in EscrowPauses,
               PauseAccepted(escrowBreaker, now, d),
               escrowBreaker' = PauseResult(escrowBreaker, now, d, EscrowGovernor)
        PROVE  escrowBreaker' \in BreakerState({EscrowGovernor})
    <3>1. d \in Nat
      BY EscrowAssumption
    <3> QED
      BY <1>1, <2>1, <3>1, PauseType
  <2>2. CASE escrowBreaker' = EmergencyResult(escrowBreaker, now, EscrowGovernor)
    BY <1>1, <2>2, EmergencyType
  <2>3. CASE escrowBreaker' = ResumeScheduledResult(escrowBreaker, now)
    BY <1>1, <2>3 DEF ResumeScheduledResult, BreakerState, OptTime
  <2>4. CASE escrowBreaker' = Cleared
    BY <2>4, ClearedType
  <2>5. CASE escrowBreaker' = SyncResult(escrowBreaker, now)
    BY <1>1, <2>5, SyncType
  <2> QED
    BY <2>1, <2>2, <2>3, <2>4, <2>5 DEF BreakerStep
<1>4. storage' \in {[version |-> 1, fee |-> None], [version |-> 2, fee |-> 0]}
  BY <1>1, <1>2 DEF EscrowTypeOK
<1> QED
  BY <1>1, <1>2, <1>3, <1>4, RecordsKept

(* migrate sets the fee of a V1 contract. *)
LEMMA MigrateInv == EscrowInv /\ MigrateEscrow /\ UNCHANGED now => EscrowInv'
<1> SUFFICES ASSUME EscrowInv, MigrateEscrow, UNCHANGED now PROVE EscrowInv'
  OBVIOUS
<1>1. EscrowTypeOK /\ now \in now .. MaxTime
  <2>1. EscrowTypeOK
    BY DEF EscrowInv
  <2>2. now \in 0 .. MaxTime
    BY <2>1 DEF EscrowTypeOK
  <2> QED
    BY <2>1, <2>2, LedgerAssumption
<1>2. storage = [version |-> 1, fee |-> None]
  BY <1>1 DEF MigrateEscrow, EscrowTypeOK
<1>3. storage' = [version |-> 2, fee |-> 0]
  BY <1>2 DEF MigrateEscrow
<1>4. escrowBreaker' \in BreakerState({EscrowGovernor}) /\ UNCHANGED escrowRecords
  BY <1>1, EscrowFacts DEF MigrateEscrow
<1> QED
  BY <1>1, <1>3, <1>4, RecordsKept

(* The ledger closes. *)
LEMMA EscrowTickInv == EscrowInv /\ Tick /\ UNCHANGED escrowVars => EscrowInv'
<1> SUFFICES ASSUME EscrowInv, Tick, UNCHANGED escrowVars PROVE EscrowInv'
  OBVIOUS
<1>1. EscrowTypeOK
  BY DEF EscrowInv
<1>2. now' \in now .. MaxTime
  <2>1. now \in 0 .. MaxTime
    BY <1>1 DEF EscrowTypeOK
  <2> QED
    BY <2>1, LedgerAssumption DEF Tick
<1>3. /\ UNCHANGED escrowRecords
      /\ storage' \in {[version |-> 1, fee |-> None], [version |-> 2, fee |-> 0]}
      /\ escrowBreaker' \in BreakerState({EscrowGovernor})
  BY <1>1, EscrowFacts DEF escrowVars, EscrowTypeOK
<1> QED
  BY <1>2, <1>3, RecordsKept

-----------------------------------------------------------------------------
(* Steps that change one escrow.                                           *)

(* A deposit or a release replaces an escrow by one with the same buyer,  *)
(* committee, lock and number of signatures.                              *)
LEMMA EscrowReplaced ==
  ASSUME EscrowInv, UNCHANGED <<now, signatures, sigCount, nonces, storage>>,
         escrowBreaker' \in BreakerState({EscrowGovernor}),
         NEW id \in DOMAIN escrows, NEW e \in EscrowData,
         escrows' = [escrows EXCEPT ![id] = e],
         e.buyer = escrows[id].buyer, e.signers = escrows[id].signers,
         StatusOK(e),
         e.status = "Released" => /\ e.lock # None => now >= e.lock
                                  /\ Count(id, "Release") >= e.required
  PROVE  EscrowInv'
<1>1. EscrowTypeOK /\ escrows \in Seq(EscrowData)
  BY DEF EscrowInv, EscrowTypeOK
<1>2. /\ escrows' \in Seq(EscrowData)
      /\ DOMAIN escrows' = DOMAIN escrows
      /\ escrows'[id] = e
      /\ \A i \in DOMAIN escrows : i # id => escrows'[i] = escrows[i]
  BY <1>1
<1>3. ASSUME NEW i, NEW t
      PROVE  Signed(i, t)' = Signed(i, t) /\ Count(i, t)' = Count(i, t)
  BY DEF Signed, Count
<1>4. \A i \in DOMAIN escrows : /\ escrows'[i].buyer = escrows[i].buyer
                               /\ escrows'[i].signers = escrows[i].signers
  BY <1>2
<1>5. EscrowTypeOK'
  BY <1>1, <1>2 DEF EscrowTypeOK
<1>6. CountersOK'
  <2>1. \A i \in DOMAIN escrows : SignersOf(escrows'[i]) = SignersOf(escrows[i])
    BY <1>4 DEF SignersOf
  <2> QED
    BY <1>2, <1>3, <2>1 DEF EscrowInv, CountersOK
<1>7. \A i \in DOMAIN escrows' : StatusOK(escrows'[i])
  BY <1>2 DEF EscrowInv
<1>8. ReleaseOK'
  <2> SUFFICES ASSUME NEW i \in DOMAIN escrows, escrows'[i].status = "Released"
               PROVE  /\ escrows'[i].lock # None => now >= escrows'[i].lock
                      /\ Count(i, "Release") >= escrows'[i].required
    BY <1>2, <1>3 DEF ReleaseOK
  <2>1. CASE i = id
    BY <2>1, <1>2
  <2>2. CASE i # id
    BY <2>2, <1>2 DEF EscrowInv, ReleaseOK
  <2> QED
    BY <2>1, <2>2
<1>9. NonceCountsEscrows'
  <2> SUFFICES ASSUME NEW b \in People
               PROVE  nonces[b] = Cardinality({i \in DOMAIN escrows' :
                                                escrows'[i].buyer = b})
    BY DEF NonceCountsEscrows
  <2>1. {i \in DOMAIN escrows' : escrows'[i].buyer = b}
          = {i \in DOMAIN escrows : escrows[i].buyer = b}
    BY <1>2, <1>4
  <2> QED
    BY <2>1 DEF EscrowInv, NonceCountsEscrows
<1> QED
  BY <1>5, <1>6, <1>7, <1>8, <1>9 DEF EscrowInv

(* deposit_funds never takes more than the amount. *)
LEMMA DepositInv ==
  ASSUME EscrowInv, UNCHANGED now, NEW id \in DOMAIN escrows,
         NEW n \in DepositAmounts, DepositFunds(id, n)
  PROVE  EscrowInv'
<1> DEFINE q == escrows[id]
           total == q.deposited + n
           s == IF total >= q.amount THEN "Active" ELSE "Funded"
           e == [q EXCEPT !.deposited = total, !.status = s]
<1>1. EscrowTypeOK /\ escrows \in Seq(EscrowData) /\ q \in EscrowData
  BY EscrowFacts DEF EscrowInv, EscrowTypeOK
<1>2. n \in Int /\ n > 0 /\ total <= q.amount
  BY EscrowAssumption, LedgerAssumption DEF DepositFunds, I128
<1>3. q.deposited \in Nat /\ q.amount \in Nat /\ total \in Nat /\ total > 0
  BY <1>1, <1>2 DEF EscrowData
<1>4. escrows' = [escrows EXCEPT ![id] = e]
  BY <1>1 DEF DepositFunds, EscrowData
<1>5. /\ escrowBreaker' \in BreakerState({EscrowGovernor})
      /\ UNCHANGED <<signatures, sigCount, nonces, storage>>
  BY <1>1, NotPausedType DEF DepositFunds
<1>6. s \in {"Active", "Funded"} /\ (s = "Active" <=> total >= q.amount)
  OBVIOUS
<1> HIDE DEF q, total, s
<1>7. /\ e \in EscrowData
      /\ e.buyer = q.buyer /\ e.signers = q.signers
      /\ e.amount = q.amount /\ e.deposited = total /\ e.status = s
  BY <1>1, <1>3, <1>6 DEF EscrowData, EscrowStatus
<1> HIDE DEF e
<1>8. StatusOK(e)
  BY <1>2, <1>3, <1>6, <1>7 DEF StatusOK
<1>9. e.status # "Released"
  BY <1>6, <1>7
<1> QED
  BY <1>4, <1>5, <1>7, <1>8, <1>9, EscrowReplaced DEF q

(* release_funds has checked the lock and the release signatures. *)
LEMMA ReleaseInv ==
  ASSUME EscrowInv, UNCHANGED now, NEW id \in DOMAIN escrows, ReleaseFunds(id)
  PROVE  EscrowInv'
<1> DEFINE q == escrows[id]
           e == [q EXCEPT !.status = "Released", !.deposited = 0]
<1>1. EscrowTypeOK /\ escrows \in Seq(EscrowData) /\ q \in EscrowData
  BY EscrowFacts DEF EscrowInv, EscrowTypeOK
<1>2. escrows' = [escrows EXCEPT ![id] = e]
  BY <1>1 DEF ReleaseFunds, EscrowData
<1>3. /\ escrowBreaker' \in BreakerState({EscrowGovernor})
      /\ UNCHANGED <<signatures, sigCount, nonces, storage>>
      /\ q.lock # None => now >= q.lock
      /\ Count(id, "Release") >= q.required
  BY <1>1, NotPausedType DEF ReleaseFunds
<1> HIDE DEF q
<1>4. /\ e \in EscrowData
      /\ e.buyer = q.buyer /\ e.signers = q.signers
      /\ e.lock = q.lock /\ e.required = q.required
      /\ e.deposited = 0 /\ e.status = "Released"
  BY <1>1 DEF EscrowData, EscrowStatus
<1> HIDE DEF e
<1>5. StatusOK(e)
  BY <1>4 DEF StatusOK
<1> QED
  BY <1>2, <1>3, <1>4, <1>5, EscrowReplaced DEF q

(* sign_approval: a committee member who had not signed is one more. *)
LEMMA SignInv ==
  ASSUME EscrowInv, UNCHANGED now, NEW id \in DOMAIN escrows,
         NEW t \in ApprovalsOffered, NEW p \in People, SignApproval(id, t, p)
  PROVE  EscrowInv'
<1>1. EscrowTypeOK /\ t \in ApprovalType
  BY EscrowAssumption DEF EscrowInv
<1>2. /\ escrows' = escrows /\ nonces' = nonces /\ storage' = storage
      /\ p \in SignersOf(escrows[id])
      /\ <<id, t, p>> \notin signatures
      /\ signatures' = signatures \union {<<id, t, p>>}
      /\ DOMAIN sigCount' = DOMAIN sigCount \union {<<id, t>>}
      /\ sigCount'[<<id, t>>] = Count(id, t) + 1
      /\ \A k \in DOMAIN sigCount : k # <<id, t>> => sigCount'[k] = sigCount[k]
      /\ escrowBreaker' \in BreakerState({EscrowGovernor})
  BY <1>1, NotPausedType DEF SignApproval
<1>3. EscrowTypeOK'
  BY <1>1, <1>2 DEF EscrowTypeOK
<1>4. /\ Signed(id, t)' = Signed(id, t) \union {p}
      /\ p \notin Signed(id, t)
      /\ Count(id, t)' = Count(id, t) + 1
  <2>1. Count(id, t)' = Count(id, t) + 1
    BY <1>2 DEF Count
  <2> QED
    BY <1>2, <2>1 DEF Signed
<1>5. ASSUME NEW i, NEW u, <<i, u>> # <<id, t>>
      PROVE  Signed(i, u)' = Signed(i, u) /\ Count(i, u)' = Count(i, u)
  <2>1. i # id \/ u # t
    BY <1>5
  <2>2. Signed(i, u)' = Signed(i, u)
    BY <1>2, <2>1 DEF Signed
  <2>3. Count(i, u)' = Count(i, u)
    BY <1>2, <1>5 DEF Count
  <2> QED
    BY <2>2, <2>3
<1>6. /\ IsFiniteSet(Signed(id, t))
      /\ Count(id, t) = Cardinality(Signed(id, t))
      /\ Signed(id, t) \subseteq SignersOf(escrows[id])
  BY <1>1 DEF EscrowInv, CountersOK
<1>7. /\ IsFiniteSet(Signed(id, t)')
      /\ Count(id, t)' = Cardinality(Signed(id, t)')
      /\ Signed(id, t)' \subseteq SignersOf(escrows[id])
  BY <1>2, <1>4, <1>6, FS_AddElement
<1>8. CountersOK'
  <2> SUFFICES ASSUME NEW i \in DOMAIN escrows, NEW u \in ApprovalType
               PROVE  /\ IsFiniteSet(Signed(i, u)')
                      /\ Count(i, u)' = Cardinality(Signed(i, u)')
                      /\ Signed(i, u)' \subseteq SignersOf(escrows[i])
    BY <1>2 DEF CountersOK
  <2>1. CASE <<i, u>> = <<id, t>>
    BY <2>1, <1>7
  <2>2. CASE <<i, u>> # <<id, t>>
    BY <2>2, <1>5 DEF EscrowInv, CountersOK
  <2> QED
    BY <2>1, <2>2
<1>9. ReleaseOK'
  <2> SUFFICES ASSUME NEW i \in DOMAIN escrows, escrows[i].status = "Released"
               PROVE  /\ escrows[i].lock # None => now >= escrows[i].lock
                      /\ Count(i, "Release")' >= escrows[i].required
    BY <1>2 DEF ReleaseOK
  <2>1. /\ escrows[i].lock # None => now >= escrows[i].lock
        /\ Count(i, "Release") >= escrows[i].required
    BY DEF EscrowInv, ReleaseOK
  <2>2. escrows[i].required \in Nat
    BY <1>1, EscrowFacts DEF EscrowData
  <2>3. CASE <<i, "Release">> = <<id, t>>
    <3>1. Count(id, t) \in Nat
      BY <1>6, FS_CardinalityType
    <3> QED
      BY <1>4, <2>1, <2>2, <2>3, <3>1
  <2>4. CASE <<i, "Release">> # <<id, t>>
    BY <1>5, <2>1, <2>4
  <2> QED
    BY <2>3, <2>4
<1>10. NonceCountsEscrows' /\ \A i \in DOMAIN escrows' : StatusOK(escrows'[i])
  BY <1>2 DEF EscrowInv, NonceCountsEscrows
<1> QED
  BY <1>3, <1>8, <1>9, <1>10 DEF EscrowInv

(* create_escrow_advanced: one more escrow, one more nonce of its buyer. *)
LEMMA CreateInv ==
  ASSUME EscrowInv, UNCHANGED now, NEW b \in People, NEW n \in EscrowAmounts,
         NEW c \in Committees, NEW r \in RequiredOffered, NEW l \in LocksOffered,
         NEW nonce \in Nat, CreateEscrow(b, n, c, r, l, nonce)
  PROVE  EscrowInv'
<1> DEFINE k == Len(escrows) + 1
           e == [ buyer |-> b, amount |-> n, deposited |-> 0,
                  status |-> "Created", lock |-> l, required |-> r,
                  signers |-> c ]
<1>1. /\ EscrowTypeOK /\ escrows \in Seq(EscrowData)
      /\ nonces \in [People -> Nat]
  BY DEF EscrowInv, EscrowTypeOK
<1>2. e \in EscrowData
  <2>1. n \in Nat \ {0}
    BY EscrowAssumption, LedgerAssumption DEF CreateEscrow, I128
  <2>2. r \in Nat \ {0}
    BY EscrowAssumption DEF CreateEscrow, ValidMultisig
  <2>3. l \in Nat \union {None}
    BY EscrowAssumption
  <2> QED
    BY <2>1, <2>2, <2>3 DEF EscrowData, EscrowStatus
<1>3. /\ escrows' = Append(escrows, e)
      /\ signatures' = signatures /\ sigCount' = sigCount /\ storage' = storage
      /\ nonce = nonces[b] + 1
      /\ nonces' = [nonces EXCEPT ![b] = nonce]
      /\ escrowBreaker' \in BreakerState({EscrowGovernor})
  BY <1>1, NotPausedType DEF CreateEscrow, NonceAccepted
<1>4. e.buyer = b /\ e.status = "Created" /\ StatusOK(e)
  BY DEF StatusOK
<1> HIDE DEF e
<1>5. /\ escrows' \in Seq(EscrowData)
      /\ DOMAIN escrows' = DOMAIN escrows \union {k}
      /\ k \notin DOMAIN escrows
      /\ escrows'[k] = e
      /\ \A i \in DOMAIN escrows : escrows'[i] = escrows[i]
  BY <1>1, <1>2, <1>3
<1>6. DOMAIN escrows = 1 .. Len(escrows) /\ Len(escrows) \in Nat
  BY <1>1
<1> HIDE DEF k
<1>7. EscrowTypeOK'
  BY <1>1, <1>3, <1>5 DEF EscrowTypeOK
<1>8. ASSUME NEW i, NEW t
      PROVE  Signed(i, t)' = Signed(i, t) /\ Count(i, t)' = Count(i, t)
  BY <1>3 DEF Signed, Count
<1>9. CountersOK'
  <2> SUFFICES ASSUME NEW i \in DOMAIN escrows', NEW t \in ApprovalType
               PROVE  /\ IsFiniteSet(Signed(i, t))
                      /\ Count(i, t) = Cardinality(Signed(i, t))
                      /\ Signed(i, t) \subseteq SignersOf(escrows'[i])
    BY <1>8 DEF CountersOK
  <2>1. CASE i = k
    <3>1. Signed(i, t) = {} /\ Count(i, t) = 0
      BY <2>1, <1>1, <1>5, NoStrangers
    <3> QED
      BY <3>1, FS_EmptySet
  <2>2. CASE i \in DOMAIN escrows
    BY <2>2, <1>5 DEF EscrowInv, CountersOK
  <2> QED
    BY <1>5, <2>1, <2>2
<1>10. \A i \in DOMAIN escrows' : StatusOK(escrows'[i])
  BY <1>4, <1>5 DEF EscrowInv
<1>11. ReleaseOK'
  <2> SUFFICES ASSUME NEW i \in DOMAIN escrows', escrows'[i].status = "Released"
               PROVE  /\ escrows'[i].lock # None => now >= escrows'[i].lock
                      /\ Count(i, "Release") >= escrows'[i].required
    BY <1>8 DEF ReleaseOK
  <2>1. i \in DOMAIN escrows /\ escrows'[i] = escrows[i]
    BY <1>4, <1>5
  <2> QED
    BY <2>1 DEF EscrowInv, ReleaseOK
<1>12. NonceCountsEscrows'
  <2> SUFFICES ASSUME NEW x \in People
               PROVE  nonces'[x] = Cardinality({i \in DOMAIN escrows' :
                                                 escrows'[i].buyer = x})
    BY DEF NonceCountsEscrows
  <2> DEFINE new == {i \in DOMAIN escrows' : escrows'[i].buyer = x}
  <2>1. IsFiniteSet(Bought(x)) /\ nonces[x] = Cardinality(Bought(x))
    <3>1. Bought(x) \in SUBSET (1 .. Len(escrows))
      BY <1>6 DEF Bought
    <3>2. IsFiniteSet(1 .. Len(escrows))
      BY <1>6, FS_Interval
    <3>3. IsFiniteSet(Bought(x))
      BY <3>1, <3>2, FS_Subset
    <3> QED
      BY <3>3 DEF EscrowInv, NonceCountsEscrows, Bought
  <2>2. CASE x = b
    <3>1. new = Bought(x) \union {k} /\ k \notin Bought(x)
      BY <2>2, <1>4, <1>5 DEF Bought
    <3>2. Cardinality(new) = Cardinality(Bought(x)) + 1
      BY <2>1, <3>1, FS_AddElement
    <3>3. nonces'[x] = nonces[x] + 1
      BY <2>2, <1>1, <1>3
    <3> QED
      BY <2>1, <3>2, <3>3
  <2>3. CASE x # b
    <3>1. new = Bought(x)
      BY <2>3, <1>4, <1>5 DEF Bought
    <3>2. nonces'[x] = nonces[x]
      BY <2>3, <1>1, <1>3
    <3> QED
      BY <2>1, <3>1, <3>2
  <2> QED
    BY <2>2, <2>3
<1> QED
  BY <1>7, <1>9, <1>10, <1>11, <1>12 DEF EscrowInv

-----------------------------------------------------------------------------
(* The whole specification.                                                *)

(* Every step preserves the invariant. *)
LEMMA EscrowStepInv == EscrowInv /\ [EscrowStep]_<<now, escrowVars>> => EscrowInv'
<1> SUFFICES ASSUME EscrowInv, [EscrowStep]_<<now, escrowVars>> PROVE EscrowInv'
  OBVIOUS
<1>1. ASSUME EscrowNext, UNCHANGED now PROVE EscrowInv'
  <2>1. ASSUME NEW b \in People, NEW n \in EscrowAmounts, NEW c \in Committees,
               NEW r \in RequiredOffered, NEW l \in LocksOffered,
               NEW nonce \in 1 .. MaxEscrows + 1,
               CreateEscrow(b, n, c, r, l, nonce)
        PROVE  EscrowInv'
    <3>1. nonce \in Nat
      BY EscrowAssumption
    <3> QED
      BY <1>1, <2>1, <3>1, CreateInv
  <2>2. ASSUME NEW id \in DOMAIN escrows,
               \/ \E n \in DepositAmounts : DepositFunds(id, n)
               \/ ReleaseFunds(id)
               \/ \E t \in ApprovalsOffered, p \in People : SignApproval(id, t, p)
        PROVE  EscrowInv'
    BY <1>1, <2>2, DepositInv, ReleaseInv, SignInv
  <2> QED
    BY <1>1, <2>1, <2>2, MigrateInv, BreakerStepInv DEF EscrowNext
<1>2. CASE UNCHANGED <<now, escrowVars>>
  <2>1. EscrowTypeOK
    BY DEF EscrowInv
  <2>2. now' \in now .. MaxTime
    <3>1. now \in 0 .. MaxTime
      BY <2>1 DEF EscrowTypeOK
    <3> QED
      BY <1>2, <3>1, LedgerAssumption
  <2>3. /\ UNCHANGED escrowRecords
        /\ storage' \in {[version |-> 1, fee |-> None], [version |-> 2, fee |-> 0]}
        /\ escrowBreaker' \in BreakerState({EscrowGovernor})
    BY <1>2, <2>1 DEF escrowVars, EscrowTypeOK
  <2> QED
    BY <2>2, <2>3, RecordsKept
<1> QED
  BY <1>1, <1>2, EscrowTickInv DEF EscrowStep

(* EscrowInv holds in every reachable state. *)
THEOREM EscrowInvariance == EscrowSpec => []EscrowInv
<1> QED
  BY EscrowInitInv, EscrowStepInv, PTL DEF EscrowSpec

(* Escrows, signatures, nonces and the breaker have their types. *)
THEOREM EscrowTypeCorrect == EscrowSpec => []EscrowTypeOK
<1>1. EscrowInv => EscrowTypeOK
  BY DEF EscrowInv
<1> QED
  BY <1>1, EscrowInvariance, PTL

(* sign_approval: the counter release_funds trusts is the number of distinct *)
(* committee members who signed.                                             *)
THEOREM CountersAreSignatures == EscrowSpec => []SigCountIsSignatures
<1>1. EscrowInv => SigCountIsSignatures
  BY DEF EscrowInv, CountersOK, Signed, SigCountIsSignatures
<1> QED
  BY <1>1, EscrowInvariance, PTL

(* deposit_funds and release_funds: the status says how much is held. *)
THEOREM StatusIsHonest == EscrowSpec => []StatusFollowsDeposit
<1>1. EscrowInv => StatusFollowsDeposit
  <2> SUFFICES ASSUME EscrowInv, NEW id \in DOMAIN escrows
               PROVE  CASE escrows[id].status \in {"Created", "Released"} ->
                             escrows[id].deposited = 0
                        [] escrows[id].status = "Funded" ->
                             /\ 0 < escrows[id].deposited
                             /\ escrows[id].deposited < escrows[id].amount
                        [] escrows[id].status = "Active" ->
                             escrows[id].deposited = escrows[id].amount
    BY DEF StatusFollowsDeposit
  <2>1. StatusOK(escrows[id]) /\ escrows[id].status \in EscrowStatus
    BY EscrowFacts DEF EscrowInv, EscrowData
  <2> QED
    BY <2>1 DEF StatusOK, EscrowStatus
<1> QED
  BY <1>1, EscrowInvariance, PTL

(* release_funds: money left only after the lock and with as many release *)
(* signatures of the committee as the escrow was created with.            *)
THEOREM ReleaseIsApproved == EscrowSpec => []ReleasedWasApproved
<1>1. EscrowInv => ReleasedWasApproved
  <2> SUFFICES ASSUME EscrowInv, NEW id \in DOMAIN escrows,
                      escrows[id].status = "Released"
               PROVE  /\ escrows[id].lock # None => now >= escrows[id].lock
                      /\ Cardinality({p \in SignersOf(escrows[id]) :
                                        <<id, "Release", p>> \in signatures})
                           >= escrows[id].required
    BY DEF ReleasedWasApproved
  <2>1. /\ escrows[id].lock # None => now >= escrows[id].lock
        /\ Count(id, "Release") >= escrows[id].required
    BY DEF EscrowInv, ReleaseOK
  <2>2. /\ Count(id, "Release") = Cardinality(Signed(id, "Release"))
        /\ Signed(id, "Release") \subseteq SignersOf(escrows[id])
    BY DEF EscrowInv, CountersOK, ApprovalType
  <2>3. {p \in SignersOf(escrows[id]) : <<id, "Release", p>> \in signatures}
          = Signed(id, "Release")
    BY <2>2 DEF EscrowInv, EscrowTypeOK, Signed
  <2> QED
    BY <2>1, <2>2, <2>3
<1> QED
  BY <1>1, EscrowInvariance, PTL

(* create_escrow_advanced: no nonce creates two escrows. *)
THEOREM NoncesCount == EscrowSpec => []NonceCountsEscrows
<1>1. EscrowInv => NonceCountsEscrows
  BY DEF EscrowInv
<1> QED
  BY <1>1, EscrowInvariance, PTL

(* require_not_paused guards every entry point that changes a record. *)
THEOREM PauseFreezes == EscrowSpec => FrozenWhilePaused
<1> DEFINE Frozen == IsPaused(escrowBreaker, now) => UNCHANGED escrowRecords
<1>1. [EscrowStep]_<<now, escrowVars>> => [Frozen]_escrowVars
  <2> SUFFICES ASSUME EscrowStep, IsPaused(escrowBreaker, now)
               PROVE  UNCHANGED escrowRecords
    BY DEF escrowVars
  <2>1. ASSUME NEW b, NEW n, NEW c, NEW r, NEW l, NEW nonce,
               CreateEscrow(b, n, c, r, l, nonce)
        PROVE  FALSE
    BY <2>1 DEF CreateEscrow, RequireNotPaused
  <2>2. ASSUME NEW id, NEW n, DepositFunds(id, n) PROVE FALSE
    BY <2>2 DEF DepositFunds, RequireNotPaused
  <2>3. ASSUME NEW id, ReleaseFunds(id) PROVE FALSE
    BY <2>3 DEF ReleaseFunds, RequireNotPaused
  <2>4. ASSUME NEW id, NEW t, NEW p, SignApproval(id, t, p) PROVE FALSE
    BY <2>4 DEF SignApproval, RequireNotPaused
  <2> QED
    BY <2>1, <2>2, <2>3, <2>4
    DEF EscrowStep, EscrowNext, MigrateEscrow, BreakerStep, escrowVars
<1> QED
  BY <1>1, PTL DEF EscrowSpec, FrozenWhilePaused

(* Counts, statuses and nonces agree with the records, for any committee,  *)
(* amounts and buyers.                                                     *)
THEOREM SummariesHold == EscrowSpec => []SummariesAgree
  BY CountersAreSignatures, StatusIsHonest, NoncesCount, PTL DEF SummariesAgree

(* Counters, statuses and nonces agree with the records they summarise, and    *)
(* what was released was signed for: EscrowIsHonest, whatever the committees.  *)
THEOREM EscrowIsTrusted == EscrowSpec => []EscrowIsHonest
  BY SummariesHold, ReleaseIsApproved, PTL DEF EscrowIsHonest

===============================================================================
