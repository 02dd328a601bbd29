---------------------------- MODULE ProviderPool ----------------------------
(***************************************************************************)
(* One risk pool of the ink! insurance contract (contracts/insurance/src/  *)
(* insurance_impl.rs) as its liquidity providers see it: stakes, rewards   *)
(* accrued per share out of premiums, their vesting and what is left of    *)
(* the reserve's capital.  An Err reverts the whole message, so a refused     *)
(* call is not a step.  Amounts stay far below u128::MAX: the saturating   *)
(* operations never saturate.                                              *)
(***************************************************************************)
EXTENDS Ledger, FiniteSetsExt

CONSTANTS
  Providers,      \* accounts that provide liquidity
  Deposits,       \* values transferred with deposit_liquidity
  Withdrawals,    \* amounts offered to withdraw_liquidity
  VestingTerms,   \* [cliff, duration, penalty] offered to configure_pool_vesting
  Premiums,       \* premiums paid, of which a unit is the platform's fee
  Payouts,        \* payouts of claims
  Precision,      \* REWARD_PRECISION
  MaxSyncs,       \* bound on the deposits, and what else synchronises a debt
  MaxReserve      \* bound on the money premiums bring in

ASSUME ProviderAssumption ==
  /\ Deposits \subseteq Nat /\ Withdrawals \subseteq Nat
  /\ Premiums \subseteq Nat \ {0} /\ Payouts \subseteq Nat
  /\ \A t \in VestingTerms : t \in [cliff : Nat, duration : Nat, penalty : Nat]
  /\ Precision \in Nat \ {0} /\ MaxSyncs \in Nat /\ MaxReserve \in Nat
  /\ IsFiniteSet(Providers)

VARIABLES
  reserve,   \* the RiskPool record
  provider,  \* liquidity_providers: a function on the accounts that have a stake
  bank,      \* native balance of the contract
  books      \* history: what the properties compare the pool with

providerVars == <<reserve, provider, bank, books>>

NoTerms == [cliff |-> 0, duration |-> 0, penalty |-> 0]

\* After create_risk_pool.
ProviderInit ==
  /\ reserve = [ total |-> 0, available |-> 0, stake |-> 0, acc |-> 0,
              terms |-> NoTerms ]
  /\ now = 1 /\ provider = <<>>
  /\ bank = 0
  /\ books = [ kept |-> 0, accrued |-> 0, rewarded |-> 0, synced |-> 0 ]

SyncedDebt(stake, acc) == (stake * acc) \div Precision

PendingReward(p) == Monus(SyncedDebt(p.stake, reserve.acc), p.debt)

NewProvider == [stake |-> 0, debt |-> 0, vesting |-> 0, claimed |-> 0, start |-> 0]

\* The record of an account, a new one where there is none.
Record(u) == IF u \in DOMAIN provider THEN provider[u] ELSE NewProvider

\* Liquidity providers that have a record.
With(u, p) == [a \in DOMAIN provider \union {u} |-> IF a = u THEN p ELSE provider[a]]

\* Mutant: the new stake earns what was accrued before it came.
DepositLiquidity_NoDebt(u, amount) ==
  LET old == Record(u)
  IN  /\ amount > 0
      /\ provider' = With(u, [old EXCEPT !.stake = @ + amount])
      /\ reserve' = [reserve EXCEPT !.stake = @ + amount, !.total = @ + amount,
                              !.available = @ + amount]
      /\ bank' = bank + amount
      /\ books' = [books EXCEPT !.synced = @ + 1]

DepositLiquidity(u, amount) ==
  LET old == Record(u)
  IN  /\ amount > 0
      /\ provider' = With(u, [old EXCEPT !.stake = @ + amount,
                                !.debt = @ + SyncedDebt(amount, reserve.acc)])
      /\ reserve' = [reserve EXCEPT !.stake = @ + amount, !.total = @ + amount,
                              !.available = @ + amount]
      /\ bank' = bank + amount
      /\ books' = [books EXCEPT !.synced = @ + 1]

ConfigurePoolVesting(terms) ==
  /\ IF terms.duration = 0 THEN terms = NoTerms
     ELSE terms.cliff <= terms.duration /\ terms.penalty <= 10000
  /\ reserve' = [reserve EXCEPT !.terms = terms]
  /\ UNCHANGED <<provider, bank, books>>

-----------------------------------------------------------------------------
(* Vesting.                                                                *)

\* The part of a provider's vesting rewards that is free at this time.
Vested(p) ==
  LET elapsed == Monus(now, p.start)
      counted == IF elapsed >= reserve.terms.duration THEN reserve.terms.duration ELSE elapsed
  IN  IF p.start = 0 \/ elapsed < reserve.terms.cliff THEN 0
      ELSE (p.vesting * counted) \div reserve.terms.duration

\* Rewards that start to vest: a provider has one schedule, so the rewards
\* that were vesting before start again with them.
Vest(p) ==
  IF PendingReward(p) = 0 THEN p
  ELSE [p EXCEPT !.vesting = @ + PendingReward(p), !.start = now,
                 !.debt = SyncedDebt(p.stake, reserve.acc)]

\* The early-withdrawal penalty of a provider whose rewards vest.
Penalty(p) == (Monus(p.vesting, Vested(p)) * reserve.terms.penalty) \div 10000

\* withdraw_liquidity.  The variable total_out that the branches set is not
\* the one the transfer reads, which stays 0: the principal (and without
\* vesting the reward) leaves the reserve's books but not the contract.  The
\* penalty is booked to the capital, which the vesting rewards never left.
WithdrawLiquidity(u, amount) ==
  /\ amount > 0 /\ u \in DOMAIN provider
  /\ provider[u].stake >= amount
  /\ LET vests   == reserve.terms.duration > 0
         pending == PendingReward(provider[u])
         old     == IF vests THEN Vest(provider[u]) ELSE provider[u]
         penalty == IF vests THEN Penalty(old) ELSE 0
         out     == IF vests THEN amount ELSE pending + amount
         left    == [old EXCEPT !.stake = @ - amount, !.vesting = @ - penalty,
                                !.debt = SyncedDebt(old.stake - amount, reserve.acc)]
     IN  /\ reserve.available + penalty >= out
         /\ provider' = IF left.stake = 0
                        THEN [a \in DOMAIN provider \ {u} |-> provider[a]]
                        ELSE With(u, left)
         /\ reserve' = [reserve EXCEPT !.stake = @ - amount, !.total = @ - amount,
                                 !.available = @ + penalty - out]
         /\ books' = [books EXCEPT !.kept = @ + out - penalty,
                                   !.rewarded = @ + pending, !.synced = @ + 1]
  /\ UNCHANGED bank

\* Mutant: the reward is paid and stays in the reserve's capital.
ClaimRewards_NotDebited(u) ==
  /\ u \in DOMAIN provider
  /\ LET pending == PendingReward(provider[u]) IN
     /\ pending > 0
     /\ IF reserve.terms.duration > 0
        THEN /\ provider' = With(u, Vest(provider[u]))
             /\ UNCHANGED <<reserve, bank>>
        ELSE /\ reserve.available >= pending
             /\ provider' = With(u, [provider[u] EXCEPT !.debt = SyncedDebt(provider[u].stake, reserve.acc)])
             /\ bank' = bank - pending
             /\ UNCHANGED reserve
     /\ books' = [books EXCEPT !.rewarded = @ + pending]

\* claim_rewards: at once, or into the vesting schedule.
ClaimRewards(u) ==
  /\ u \in DOMAIN provider
  /\ LET pending == PendingReward(provider[u]) IN
     /\ pending > 0
     /\ IF reserve.terms.duration > 0
        THEN /\ provider' = With(u, Vest(provider[u]))
             /\ UNCHANGED <<reserve, bank>>
        ELSE /\ reserve.available >= pending
             /\ provider' = With(u, [provider[u] EXCEPT !.debt = SyncedDebt(provider[u].stake, reserve.acc)])
             /\ reserve' = [reserve EXCEPT !.available = @ - pending]
             /\ bank' = bank - pending
     /\ books' = [books EXCEPT !.rewarded = @ + pending]

\* Mutant: the reserve's total stake is forgotten.
ReinvestRewards_NoTotal(u) ==
  /\ u \in DOMAIN provider
  /\ LET pending == PendingReward(provider[u]) IN
     /\ pending > 0
     /\ provider' = With(u, [provider[u] EXCEPT !.stake = @ + pending,
          !.debt = SyncedDebt(provider[u].stake + pending, reserve.acc)])
     /\ reserve' = [reserve EXCEPT !.total = @ + pending]
     /\ books' = [books EXCEPT !.rewarded = @ + pending, !.synced = @ + 1]
  /\ UNCHANGED bank

ReinvestRewards(u) ==
  /\ u \in DOMAIN provider
  /\ LET pending == PendingReward(provider[u]) IN
     /\ pending > 0
     /\ provider' = With(u, [provider[u] EXCEPT !.stake = @ + pending,
          !.debt = SyncedDebt(provider[u].stake + pending, reserve.acc)])
     /\ reserve' = [reserve EXCEPT !.stake = @ + pending, !.total = @ + pending]
     /\ books' = [books EXCEPT !.rewarded = @ + pending, !.synced = @ + 1]
  /\ UNCHANGED bank

\* claim_vested_rewards.
ClaimVestedRewards(u) ==
  /\ u \in DOMAIN provider
  /\ LET p     == provider[u]
         free  == IF reserve.terms.duration = 0 THEN p.vesting
                  ELSE Monus(Vested(p), p.claimed)
         after == p.claimed + free
     IN  /\ free > 0 /\ reserve.available >= free
         /\ provider' = With(u,
              IF reserve.terms.duration = 0 \/ after >= p.vesting
              THEN [p EXCEPT !.vesting = 0, !.claimed = 0, !.start = 0]
              ELSE [p EXCEPT !.claimed = after])
         /\ reserve' = [reserve EXCEPT !.available = @ - free]
         /\ bank' = bank - free
  /\ UNCHANGED books

-----------------------------------------------------------------------------
(* What policies do to the pool (create_policy, renew_policy and           *)
(* execute_payout; module Insurance has the rest of them).                 *)

\* apply_reward_accrual: what a premium adds to each share.
Accrued(p, reward) ==
  IF p.stake = 0 THEN p
  ELSE [p EXCEPT !.acc = @ + (reward * Precision) \div p.stake]

\* A premium of which the platform keeps a fee.
TakePremium(paid, fee) ==
  /\ reserve' = Accrued([reserve EXCEPT !.available = @ + paid - fee], paid - fee)
  /\ bank' = bank + paid
  /\ books' = [books EXCEPT !.kept = @ + fee,
                            !.accrued = @ + IF reserve.stake = 0 THEN 0 ELSE paid - fee]
  /\ UNCHANGED provider

\* A payout is an event: no transfer follows it.
PayClaim(amount) ==
  /\ reserve.available >= amount
  /\ reserve' = [reserve EXCEPT !.available = @ - amount]
  /\ books' = [books EXCEPT !.kept = @ + amount]
  /\ UNCHANGED <<provider, bank>>

ProviderNext ==
  \/ \E u \in Providers :
       \/ \E n \in Deposits : books.synced < MaxSyncs /\ DepositLiquidity(u, n)
       \/ \E n \in Withdrawals : WithdrawLiquidity(u, n)
       \/ ClaimRewards(u) \/ ReinvestRewards(u) \/ ClaimVestedRewards(u)
  \/ \E t \in VestingTerms : ConfigurePoolVesting(t)
  \/ \E n \in Premiums : bank + n <= MaxReserve /\ TakePremium(n, 1)
  \/ \E n \in Payouts : PayClaim(n)

ProviderStep ==
  \/ ProviderNext /\ UNCHANGED now
  \/ Tick /\ UNCHANGED providerVars

ProviderSpec == ProviderInit /\ [][ProviderStep]_<<now, providerVars>>

-----------------------------------------------------------------------------

\* Providers are promised no more rewards than premiums have accrued to them:
\* all that was handed out and all that is pending, but for the rounding where
\* a debt is brought in line with another stake.
RewardsAreAccrued ==
  books.rewarded + SumFunctionOnSet([u \in Providers |-> PendingReward(Record(u))], Providers)
    <= books.accrued + books.synced

StakeIsCapital ==
  /\ reserve.total = reserve.stake
  /\ reserve.stake = SumFunctionOnSet([u \in Providers |-> Record(u).stake], Providers)

MoneyIsExplained == bank = reserve.available + books.kept

\* The reserve's books of stakes agree with the providers' records, and its
\* total capital is exactly what they have at stake, whatever deposits,
\* withdrawals and reinvestments follow each other (a share of the rewards is
\* computed against this total).  Every unit the contract holds is the
\* reserve's capital or is named in the history of what stayed behind
\* (withdrawn principal and payouts, which no transfer follows, sale prices
\* and kept fees, less the penalties).  And no more rewards are promised than
\* were accrued.
ReserveBooksBalance == StakeIsCapital /\ MoneyIsExplained /\ RewardsAreAccrued
=============================================================================
