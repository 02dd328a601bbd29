------------------------------ MODULE RiskPool ------------------------------
(***************************************************************************)
(* The risk pool (contracts/risk_pool/src/lib.rs) and the Stellar asset it *)
(* holds.  Providers stake tokens; claims are paid from what is available; *)
(* a slash takes a provider's stake away and leaves its tokens in the      *)
(* pool.  A call that returns Err or traps is rolled back: not a step.     *)
(***************************************************************************)
EXTENDS Integers, FiniteSetsExt

CONSTANTS
  Providers,      \* accounts that may stake
  Claimants,      \* other accounts that may receive a payout
  Supply,         \* tokens each provider starts with
  MinStake,       \* DataKey::MinStake, as initialize received it
  Amounts,        \* i128 arguments offered to the entry points
  MaxPaid,        \* bound on claimsPaid, which only grows
  MaxSlashed      \* bound on slashed, which only grows

ASSUME PoolAssumption ==
  /\ IsFiniteSet(Providers)
  /\ Supply \in Nat
  /\ MinStake \in Int
  /\ Amounts \subseteq Int

Accounts == Providers \union Claimants
Roles == {"Admin", "Governance"}
Versions == 1 .. 2                          \* StorageVersion::V1, V2
PoolEvents == {"NONE", "DEPOSIT", "WITHDRAW", "PAYOUT", "SLASHED", "MIGRATED"}

VARIABLES
  stake,             \* ProviderStake
  totalCapital,      \* TotalCapital
  availableCapital,  \* AvailableCapital
  claimsPaid,        \* ClaimsPaid
  poolVersion,       \* Version
  stateRoot,         \* the statistics and the event the stored root commits to
  poolRoles,         \* roles granted to the pool's own address by set_role
  balance,           \* token balances of the accounts
  poolTokens,        \* token balance of the pool contract
  slashed            \* history: stake forfeited by absorb_slash so far

books   == <<stake, totalCapital, availableCapital, claimsPaid>>
poolVars == <<stake, totalCapital, availableCapital, claimsPaid, poolVersion,
              stateRoot, poolRoles, balance, poolTokens, slashed>>

\* compute_root over PoolStats and the version, folded with an event payload.
RootOf(total, available, paid, version, event) ==
  [total |-> total, available |-> available, paid |-> paid,
   version |-> version, event |-> event]

\* refresh_state_root hashes what the call has just stored, and the event the
\* call ends with is folded into the root (events.rs, emit_event).
RefreshStateRoot(event) ==
  stateRoot' = RootOf(totalCapital', availableCapital', claimsPaid',
                      poolVersion', event)

PoolInit ==
  /\ stake = [p \in Providers |-> 0]
  /\ totalCapital = 0 /\ availableCapital = 0 /\ claimsPaid = 0
  /\ poolVersion \in Versions
  /\ stateRoot = RootOf(0, 0, 0, poolVersion, "NONE")
  /\ poolRoles = {}
  /\ balance = [a \in Accounts |-> IF a \in Providers THEN Supply ELSE 0]
  /\ poolTokens = 0
  /\ slashed = 0

-----------------------------------------------------------------------------
(* The token contract: a transfer of a negative or uncovered amount traps. *)

TransferIn(from, amount) ==
  /\ 0 <= amount /\ amount <= balance[from]
  /\ balance' = [balance EXCEPT ![from] = @ - amount]
  /\ poolTokens' = poolTokens + amount

TransferOut(to, amount) ==
  /\ 0 <= amount /\ amount <= poolTokens
  /\ balance' = [balance EXCEPT ![to] = @ + amount]
  /\ poolTokens' = poolTokens - amount

-----------------------------------------------------------------------------
(* Entry points.                                                           *)

\* set_role, authorised by the stored admin.
PoolSetRole(role) ==
  /\ poolRoles' = poolRoles \union {role}
  /\ UNCHANGED <<books, poolVersion, stateRoot, balance, poolTokens, slashed>>

DepositLiquidity(p, amount) ==
  /\ amount >= MinStake
  /\ TransferIn(p, amount)
  /\ stake' = [stake EXCEPT ![p] = @ + amount]
  /\ totalCapital' = totalCapital + amount
  /\ availableCapital' = availableCapital + amount
  /\ UNCHANGED <<claimsPaid, poolVersion, poolRoles, slashed>>
  /\ RefreshStateRoot("DEPOSIT")

\* Mutant: the available capital is not debited.
WithdrawLiquidity_KeepsAvailable(p, amount) ==
  /\ stake[p] >= amount
  /\ availableCapital >= amount
  /\ TransferOut(p, amount)
  /\ stake' = [stake EXCEPT ![p] = @ - amount]
  /\ totalCapital' = totalCapital - amount
  /\ UNCHANGED <<availableCapital, claimsPaid, poolVersion, poolRoles, slashed>>
  /\ RefreshStateRoot("WITHDRAW")

WithdrawLiquidity(p, amount) ==
  /\ stake[p] >= amount
  /\ availableCapital >= amount
  /\ TransferOut(p, amount)
  /\ stake' = [stake EXCEPT ![p] = @ - amount]
  /\ totalCapital' = totalCapital - amount
  /\ availableCapital' = availableCapital - amount
  /\ UNCHANGED <<claimsPaid, poolVersion, poolRoles, slashed>>
  /\ RefreshStateRoot("WITHDRAW")

\* payout_claim asks that the pool's own address holds Admin.
PayoutClaim(to, amount) ==
  /\ "Admin" \in poolRoles
  /\ availableCapital >= amount
  /\ TransferOut(to, amount)
  /\ availableCapital' = availableCapital - amount
  /\ claimsPaid' = claimsPaid + amount
  /\ UNCHANGED <<stake, totalCapital, poolVersion, poolRoles, slashed>>
  /\ RefreshStateRoot("PAYOUT")

\* Mutant: the forfeited stake is taken from the provider twice.
AbsorbSlash_Twice(target, amount) ==
  /\ "Governance" \in poolRoles
  /\ amount > 0
  /\ stake[target] >= amount
  /\ stake' = [stake EXCEPT ![target] = @ - 2 * amount]
  /\ availableCapital' = availableCapital + amount
  /\ slashed' = slashed + amount
  /\ UNCHANGED <<totalCapital, claimsPaid, poolVersion, poolRoles,
                 balance, poolTokens>>
  /\ RefreshStateRoot("SLASHED")

\* absorb_slash asks that the pool's own address holds Governance.
AbsorbSlash(target, amount) ==
  /\ "Governance" \in poolRoles
  /\ amount > 0
  /\ stake[target] >= amount
  /\ stake' = [stake EXCEPT ![target] = @ - amount]
  /\ availableCapital' = availableCapital + amount
  /\ slashed' = slashed + amount
  /\ UNCHANGED <<totalCapital, claimsPaid, poolVersion, poolRoles,
                 balance, poolTokens>>
  /\ RefreshStateRoot("SLASHED")

\* Mutant: the migration forgets refresh_state_root.
PoolMigrate_StaleRoot(to) ==
  /\ poolVersion < to
  /\ poolVersion' = to
  /\ UNCHANGED <<books, stateRoot, poolRoles, balance, poolTokens, slashed>>

\* migrate: V1 to V2 once; migrating to the current version changes nothing.
PoolMigrate(to) ==
  /\ poolVersion < to
  /\ poolVersion' = to
  /\ UNCHANGED <<books, poolRoles, balance, poolTokens, slashed>>
  /\ RefreshStateRoot("MIGRATED")

PoolNext ==
  \/ \E r \in Roles : PoolSetRole(r)
  \/ \E p \in Providers, n \in Amounts :
       \/ DepositLiquidity(p, n)
       \/ WithdrawLiquidity(p, n)
       \/ slashed + n <= MaxSlashed /\ AbsorbSlash(p, n)
  \/ \E a \in Accounts, n \in Amounts :
       claimsPaid + n <= MaxPaid /\ PayoutClaim(a, n)
  \/ \E v \in Versions : PoolMigrate(v)

PoolSpec == PoolInit /\ [][PoolNext]_poolVars

-----------------------------------------------------------------------------
\* Stakes, balances and the pool's counters never go below zero.
PoolTypeOK ==
  /\ stake \in [Providers -> Nat]
  /\ totalCapital \in Int
  /\ availableCapital \in Nat
  /\ claimsPaid \in Nat
  /\ poolVersion \in Versions
  /\ stateRoot \in [total : Int, available : Nat, paid : Nat,
                    version : Versions, event : PoolEvents]
  /\ poolRoles \subseteq Roles
  /\ balance \in [Accounts -> Nat]
  /\ poolTokens \in Nat
  /\ slashed \in Nat

\* The available capital is exactly the pool's tokens plus everything that
\* was ever slashed: absorb_slash counts a forfeited stake as available a
\* second time, and nothing else separates the books from the tokens.
TokensExplainAvailable == availableCapital = poolTokens + slashed

\* What was deposited and not withdrawn is either available or paid out, up
\* to the slashed stake that is counted twice.
CapitalExplained == totalCapital + slashed = availableCapital + claimsPaid

\* The four numbers and the tokens tell one story after any mix of calls.
BooksBalance == TokensExplainAvailable /\ CapitalExplained

\* The stakes providers may still withdraw and the slashed ones add up to the
\* total capital.
StakesExplainTotal ==
  SumFunctionOnSet(stake, Providers) + slashed = totalCapital

\* The stored state root commits to the values stored with it: no entry point
\* changes the statistics or the version without refreshing the root.
StateRootIsFresh ==
  stateRoot = RootOf(totalCapital, availableCapital, claimsPaid, poolVersion,
                     stateRoot.event)

\* After any mix of deposits, withdrawals, payouts, slashes and migrations the
\* books balance, and the stored root proves those very numbers.
RootedBooks == BooksBalance /\ StateRootIsFresh
=============================================================================
