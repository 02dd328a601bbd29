# Remitwise / Meridian: TLA+ models

TLA+ modules, TLC configurations and TLAPS proofs for the state machines of this
repository: the Soroban and ink! contracts under `meridian-contracts/contracts`, the
webhook processor of the web front end under `lib/webhooks`, and of the API the Rust core
and the NestJS authentication under `meridian-api/src`. Paths below are
relative to the repository root; on disk it is `src/`. `PROJECT.json` lists the
components, the runs, the source lines of every definition and the hazards the
properties are for.

Run a model with `tlc -workers 2 -config X.cfg M.tla`, check proofs with
`tlapm M_proofs.tla`.

## 1. The system

### 1.1 Parts

| part | where | state it keeps | operations | talks to |
|---|---|---|---|---|
| Circuit breaker | `contracts/lib/src/circuit_breaker.rs` | one record: governance, times a pause is scheduled, activated, ends; emergency flag; time a resume was requested; "activation announced" | `pause`, `emergency_pause`, `resume` (two phases), `is_paused` (which synchronises), `sync`; `pause_with_multisig` | embedded in Slashing, Escrow and other contracts; emits the audit events |
| Risk pool | `contracts/risk_pool` | total and available capital, claims paid, stake per provider, storage version, a Merkle state root | `deposit_liquidity`, `withdraw_liquidity`, `payout_claim`, `absorb_slash`, `migrate` | the token contract |
| Policy | `contracts/policy` | policies and their counter, governed parameters, registered Claims and Governance contracts | `issue_policy`, `renew_policy`, `cancel_policy`, `expire_policy`, `apply_governance_update`, `apply_governance_params`, `update_claimed` | called by Claims and Governance |
| Claims | `contracts/claims` | claims and their counter, one active-claim lock per policy | `submit_claim`, `start_review`, `approve_claim`, `reject_claim`, `settle_claim` | reads Policy, calls the pool and Policy |
| Slashing | `contracts/slashing` | violation counter and capped history per target and role, slashable roles, penalty parameters, a breaker | `slash_funds`, `configure_penalty_parameters`, role management, the breaker's | called by Governance |
| Governance | `contracts/governance` | proposals, vote records, pending actions | six `create_*_proposal`, `vote`, `finalize_proposal`, `execute_proposal` | calls Claims, Pool, Policy, Slashing |
| Escrow | `contracts/escrow` | escrows, signatures and their counts, nonce per buyer, a breaker | `create_escrow_advanced`, `deposit_funds`, `sign_approval`, `release_funds`, `migrate` | - |
| Webhook processor | `lib/webhooks/processor.ts`, `retry.ts` | one database row per event: status, retry count, next retry, `updatedAt` | poll, claim, handle, finish or fail, dead-letter, replay | Prisma; several runtimes at once |
| Insurance monolith (ink!) | `contracts/insurance` | risk assessments, pools, policies and their tokens and listings, claims, nonces and rate limits, treaties, disputes, providers with rewards and vesting, a breaker | `create_policy`, `renew_policy`, `cancel_policy`, claims one by one, in batches, parametric or disputed, reinsurance, token sales, the providers' six operations | calls nobody: payouts are booked, not sent |
| Property token (ink!) | `contracts/property-token` | owners, counts and approvals, compliance flags, bridge requests and the slot of each token, shares, asks, dividends, votes, upgrade timelock, a breaker | registration, transfers, `initiate`/`sign`/`execute`/`recover` of bridge requests, the operations on shares | asks the compliance registry |
| Bridge | `contracts/bridge` | requests with signatures and status, operators, transactions, a breaker | `initiate_bridge_multisig`, `sign_bridge_request`, `execute_bridge`, `recover_failed_bridge`, operators | - |
| Fees (ink!) | `contracts/fees` | fee configuration, congestion counters, auctions, treasury, validators' rewards | `record_fee_collected`, auctions, `distribute_fees`, `claim_rewards`, the parameters | - |
| Compliance registry (ink!) | `contracts/compliance_registry` | a record per customer, verification requests, the rules, an audit trail | `submit_verification`, AML and sanctions checks (also in batches), consent, deletion, revocation | asked by the property token |
| ZK compliance (ink!) | `contracts/zk-compliance` | proofs and the newest of each type, keys and their versions, verifiers, statistics, privacy | `submit_zk_proof`, `verify_zk_proof`, `verify_and_store_proof`, keys | - |
| Oracle (ink!) | `contracts/oracle` | sources, weights, reputations, current valuation and history, requests, a breaker | `update_valuation_from_sources`, manual and attested valuations, `slash_source`, reputation | collects prices from other contracts |
| AI valuation (ink!) | `contracts/ai-valuation` | models, cached features, predictions, commitments, a breaker | `predict_valuation`, `ensemble_predict`, `submit_zk_valuation_proof` | - |
| Document registry (ink!) | `contracts/ipfs-metadata` | documents with two indexes, size pinned per property, access levels | upload, pin, unpin, removal, malicious report, access | - |
| Fractional ownership (ink!) | `contracts/fractional` | balances, supply, KYC, dividends per share and what each was credited | mint, burn, transfer, dividends | - |
| Backend API, Rust core | `meridian-api/src` | token pairs, sessions, failed attempts, recovery requests, a reader's cursor, amounts | `login`, `refresh`, `logout`, `request_recovery`, `complete_recovery`, pages, decimal amounts | the token store is a value inside its user |
| Backend API, NestJS authentication | `meridian-api/src/auth/providers` (TypeScript) | user rows, refresh token rows; in the process the lockout store and the idempotency keys | `SignIn`, `refreshToken`, `logout`, `logoutAll`, `verifyEmail`, `resendVerification` | many requests of one process over one database |
| Backend API, other NestJS services | `meridian-api` (TypeScript) | database rows | REST | not modelled |
| Proxy, analytics | `contracts/proxy`, `contracts/analytics` | a code hash; reports | store and return | not modelled |
| Web client | `app/`, `components/`, `meridian-web` | UI state | - | not modelled |

### 1.2 How the parts interact, and what makes them hard

A Soroban call is one transaction: a trap anywhere in it rolls back every contract it
touched. Inside a transaction nothing interleaves. What interleaves are whole
transactions of holders, providers, administrators, voters and the ledger clock, and
the sequences they make are what unit tests of single contracts do not reach:

- a governance patch lands between a claim's submission and its settlement;
- fund allocations and settlements draw on the same available capital;
- a pause becomes effective by the clock alone, between a vote and its execution,
  while the stored record is only updated when somebody asks;
- cached numbers (the pool's totals and its state root, `PolicyActiveClaim`, `SigCount`,
  the capped history) stand beside the data they summarise;
- functions of other contracts are bound by name at run time;
- the release profile turns overflow checks off (`meridian-contracts/Cargo.toml:49`), so
  i128 sums wrap.

The webhook processor is the concurrent part: runtimes poll the same row, every `await`
is a point where others run, time passes, the runtime dies, a query fails, or a write is
applied and its answer lost. Leases, tokens and conditional updates have to hold this
together.

In the ink! contracts a message that returns `Err` is rolled back, whatever it wrote before:
bookkeeping that an error path does is lost (section 5). Most of their state is kept twice, as
a record and as a counter, list or slot that summarises it, and the hazard is a sequence of
legal calls after which the two no longer agree. In the API, users act from several devices with
tokens of several generations, requests expire while others replace them, and a list changes
between the pages of a reader. The NestJS process runs one request at a time but changes between
them at every `await`: what a request has read of an account may be old when it writes.

What makes each part correct, in a sentence: the **breaker** never closes a contract
without its timelock or an emergency and never reopens it on an old request; the **pool**'s
four numbers tell one story; a **policy** is never paid beyond its coverage and, once ended,
never covers again; a **claim** is the only open one of its policy and is paid once;
**slashes** are spaced by their cooldown and stop under a pause; a **proposal** is carried
out once, on a tally nobody can change any more; an **escrow** is released only for the
signatures it asked for; a **webhook event** ends as processed or dead-lettered and only
the runtime that claimed it last decides which; a **reserve** is exactly what its providers
have at stake; a **payout** is what the claims settled were awarded; a **token** is locked only for
a request enough operators signed and its slot is free once the request is over; **shares** are
neither made nor lost; a **customer** is compliant on checks of the last verification; a
**verdict** on a proof stands; a **valuation** lies within what the sources said; a **session**
holds the only live tokens; a **recovery** leaves nothing of before alive; a **page** skips
nothing that stayed.

## 2. Plan

The order is that of importance: first what every contract embeds, then the contracts that
hold money, then those that decide over them, then the whole, then the contracts around the
property token and the API. Items 1 to 12 are in place.

1. `BreakerOps`, `CircuitBreaker`: the record every other contract embeds.
2. `RiskPool`.
3. `Ledger`, `Policy`, `Claims`, with the abstract specification `Indemnity`.
4. `Slashing`, which embeds the breaker.
5. `Governance`.
6. `Protocol`, composing 2-5 through the calls of `execute_proposal`.
7. `Escrow`, with the breaker.
8. `Webhooks`.
9. The proofs of 1-5, 7 and 8 (section 6).
10. `Insurance` and `ProviderPool`, the two halves of the monolith.
11. Around the property token: `PropertyToken`, `PropertyShares`, `Bridge`, `Fees`,
    `ComplianceRegistry`, `ZkCompliance`, `Oracle`, `AIValuation`, `Metadata`, `Fractional`; of the
    API: `TokenStore` with `Sessions` and `Recovery`, `Paging`, `Amount`, and `AuthRequests`.
12. The proofs of the rest: the composition, the refinement of `Indemnity`, the monolith, the
    contracts around the property token and the API (section 6).
13. Still open: the session migration (`lib/auth/session-migration.ts`, a pure function); a lock with expiry that
    `Webhooks` implements under prompt claims and an exactly-once executor that `Governance`
    implements, as abstract specifications.

The theorems chosen are the ones where the inductive argument says something the runs
cannot: that no timelock, number of accounts or runtimes, supply, amount or retry policy
breaks the claim.

## 3. The modules

Every operation of a contract is one action named after the entry point; its guards are
the code's checks in order, its primed variables the storage writes. A call that panics,
returns an error or traps in a callee changes nothing and is therefore no step. A stored
key that may be missing is a function whose domain grows, or `None`. Events, texts and ids
that repeat a position are left out. `_proofs` modules hold theorems, `MC` modules the
values TLC needs and symmetry sets. An operator whose comment begins with "Mutant" is a
plausible mistake in the definition below it; it is used by no specification.

| module | models | remarks |
|---|---|---|
| `BreakerOps` | the pure functions of `circuit_breaker.rs` | each is a function of the stored record and `now`; u64 `checked_add` is a bound of `U64Max` in the guard |
| `CircuitBreaker` | one contract holding a breaker | history variables: `audited`, the last activation event; `lastGovernance`, the time of the last accepted Governance call; `synced`, whether the last step synchronised |
| `RiskPool` | the pool with its token balance | a transfer is a move between `balance` and `poolTokens`; the Merkle hash is injective: a root is the record it commits to; `slashed` is history |
| `Ledger` | the clock and i128 addition that wraps | extended by everything below except `Webhooks` |
| `Policy` | the policy contract | `Day` ledger seconds; `Keep` is the absent field of a patch; `Patches` are the patches offered |
| `Claims` | the claims contract with `Policy` and `RiskPool` (`InsuranceSpec`) | `settle_claim` moves all three in one step; `PoolExports` is the set of function names the contract at that address exports |
| `Indemnity` | what the three promise | at most one open demand per policy, paid once, in full, within cover and funds; implemented by `Claims` |
| `Slashing` | the slashing contract | its history entries also keep the cooldown in force, for the spacing property; the end of a cooldown is a u64 sum that wraps |
| `Governance` | proposals and votes | the six creators share `Propose` and differ in the action they store; `execute_proposal` here is the case where the callee accepts |
| `Protocol` | all five contracts | `EnactProposal` is `ExecuteProposal` with its calls; `enacted` is history |
| `Escrow` | the escrow contract | `storage` is the version and migration state; `sigCount` is the stored counter, `signatures` the stored keys |
| `Webhooks` | one event and the runtimes | `pc` names the await a runtime is in; `holder` and `handled` are history |
| `Insurance` | policies and claims of the monolith | one pool and one property; the type of its evidence is a claim's nonce for its policy; two claims of the amount offered exceed a coverage together |
| `ProviderPool` | one pool of the monolith as its providers see it | `books` is history: every amount that stays in the contract after it left the reserve, what was accrued and handed out, and how often a debt was brought in line with another stake |
| `PropertyToken` | tokens, bridge requests, compliance, operators, upgrade timelock | `Zero` is the account a locked token belongs to; a call that returns `Err` is no step, which is what makes `bridge_expired` |
| `PropertyShares` | shares of one token | votes, which read neither dividends nor compliance, are followed apart (`SharesNext`) |
| `Bridge` | requests, signatures, execution, recovery | `runs`, the executions of a request since its last recovery, is history |
| `Fees` | dynamic fees, auctions, distribution | rates in basis points as in the code |
| `ComplianceRegistry` | customers and the audit trail | one jurisdiction's rules; the trail is a sequence of kinds |
| `ZkCompliance` | proofs, keys, verdicts | the pairing check is a relation between a proof and the key version it was made for |
| `Oracle` | aggregation and reputations, for one property | a valuation also carries the range of prices it was made of; means are floored as in the code |
| `AIValuation` | models, predictions, ensemble | `Features` of a property are those the generator gives for its id, which nothing else writes |
| `Metadata` | documents and indexes | a content id stands for its content; the list of a property's documents is a set, as nothing reads its order |
| `Fractional` | the fractional ledger | `doubled` is history: what transfers to oneself made; the supply wraps at `U128Max` |
| `TokenStore` | token pairs as a value | pure operators; `Sessions` and `Recovery` each hold one |
| `Sessions`, `Recovery` | sign-in and account recovery | each with its own clock, as each call is given the time |
| `Paging` | cursor pages and the cursor's text | a reader is the bytes of its name; checksum and base 64 are computed, bit by bit where the code ors; the number of bytes of a word is a constant |
| `Amount` | decimal amounts | the number of decimals and the largest amount are constants |
| `AuthRequests` | the requests of the NestJS authentication | `inflight` is the await a request is in and what it has read; one action runs from one await to the next; `keys` holds the idempotency keys of verifications, the only ones the controller makes; `clients` is who has which token; `ended`, what a logout revoked, is history |
| `*_proofs` | the theorems of section 6 | `Operators_proofs` holds the lemmas about sums and means the others cite; `Contracts_proofs` has pool, slashing, governance and escrow, `Claims_proofs` the claims with their refinement, `Protocol_proofs` the composition, `Insurance_proofs` the monolith, `Assets_proofs` and `Parts_proofs` what `MCAssets` and `MCParts` check |

`MCContracts`, `MCInsurance`, `MCAssets` and `MCParts` each check several parts that share nothing
but the ledger clock. A variable `focus`, fixed by the initial state, picks the part a behaviour is
about; the variables of the others keep their initial values. Every behaviour of a part alone
is a behaviour of the module, and its properties are evaluated in every state, so nothing is lost
by the choice, while the states of the parts add up instead of multiplying. Each part also has a
specification of its own (`BridgeSpec`, `TokenSpec`, `OracleSpec`, ...), without a focus; it is what
the theorems are about.

Two facts of the code a reader should know. Roles: privileged entry points call
`require_role` on the contract's *own* address, so the models keep the set of roles that
address holds (`poolRoles`, `policyAdmin`, ...) and not the caller. And the cross-contract
names: with the exported names of the repository neither settlement nor
claim approval can succeed (section 5), so the runs that study the protocol beyond that point
use exports to which the missing names are added (`AdaptedPool`, `AdaptedClaims` in the MC
modules), and say so.

## 4. What the runs check

All bounds are CONSTANTS named in the .cfg. Where `CHECK_DEADLOCK FALSE` stands, the system
may really stop in the bounded instance: the clock and the counters have reached their
bounds and every claim, vote or escrow is finished.

| run | shows | instance, and why it is enough |
|---|---|---|
| `contracts` | pool: books, stakes, tokens and root agree; slashing: capped history, cooldown spacing; governance: tally against records, support, decisions that stand; escrow: counters against signatures, status, nonces, releases, frozen while paused | pool: two providers, one claimant, three tokens, amounts -1 to 2, payouts and slashes up to 3, so every provider can be slashed after the pool was drained; slashing: history cap 2 with 4 violations, so the cap is passed twice, cooldowns 0, 2 and 7 with `U64Max` 7, so one end of a cooldown wraps; governance: two proposals, two voters, weights -1, 1 and 2, thresholds 0 and 60, clock to 3: last-second votes, ties and cancelled tallies happen; escrow: two escrows of two buyers, a committee of two and one too long, partial, negative and excessive deposits, a lock, a pause ending by 2 |
| `claims` | never paid beyond coverage, never revived, the lock, the sums, the refinement of `Indemnity` | two policies, two claims of one holder, one provider with two deposits, five governance patches: two claims in a row on one policy or one on each, a patch before, between and after them; durations of one bit wrap on renewal; with `I128Max` 8 what a settlement adds up does not wrap |
| `protocol` | slash pipeline, what was paid was decided and what was decided is done once, a pause holds passed slashes | one account per part, two proposals of five kinds (slash, allocation, approval, patch, pause), timelocks of 1, clock to 2: two proposals compete for the same pool and policy, and a pause enacted by one becomes effective before the other is executed |
| `webhooks` | ownership, leases, retry limit, and that every event settles | three runtimes: a holder, an overtaker and a third that overtakes it; lease 2, clock to 8, one retry, one replay, faults up to time 6; the last instant of the clock stands for all later ones |
| `insurance` | policies: token and policy in the same hands, the count of active policies, each payout an award; providers: the reserve's books, and every unit the contract holds accounted for | one policy, two claims of 60 on a coverage of 100 (together too much), one treaty with a retention, a breaker, clock to 3; two providers with deposits of 3, with and without vesting, premiums of 3 on `Precision` 10, so that rewards are rounded and leave dust, which deposits, up to the third change of a stake (`MaxSyncs`), and withdrawals accumulate |
| `assets` | bridge slot and locks, shares, executions against signatures, highest bids and fee conservation, audited compliance, verdicts, valuations, predictions, both document indexes | bridge: three operators, two signatures, clock to 2; token: two tokens, two requests, an expiry at once; shares: two of them, an escrowed ask, dividends with remainder; oracle: three sources of three kinds and weights, an outlier threshold of 1 and a history of 1 (in the code 2 and 100), so the filter and the trimming happen; zk: two proofs, two key versions, one unit of time; registry: one customer, three sets of factors, consent that expires; the rest two actors and small bounds named in the .cfg |
| `parts` | breaker: the stored record is sound, a pause starts and ends by its timelock, an active pause is only extended, the audit trail; API: tokens are earned, recovery is exclusive, pages miss nothing, amounts are exact; NestJS: guesses are bounded, a verification runs once, a refresh that fails leaves the old token | breaker: timelocks of 2, durations to 3, u64 ending at 9: pauses can be pending, active, rescheduled, expired unsynchronised, and times reach the end of the range; two users, three pairs, lockout after two failures (in the code five); three recovery requests over a store of eight tokens, with refreshes and replays of old ones; four items, pages of one or two and the default, two readers of whose names one begins the other, one damaged symbol in the cursor, words of one byte; two decimals and 299 stroops, texts on both sides of every limit; two requests at a time on two accounts, a lockout after two failures in a store of one entry (in the code 10 000), five token rows and two verification tokens: two refreshes of one token overlap, a failure is counted after the lock, the store evicts |

In `contracts`, `insurance`, `assets` and `parts` a contract's version, or whether it is to be
migrated, varies only for the part in focus. The `MC` modules also choose among the orders a part
allows, in named action constraints (`OracleBound`, `SharesBound`, `TokenBound`, `Apart`,
`RequestsBound`): in the oracle, reputations change only before a valuation and of one source at
a time, and the breaker moves only before valuations, because what a valuation reads is all reached and
orders after it that nothing reads are not; for the same reason votes on shares are followed without
dividends, a token is paused only while a request can still be opened, the monolith's breaker moves only
while there is no treaty and not all claims are filed, scores and treaties come before policies, and
an old escrow contract migrates before its last escrow. The specifications of the parts, which the theorems are about, have
none of these constraints. `Permutations` of providers
(`insurance`) and users (`parts`) are symmetric because no constant names one of them.

Requests about passwords leave the token rows alone; those about tokens start from one sign-in, and they
and those about verification concern one account. Whether the table of tokens has the unique index its
entity declares is left open, because no migration creates the table.

Five runs are expected to end in a violation: `claims_repository`, `webhooks_stale`,
`bridge_expired`, `requests_reissue` and `amounts_signed` (section 5).

**Fairness.** Only `webhooks` assumes any: `WF(TimePasses)` and `WF` of each runtime's
own steps. `setInterval` in `startWebhookProcessingLoop` keeps polling, a Prisma query
settles, and handlers return. No fairness is assumed of crashes, failed queries
or replays; they stop at `LastFault`, since with faults forever nothing can be promised.
The contracts promise no progress: a step happens only when somebody sends it.

**`PromptClaims`.** `webhooks` assumes that a runtime needs less than a lease (five minutes by default)
between reading the time it claims with and re-reading the row. `webhooks_stale` shows what
happens without that assumption.

## 5. Where code and documents disagree

| run | statement | what the code does |
|---|---|---|
| `claims_repository` | `claims/src/lib.rs:233-234`: the pool pays out | calls `get_stats` and `payout`, which the pool does not export |
| `webhooks_stale` | `docs/WEBHOOK_CONCURRENCY.md:7`: a stale worker cannot overwrite a newer state | the token is re-read after the claim and may be the successor's |
| `bridge_expired` | `property-token/src/lib.rs:2560`: "mark expired, unlock any locked token, free the pending slot"; `docs/tutorials/cross-chain-bridging.md:72`: an expired token can be recovered | `expire_bridge_request_if_needed` (`:2562`) does so and returns `RequestExpired`; its callers hand the error on, which undoes it: the token stays locked |
| `requests_reissue` | `auth.service.ts:121-122`: a token is re-issued if the account "is not already verified" | it is read before two awaits (`auth.service.ts:144`); a verification that finishes meanwhile is undone by the update (`verify-email.provider.ts:62`) |
| `amounts_signed` | `amount.rs:1`: "exact precision"; `amount.rs:156`: the fraction is padded "to exactly STROOP_DECIMALS digits" | the padding counts characters, and u64's `parse` takes a leading plus (`amount.rs:158`): "1.+5" is booked as 1.05 |

Observed while modelling, and too plain for a run of their own; the models do what the code
does.

The Soroban contracts and the webhook processor:

- `absorb_slash` raises the available capital only, by tokens it already counts: it can exceed the
  total, which `verification/invariants.rs:101` and `docs/verification.md:40` exclude.
- `apply_governance_update` (`policy/src/lib.rs:261`) compares the new coverage with what was claimed, not with what
  is being claimed: claimed plus open claim may exceed it (`docs/verification.md:46` says they do not), and the
  approved claim then cannot be settled.
- A claimed amount has no upper bound (`claims/src/lib.rs:96`) and its sum with what was claimed
  before wraps, as do the sums of `renew_policy` (`policy/src/lib.rs:185`).
- `pause` overwrites an expired window nobody synchronised, whose `ResumeActivated` event is
  then never emitted (`docs/circuit-breaker.md:49` promises one).
- `cancel_policy` and `expire_policy` do not look at the status, so one terminal status can
  replace another (`policy/src/lib.rs:276` says it never changes); `NeverRevived` still holds.
- `issue_policy` has no lower bound on the coverage (`docs/verification.md:48`).
- The sums in `submit_claim`, in the vote tallies and in `can_be_slashed` wrap in the release
  profile; a cooldown whose end does not fit u64 asks for nothing.
- `execute_proposal` calls `approve`, which Claims does not export (`governance/src/lib.rs:533`).
- A committee that names one account twice may need more signatures than it can give
  (`escrow/src/validation.rs:43`).
- A handler that outlives its lease runs beside its successor; and one that brings its
  runtime down is never counted as a retry.
- `create_escrow_advanced` asks for no authorisation of the buyer whose nonce it uses, and
  `vote` takes weights of any sign.
- `emit_event` in `lib/src/events.rs` pushes values of two types into one vector, the pool's
  `refresh_state_root` builds its statistics without one of the fields, and
  `processor.ts:230-231` lacks a comma. Here the models take the evident intent.

The insurance monolith (the crate is not a member of the workspace, and its batch loops name a
`claim_id` that is not declared; the model takes the evident one):

- Two pending claims of 60 on a coverage of 100 are both paid: the coverage left is checked on
  submission only.
- A claim of a batch whose payout fails stays Approved with the treaty's recovery recorded.
- `execute_payout` and `withdraw` transfer nothing (`total_out` is shadowed) and a token's price stays
  in the contract.
- A Renewed policy cannot be claimed on, cancelled or expired, and a Claimed one stays counted as
  active.
- `cancel_policy`, `renew_policy`, withdrawals and batches ignore the breaker; the parametric path
  skips nonces and rate limits; `move_to_dispute` checks neither caller nor status nor deadline.
- The penalty for early vesting is added to the available capital although the rewards it is
  taken from were never deducted; a full withdrawal forfeits what is still vesting.

The property token and the bridge:

- `transfer_from` never updates `token_owner`; `docs/tutorials/property_token_tutorial.md:487`
  asserts `owner_of` gives the receiver. Locking does not decrement the owner's count.
- Recovery of an old Failed request with `UnlockToken` or `CancelBridge` frees a token another request
  has locked since; `RetryBridge` makes two Pending requests of one token possible.
- `sign`, `execute`, `receive`, `burn` and `recover` ignore the breaker, and the entries the error
  log makes are rolled back with the error.
- In `contracts/bridge`, `sign_bridge_request` never looks at the status: a Completed request that
  is signed is Locked again and can be executed again. The signature of a rejecting operator counts,
  as do those of removed ones, and `execute_bridge` ignores the expiry.
- Shares: dividends are credited for shares bought after them, moved shares vote twice, anyone
  executes a proposal at any time, and a second ask overwrites the first, so cancelling it
  fails.

The contracts around them:

- Fees: `record_fee_collected` asks for no authorisation; auctions and claims move no money; the
  treasury's share and the remainders of a division are credited to nobody; `new` accepts a
  minimum above the maximum.
- Compliance: an AML check with one factor lowers a Prohibited risk, so a prohibited customer can
  become compliant; a revocation is not in the audit trail.
- ZK: the comment of `verify_and_store_proof` says a failed proof is "stored as Rejected", its
  `Err` reverts that; a new submission takes the place of a verified proof; rotating a key leaves proofs
  of the old one valid.
- Oracle: `update_valuation_from_sources` builds `PropertyValuation` without one of its fields; alerts
  compare a valuation with itself, which has just been stored; a source added again as inactive
  stays in the list of active ones; the filter compares with a floored mean and can drop the majority of the prices
  (1, 2, 2).
- AI valuation: a falling market adds to the price (the base less the trend's share is added); the
  bias threshold of 2000 cannot be reached; `update_model` accepts any accuracy.
- Documents: reporting a pinned file leaves its size counted for ever; whoever registers valid
  metadata first becomes the administrator of the property.
- Fractional: a transfer to oneself makes shares, a burn can wrap the supply, and a receiver is
  credited for dividends of before.

The API:

- `DESIGN.md:47`, "Only the first recovery completes": once a token has expired a second request
  stands beside the first, still Pending one; `request_recovery` picks either, by the order of a
  `HashMap`, and the model takes both. What is kept is that each token is good once.
- `AuthService` keeps its token store private, so a recovery works on another one: the sessions it
  should supersede stay.
- A lockout starts with the attempt after the last failure, a correct one much later included; a replay of a
  token of a closed session revokes nothing; `other_sessions_revoked` counts the tokens of all
  subjects.
- `pagination` is not
  declared in `lib.rs`, so it is not compiled; the model takes the file as it stands.
- `refreshToken` saves a second row with the `jti` that `generateTokens` has just saved
  (`refreshToken.provider.ts:111`), which the unique column of the entity refuses: with that index every
  refresh ends with an error, the old token good and a live row left that nobody holds.
- `logoutAll` does not see the rows of a refresh or sign-in under way, which live on; two refreshes of one
  token both succeed.
- A lock does not stop the requests that are past the check: their failures count on, and the success
  of one of them lifts the lock. A limit of one locks after two failures; a restart or a full store forgets locks.
- A verification whose audit entry fails has verified the account and reports an error; a resend whose
  audit entry or mail fails has replaced the token nobody then gets.
- `IdempotencyProvider` is used nowhere, and the controller hands no keys to the other operations.

## 6. What is proved

The theorems hold for all values of the constants that satisfy the named assumptions, in
the modules that declare the constants (`...Assumption`). They say that timelocks and bounds are
natural numbers, that sets of accounts one sums over are finite, that amounts are integers, natural
numbers where the code's type is unsigned, or i128 values, that `None`, `Keep`, `Never`, `Absent`, `Nobody` and
`Zero` are none of the values they stand beside, and that an administrator is one of the accounts.
Where the code compares with constants of its own, they are what those constants satisfy: a coverage ratio
of at most all, a limit of failures of at least two, a penalty of at most all.
`PowersAssumption` of `Webhooks` says that the powers of the back-off factor up to the retry
limit are natural numbers; it follows from the factor being one, by an induction the provers
do not have.

Some theorems have a hypothesis of their own, because what they say is false without it. `WeightsFit` (`HonestTally`, `DeployedTally`): a hundred times the
weights of all voters stays within i128. `SupplyFits` (`SettledIsPaid`, `PaymentsAreDecided`): the tokens
minted and a coverage together stay within it; claimed amounts may be anything.
`AmountsFit` (`CoreImplementsIndemnity`, `DeploymentImplementsIndemnity`): a claimed amount and a coverage together do. The configurations
meet them, `claims` with an `I128Max` of 8. These are about additions without overflow checks; `NoSigns`
(`AmountsStayExact`) says that no text has a plus sign, and `amounts_signed` what happens with one. `NamesFit`
(`PagesComplete`) says that a reader's name is shorter than 65536 bytes: `Cursor::encode` casts the length to u16, and a longer
name gives a cursor that is not read back.

| module | theorem | proves | run |
|---|---|---|---|
| `Contracts_proofs` | `PoolTypeCorrect`, `PoolBooks`, together `BooksAreRooted` | `PoolTypeOK`, `BooksBalance`, `RootedBooks` | `contracts` |
| | `StakesAddUp` | `StakesExplainTotal` | |
| | `HistoryFollowsCounter`, `ViolationsAreSpaced`, together `TrimmedHistory` | `HistoryIsRecent`, `CooldownSpacing`, `HistoryIsSound` | |
| | `PauseStopsSlashing` | `NoViolationWhilePaused` | |
| | `DecisionsNeverFall`, `FinalTally` | `DecisionsStand`, `TallyIsFrozen` | |
| | `HonestTally` | `TallyIsHonest` | |
| | `CountersAreSignatures`, `StatusIsHonest`, `NoncesCount`, `ReleaseIsApproved`, together `EscrowIsTrusted` | `EscrowIsHonest` and its parts | |
| | `PauseFreezes` | `FrozenWhilePaused` | |
| `Claims_proofs` | `ClaimsTypeCorrect`, `NeverOverpaid`, `OneOpenClaim` | `ClaimsTypeOK`, `ClaimedWithinCoverage`, `LockIsTheOpenClaim` | `claims` |
| | `EndedStaysEnded` | `NeverRevived` | |
| | `SettledIsPaid` | `SettledExplainsPaid` | |
| | `CoreImplementsIndemnity` | `ImplementsIndemnity` | |
| `Protocol_proofs` | `SlashingIsAtomic` | `SlashPipelineAtomic` | `protocol` |
| | `NothingEnactedTwice`, `PaymentsAreDecided` | `EnactedOnce`, `DecidedOnce` | |
| | `PausedProtocolSlashesNobody` | `PauseHoldsSlashing` | |
| | `DeployedTally`, `DeployedDecisionsStand` | `TallyIsHonest`, `DecisionsStand` of the composition | `contracts` |
| | `DeployedInvariance`, with it `DeployedBooks`, `DeployedStakes`, `DeployedRecords` | `RootedBooks`, `StakesExplainTotal`, `HistoryIsSound` of the composition | `contracts` |
| | `DeployedNeverOverpaid`, `DeployedOneOpenClaim`, `DeployedEndedStaysEnded` | `ClaimedWithinCoverage`, `LockIsTheOpenClaim`, `NeverRevived` of the composition | `claims` |
| | `DeploymentImplementsIndemnity` | `ImplementsIndemnity` of the composition | `claims` |
| `Webhooks_proofs` | `TypeCorrect`, `ProcessedStays` | `TypeOK`, `ProcessedIsFinal` | `webhooks` |
| | `EndsAreEarned`, `HolderFinishes`, `LeaseIsExclusive`, each assuming `PromptClaims` | `FinishedIsEarned`, `OnlyHolderFinishes`, `OneLiveLease` | |
| `Insurance_proofs` | `ReservesBalance` | `ReserveBooksBalance` | `insurance` |
| | `PoliciesStayCounted` | `PolicyBooksAgree` | |
| | `PaymentsAreAwarded` | `PayoutsAreAwards` | |
| `Assets_proofs` | `ExecutionsAreSigned` | `EachExecutionIsSigned` | `assets` |
| | `SlotsAreOpen`, `OwnersAreProtected` | `PendingSlotIsOpen`, `OnlyOperatorsLock` | |
| | `SharesAreKept` | `ShareLedgersBalance` | |
| | `FeesStayHonest` | `FeesAreHonest` | |
| | `ChecksFollowVerification` | `CompliantIsAudited` | |
| | `ValuationsStayBacked` | `ValuationsAreBacked` | |
| | `PredictionsStayReproducible` | `PredictionsAreReproducible` | |
| | `VerdictsAreKept` | `VerdictsStand` | |
| | `DocumentsStayIndexed` | `DocumentsAreIndexed` | |
| `Parts_proofs` | `RecordIsSound`, `PauseIsAnnounced`, together `RecordIsTrusted` | `StoredRecordOK`, `PauseIsAudited`, `RecordIsAudited` | `parts` |
| | `PauseIsTimelocked`, `ResumeIsTimelocked`, together `TimelocksHold` | `TimelocksBind` | |
| | `PauseOnlyExtends` | `ActivePauseOnlyExtends` | |
| | `AccessStaysEarned` | `AccessIsEarned` | |
| | `RecoveryStaysExclusive` | `RecoveryIsExclusive` | |
| | `RequestsStayHonest` | `RequestsKeepPromises` | |
| | `AmountsStayExact` | `AmountsAreExact` | |
| | `PagesComplete` | `PagesMissNothing` | |

The inductive invariants, and why they are what they are:

- **Breaker**: `StoredRecordOK` itself. The timelock properties need to know that the window in
  the record is the one the last Governance call wrote (`WellFormed`) and that a pending resume
  is younger than it (`ResumeFollowsGovernance`).
- **Pool**: `PoolInv` is the types, `TokensExplainAvailable`, `CapitalExplained` and the fresh
  root. No number is bounded below by its own guard alone: the types need the books.
- **Claims**: `ClaimsInv` is the types, `ClaimedWithinCoverage` and the lock invariant, which
  is used in its two directions: an open claim is locked, and a lock names an open claim.
  `PaidInv` adds what each policy counts (the sum of what was settled on it), the tokens, which a payout only
  moves, and what each holder received. That a sum with a coverage does not wrap follows from the supply: what
  is settled was paid in tokens that exist.
- **The refinement** maps a claim's status and its policy's lock to a demand of `Indemnity`. The steps of
  users and of governance stutter or end a cover, `SubmitClaim` is a demand, `SettleClaim` a payment; the sums
  of `PaidInv` make the payment fit both the cover and the funds.
- **Slashing**: `SlashInv` adds to the three properties that no recorded violation lies in the
  future (`NotFuture`); without it the wrapped end of a cooldown would say nothing about the
  order of two entries.
- **Governance**: `GovInv` is the types and `DecisionsStand`, whose parts say that what is
  finalized is over by the clock, which is why `vote` cannot reach it, and what is executed has
  no pending action. `TallyOK` says that the totals of a proposal are the sums of its vote records.
- **Escrow**: `EscrowInv` is the types, `CountersOK` (a counter is the cardinality of the
  signatures it stands for, all of them by the committee), the status of each escrow, what a
  released escrow had (`ReleaseOK`, stable because neither signatures nor time go away), and
  the nonces.
- **Protocol**: every step of the composition is first shown to be one of governance, or one that leaves it
  alone. `HistoryInv` adds to `GovInv` that what was enacted belongs to an executed proposal and to no
  other. On it rest `SlashedInv`, in which the violations of a provider are counted by its enacted slashes, and
  `DecidedInv`, the invariants of governance and of the claims together with the money: the pool's payments are the settled
  claims and the enacted allocations. `DeployedInv` joins the invariants of the four contracts. They carry over because
  none of them bounds an argument: governance passes any i128 amount and any pause that fits u64 to the pool and to slashing, where
  the users' calls of `contracts` are from sets (`PoolCall` says what any call of the pool keeps). Two things are assumed
  (`ProtocolAssumption`): who may be slashed may also stake, and a pause's duration is a u64. The refinement of `Indemnity` is shown
  again for the composition, where an approval, a patch or an allocation is a step of `execute_proposal`.
- **Webhooks**: `BaseInv` needs no assumption about time. `LeaseInv` says of every runtime that
  has claimed (`LeaseOK`): its token is the time of its own claim, and either the row still
  stands as its claim left it and it is the holder (`Mine`), or its lease has run out and
  somebody has written since (`Overtaken`), or it has finished the event without learning of it
  (`Unaware`). Every step of a runtime is first shown to have one of three shapes: it walks on,
  it takes the row, or it ends the event. `PromptClaims` is needed in one place, where time
  passes.
- **Provider pool**: `ProviderInv` measures what is due to a provider in units of the accumulator's precision, so that no
  division is left in it: nobody has a negative due (`DebtsCovered`), and what was handed out and what is due
  together exceed what premiums accrued by less than one unit for each time a debt was rounded
  (`DuesFit`). An operation changes one term of the sum, or the accumulator under all of them.
- **Policies of the monolith**: `PolicyInv` bounds the pool's count from both sides: every policy in force is counted,
  and nothing is counted but those and settled ones. A claim's processing is a chain of states inside one
  message; `Settles` says what any such chain may change of policies, and a batch of any length keeps it, by
  a least counterexample: a batch of which every shorter one keeps `Settles` keeps it too. The money is followed the
  same way: `Decides` says of one decision that the pool and one policy grow by what the claim was awarded, or by nothing, and
  `Awards` of a chain of them that they grow by the sum over the claims newly paid; a claim repeated in a batch
  is no longer open the second time and adds nothing.
- **Bridge and token**: `BridgeInv` counts the executions of each request against the operators that
  signed (`Earned`); a signature more keeps it, and so do the removal of operators and retries, because signatures are never taken back.
  `TokenInv` is the slot and the request it names. That a token leaves its owner only for operators' signatures is a property of a step,
  shown for the one that locks (`LockIsSigned`).
- **Shares**: `SharesInv` is the sum itself with an ask's escrow. The fractional ledger wraps, so its sum is a congruence modulo
  2^128 (`FractionInv`), which a transfer to oneself moves by what `doubled` records.
- **Fees**: `Funded` (what was handed out is what validators hold and have claimed, and fits what was collected) and
  `Leads` (no bid on record is above the leading one, which is its bidder's).
- **Compliance registry**: for every file there is a verification in the trail that no other
  has followed, after which the trail shows a check for every flag of the file (`Backed`). Appending keeps it for other checks and
  starts anew for a verification.
- **Oracle**: a stored valuation is in the range it carries. The step is arithmetic: a mean weighted by natural numbers lies
  between the least and the greatest value, whatever the filter keeps.
- **ZK compliance**: the statistics count the proofs by status (`Tallied`); a verdict moves one of them and one number.
- **Valuation engine**: a prediction is what `PredictedValue` gives for the features of the property, all of whose factors are positive.
- **Documents**: both indexes in both directions, and the size pinned at least the sum over pinned documents; at
  least, as a reported file stays counted.
- **Sessions**: three parts. `LockoutInv` ties the failed attempts to the passwords tried since the last lockout;
  `GrantsInv`: no refresh token was good twice; `StoreInv` ties the token store to the sessions
  (`Fit`: what is live is held by an open session and the other way round) and to the cuts. The
  lemmas about the store are stated for the pure operators of `TokenStore`, and used for both its owners.
- **Recovery**: `RequestsBooked`, a request is completed once and in time, and `VaultCut`, nothing of a subject issued
  before its last recovery is live.
- **Requests of the NestJS process**: in `LockoutsInv` the attempts of a locked account and the requests
  that can still fail for it stay below the limit plus the number of requests, an argument about the requests
  in flight and not about the counter; `KeysInv` gives every verification under way its key;
  `RowsInv` follows a refresh through its three writes (`SavedOnce`, then `Succeeded`).
- **Amounts**: the property is inductive as it stands; what needs an argument is the reading of a text.
  `Value` reads digits from the left, `Meaning` adds them up by their places. `PlaceValue` shows the two to be the
  same number for digits of any length, `ReadPadded` that the zeros behind a fraction multiply it, and `FromDecimalIs` puts the parts
  together with the limits of u64 on the way.
- **Pages**: `PagingInv` is the order of the list and of what was read, that a cursor is the text of the last key read, and the
  property. A step keeps it if the text it is called with is refused or read as that key (`NextPageKeeps`, `ServeKeeps`), so the rest of
  the proof is about texts: a cursor's is read back (`CursorText`), and one that differs in a symbol is refused or read as the same
  (`DamageNoticed`). A symbol for another changes two neighbouring bytes at most, and their sum (`SymbolChanged`), which the lower
  byte of the checksum shows, whatever becomes of the second sum (`SumNoticed`); padding in the place of the last symbol, or
  the other way round, leaves too few bytes (`OneShort`) or the same fields (`LongEnough`). What is read from two recursive sums over
  the bytes is got by `ThroughAll`, an induction over positions that is about a set instead of an operator.

`NoViolationWhilePaused`, `TallyIsFrozen` and `ProcessedIsFinal` are proved and need no run of their own.

**Sums.** The invariants with sums are about `SumFunctionOnSet` of the community modules. The library's
induction theorems take an operator, which the provers cannot instantiate; `Operators_proofs` has the lemmas
about sums (an element more or less, bounds, equal parts, scaling, two sums combined) by way of sets instead: the finite subsets
for which a lemma fails form a set, which would have a smallest member (`MinimalSubset`), and that member
less an element refutes it. `LeastNatural` does the same for lengths: of batches, and of numbers in digits.

**What proving changed.** Two invariants held in the runs and could not be proved because they were false for
other constants. A claim that was pending when its policy was cancelled, and is paid afterwards, turns
the cancelled policy into a settled one that the pool does not count: `ActiveIsCounted` compares with the policies in force
and allows settled ones. And each deposit, partial withdrawal or reinvestment brings a provider's debt in line with another stake by a division that rounds down, in
the provider's favour: over many of them rewards exceed what premiums accrued by up to a unit of the token each.
`RewardsAreAccrued` says so, and the bounds of `insurance` (`Stakes`, `MaxMoney`, `MaxSyncs`) are such that both happen in the run.

**Left to TLC.** Of the properties of the passing runs one has no theorem: `EventuallySettled`, as liveness under
fairness is out of the prover's reach.

## 7. What is not modelled

- The web client, the proxy, analytics and the NestJS services but authentication: what they keep is stored and
  returned, or lives in a database whose transactions are the database's own.
- Of the breaker, counting of signatures in `pause_with_multisig`, and the ink! wrapper.
- Of the insurance monolith, the evidence store, the roles, the change of the administrator and the
  actuarial tables.
- Of the property token, legal documents, ownership history, gas estimates and the setters of
  limits; of the bridge, `migration.rs`, the fee quote and the nonce.
- Of the registries, encrypted hashes, reports, audits, anonymous certificates, the checks of formats; of
  the oracle, alerts, trends and location factors; of the AI engine, training data, pipelines, drift
  and A/B records.
- Of the API's Rust core, `catch_unwind` around a panicking token counter, scalar products and
  quotients of amounts, and the checks of passwords and recovery balances. Of the NestJS
  authentication, roles, encryption, request throttling and the audit entries beyond their failing.
- Storage expiry (TTL) of the ledger, network fees and gas, event payloads.
- The token contract beyond "a transfer moves the amount or traps; negative amounts trap".
- Of the webhook processor, Prisma beyond atomic single-row operations, and the admin views.
