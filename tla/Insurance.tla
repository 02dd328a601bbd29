----------------------------- MODULE Insurance -----------------------------
(***************************************************************************)
(* The ink! insurance contract (contracts/insurance/src/insurance_impl.rs):*)
(* policies priced from a risk assessment and sold against the pool, their *)
(* tokens, claims with their replay and rate limits, payouts with          *)
(* reinsurance, batches, disputes and the circuit breaker.  The Admin also *)
(* holds Governance; it may do all an Assessor or an Oracle may.  What the *)
(* pool is to its liquidity providers is module ProviderPool.              *)
(***************************************************************************)
EXTENDS Ledger, BreakerOps, SequencesExt, FiniteSetsExt

CONSTANTS
  Users,          \* accounts that call the contract
  Assessors,      \* those that hold Role::Assessor
  Sellers,        \* those that offer their tokens for sale
  Stakes,         \* stakes that providers bring in or take out
  Coverages,      \* coverage_amount values requested
  Payments,       \* values transferred with a premium or a purchase
  Scores,         \* overall risk scores
  ClaimAmounts,   \* amounts claimed
  EvidenceTypes,  \* evidence_type of a claim, a nonce of its policy
  TreatyTerms,    \* [limit, retention, duration] offered to register_reinsurance
  Prices,         \* prices offered to list_token_for_sale
  PauseLengths,   \* durations offered to pause
  CoverageRatio,  \* max_coverage_ratio of the pool, in basis points
  Threshold,      \* reinsurance_threshold of the pool
  FeeRate,        \* platform_fee_rate, in basis points
  MinPremium,     \* min_premium_amount
  PremiumScale,   \* divisor of the annual premium
  DeductibleScale,\* divisor of the deductible
  CooldownPeriod, \* claim_cooldown_period
  Term,           \* duration_seconds of policies and assessments
  Second,         \* block timestamps (milliseconds) in a second
  MaxPolicies, MaxClaims, MaxTreaties, MaxMoney  \* bounds

ASSUME InsuranceAssumption ==
  /\ FeeRate \in 0 .. 1000 /\ CoverageRatio \in 1 .. 10000
  /\ Term \in Nat \ {0} /\ Second \in Nat \ {0} /\ CooldownPeriod \in Nat \ {0}
  /\ PremiumScale \in Nat \ {0} /\ DeductibleScale \in Nat \ {0}
  /\ Stakes \subseteq Nat /\ Coverages \subseteq Nat /\ Payments \subseteq Nat
  /\ ClaimAmounts \subseteq Nat /\ Prices \subseteq Nat /\ Scores \subseteq Nat

VARIABLES
  pool,        \* total_capital, available_capital, active_policies, total_claims_paid
  assessment,  \* risk_assessments of the one property, or None
  policies,    \* InsurancePolicy records by policy id
  tokens,      \* InsuranceToken of the policy with the same id: owner and price
  claims,      \* InsuranceClaim records by claim id
  treaties,    \* ReinsuranceAgreement records
  lastPaid,    \* claim_cooldowns of the property
  lastFiled,   \* caller_last_claim
  nonce,       \* caller_nonces
  breaker      \* circuit_breaker

policyVars == <<assessment, policies, tokens>>
limitVars == <<lastPaid, lastFiled, nonce>>
otherVars == <<treaties, breaker>>
insuranceVars == <<now, pool, policyVars, claims, limitVars, otherVars>>

\* The chain is older than a cooldown: a limit that was never used is over.
InsuranceInit ==
  /\ pool = [total |-> 0, available |-> 0, active |-> 0, paid |-> 0]
  /\ now = CooldownPeriod
  /\ assessment = None
  /\ policies = <<>> /\ tokens = <<>> /\ claims = <<>> /\ treaties = <<>>
  /\ lastPaid = 0
  /\ lastFiled = [u \in Users |-> 0]
  /\ nonce = [u \in Users |-> 0]
  /\ breaker = Cleared

Seconds == now \div Second

\* ensure_not_paused: the synchronisation stays when the call succeeds.
NotPaused ==
  /\ ~IsPaused(breaker, Seconds)
  /\ breaker' = SyncResult(breaker, Seconds)

-----------------------------------------------------------------------------
(* Premiums and policies.                                                  *)

RiskMultiplier(score) ==
  CASE score <= 20 -> 400 [] score \in 21 .. 40 -> 250 [] score \in 41 .. 60 -> 150
    [] score \in 61 .. 80 -> 110 [] OTHER -> 80

\* calculate_premium, for a fire policy (coverage multiplier 100).
AnnualPremium(coverage) ==
  (coverage * 150 * RiskMultiplier(assessment.score) * 100) \div PremiumScale

Deductible(coverage) ==
  (coverage * 500 * RiskMultiplier(assessment.score)) \div DeductibleScale

Fee(paid) == (paid * FeeRate) \div 10000

\* What deposit_liquidity and withdraw_liquidity do to the capital.
StakeIn(n) ==
  /\ NotPaused /\ pool.total + n <= MaxMoney
  /\ pool' = [pool EXCEPT !.total = @ + n, !.available = @ + n]
  /\ UNCHANGED <<policyVars, claims, limitVars, treaties>>

StakeOut(n) ==
  /\ pool.total >= n /\ pool.available >= n
  /\ pool' = [pool EXCEPT !.total = @ - n, !.available = @ - n]
  /\ UNCHANGED <<policyVars, claims, limitVars, otherVars>>

UpdateRiskAssessment(score) ==
  /\ assessment' = [score |-> score, until |-> now + Term]
  /\ UNCHANGED <<pool, policies, tokens, claims, limitVars, otherVars>>

\* create_policy and create_parametric_policy.
CreatePolicy(u, coverage, paid, parametric) ==
  /\ NotPaused
  /\ coverage <= (pool.total * CoverageRatio) \div 10000
  /\ assessment # None /\ now <= assessment.until
  /\ AnnualPremium(coverage) >= MinPremium
  /\ paid >= AnnualPremium(coverage)
  /\ coverage <= ((pool.available + paid - Fee(paid)) * CoverageRatio) \div 10000
  /\ pool' = [pool EXCEPT !.available = @ + paid - Fee(paid), !.active = @ + 1]
  /\ policies' = Append(policies,
       [holder |-> u, coverage |-> coverage, deductible |-> Deductible(coverage),
        end |-> now + Term, status |-> "Active", claimed |-> 0,
        parametric |-> parametric, used |-> {}])
  /\ tokens' = Append(tokens, [owner |-> u, price |-> None])
  /\ UNCHANGED <<assessment, claims, limitVars, treaties>>

\* renew_policy, which counts the policy neither in nor out of the active ones.
RenewPolicy(u, id, paid) ==
  /\ paid > 0 /\ policies[id].holder = u
  /\ policies[id].status \in {"Active", "Renewed"}
  /\ pool' = [pool EXCEPT !.available = @ + paid - Fee(paid)]
  /\ policies' = [policies EXCEPT ![id].end = @ + Term, ![id].status = "Renewed"]
  /\ UNCHANGED <<assessment, tokens, claims, limitVars, otherVars>>

\* Mutant: the pool goes on counting the policy.
CancelPolicy_StillCounted(id) ==
  /\ policies[id].status = "Active"
  /\ policies' = [policies EXCEPT ![id].status = "Cancelled"]
  /\ UNCHANGED <<pool, assessment, tokens, claims, limitVars, otherVars>>

\* cancel_policy, by the holder or the Admin.
CancelPolicy(id) ==
  /\ policies[id].status = "Active"
  /\ policies' = [policies EXCEPT ![id].status = "Cancelled"]
  /\ pool' = [pool EXCEPT !.active = Monus(@, 1)]
  /\ UNCHANGED <<assessment, tokens, claims, limitVars, otherVars>>

\* expire_policies with no limit on the scan.
ExpirePolicies ==
  LET due == {id \in DOMAIN policies : policies[id].status = "Active" /\ now > policies[id].end}
  IN  /\ due # {}
      /\ policies' = [id \in DOMAIN policies |->
           IF id \in due THEN [policies[id] EXCEPT !.status = "Expired"] ELSE policies[id]]
      /\ pool' = [pool EXCEPT !.active = Monus(@, Cardinality(due))]
      /\ UNCHANGED <<assessment, tokens, claims, limitVars, otherVars>>

ListTokenForSale(u, id, price) ==
  /\ tokens[id].owner = u /\ price > 0
  /\ tokens' = [tokens EXCEPT ![id].price = price]
  /\ UNCHANGED <<pool, assessment, policies, claims, limitVars, otherVars>>

\* Mutant: the policy stays with the seller.
PurchaseToken_PolicyStays(u, id, paid) ==
  /\ tokens[id].price # None /\ paid >= tokens[id].price
  /\ policies[id].status = "Active"
  /\ tokens' = [tokens EXCEPT ![id] = [owner |-> u, price |-> None]]
  /\ UNCHANGED <<pool, assessment, policies, claims, limitVars, otherVars>>

\* purchase_token: the policy goes with its token.  The price stays with the
\* contract.
PurchaseToken(u, id, paid) ==
  /\ tokens[id].price # None /\ paid >= tokens[id].price
  /\ policies[id].status = "Active"
  /\ policies' = [policies EXCEPT ![id].holder = u]
  /\ tokens' = [tokens EXCEPT ![id] = [owner |-> u, price |-> None]]
  /\ UNCHANGED <<pool, assessment, claims, limitVars, otherVars>>

-----------------------------------------------------------------------------
(* Payouts, as a function of the state they change: a batch makes several. *)

Core == [pool |-> pool, policies |-> policies, claims |-> claims,
         treaties |-> treaties, lastPaid |-> lastPaid]

\* try_reinsurance_recovery: the first treaty in force that covers something.
Recovered(s, amount) ==
  LET share(t) == LET over == Monus(amount, t.retention)
                  IN  IF over < t.limit THEN over ELSE t.limit
      pays == {i \in DOMAIN s.treaties : now <= s.treaties[i].end /\ share(s.treaties[i]) > 0}
  IN  IF amount <= Threshold \/ pays = {} THEN s
      ELSE [s EXCEPT !.treaties[Min(pays)].recovered = @ + share(s.treaties[Min(pays)])]

PayoutOf(s, id) ==
  Monus(s.claims[id].amount, s.policies[s.claims[id].policy].deductible)

PayoutFits(s, id) == PayoutOf(s, id) = 0 \/ s.pool.available >= PayoutOf(s, id)

\* Mutant: the policy's total is left alone.
Paid_PolicyForgotten(s, id, amount) ==
  LET p == s.claims[id].policy IN
  [s EXCEPT !.pool.available = @ - amount, !.pool.paid = @ + amount,
            !.lastPaid = now, !.claims[id].status = "Paid"]

\* execute_payout, once the pool can pay.  The coverage is not consulted again.
Paid(s, id, amount) ==
  LET p == s.claims[id].policy IN
  [s EXCEPT !.pool.available = @ - amount, !.pool.paid = @ + amount,
            !.policies[p].claimed = @ + amount,
            !.policies[p].status =
              IF s.policies[p].claimed + amount >= s.policies[p].coverage
              THEN "Claimed" ELSE @,
            !.lastPaid = now, !.claims[id].status = "Paid"]

\* Mutant: a claim that was decided may be decided again.
Open_Again(s, id) == s.claims[id].status # "Disputed"

Open(s, id) == s.claims[id].status \in {"Pending", "UnderReview"}

\* process_claim_inner: the claim is stored as Approved before the payout and
\* stays so when the pool cannot pay (a batch keeps what its items did).
Approve(s, id) ==
  LET amount   == PayoutOf(s, id)
      approved == [s EXCEPT !.claims[id].status = "Approved", !.claims[id].payout = amount]
  IN  IF ~Open(s, id) THEN s
      ELSE IF amount = 0 THEN approved
      ELSE IF PayoutFits(s, id) THEN Paid(Recovered(approved, amount), id, amount)
      ELSE Recovered(approved, amount)

Reject(s, id) ==
  IF Open(s, id) THEN [s EXCEPT !.claims[id].status = "Rejected"] ELSE s

Becomes(s) ==
  /\ pool' = s.pool /\ policies' = s.policies /\ claims' = s.claims
  /\ treaties' = s.treaties /\ lastPaid' = s.lastPaid
  /\ UNCHANGED <<assessment, tokens, lastFiled, nonce>>

\* process_claim: an error of the payout reverts the decision with it.
ProcessClaim(id, approved) ==
  /\ NotPaused
  /\ Open(Core, id)
  /\ approved => PayoutFits(Core, id)
  /\ Becomes(IF approved THEN Approve(Core, id) ELSE Reject(Core, id))

\* The state after a number of items.
Batch(ids, approved) ==
  LET after[n \in 0 .. Len(ids)] ==
        IF n = 0 THEN Core
        ELSE IF approved THEN Approve(after[n - 1], ids[n]) ELSE Reject(after[n - 1], ids[n])
  IN  after[Len(ids)]

\* batch_approve_claims and batch_reject_claims, which do not look at the
\* circuit breaker.  The loop calls process_single_claim twice for an item:
\* the second call finds the claim decided and does nothing.
BatchClaims(ids, approved) == Becomes(Batch(ids, approved)) /\ UNCHANGED breaker

-----------------------------------------------------------------------------
(* Claims.                                                                 *)

Claimable(u, id, amount, type) ==
  /\ amount > 0
  /\ type \notin policies[id].used
  /\ policies[id].holder = u /\ policies[id].status = "Active"
  /\ now <= policies[id].end
  /\ amount <= Monus(policies[id].coverage, policies[id].claimed)
  /\ now - lastPaid >= CooldownPeriod
  /\ now - lastFiled[u] >= CooldownPeriod

NewClaim(u, id, amount) ==
  [policy |-> id, claimant |-> u, amount |-> amount, status |-> "Pending",
   payout |-> 0]

\* submit_claim with the nonce the caller is expected to give.
SubmitClaim(u, id, amount, type) ==
  /\ NotPaused /\ Claimable(u, id, amount, type)
  /\ ~policies[id].parametric
  /\ claims' = Append(claims, NewClaim(u, id, amount))
  /\ policies' = [policies EXCEPT ![id].used = @ \union {type}]
  /\ lastFiled' = [lastFiled EXCEPT ![u] = now]
  /\ nonce' = [nonce EXCEPT ![u] = @ + 1]
  /\ UNCHANGED <<pool, assessment, tokens, lastPaid, treaties>>

\* submit_claim on a parametric policy whose event has happened: the claim is
\* processed at once, by its own claimant, who has to be an Assessor.  Neither
\* the nonces nor the caller's rate limit are touched on this path.
SubmitParametricClaim(u, id, amount, type) ==
  /\ NotPaused /\ Claimable(u, id, amount, type)
  /\ policies[id].parametric /\ u \in Assessors
  /\ LET filed == [Core EXCEPT !.claims = Append(@, NewClaim(u, id, amount))]
     IN  /\ PayoutFits(filed, Len(filed.claims))
         /\ Becomes(Approve(filed, Len(filed.claims)))

\* move_to_dispute: by anyone, at any time, from any status.
MoveToDispute(id) ==
  /\ NotPaused
  /\ claims' = [claims EXCEPT ![id].status = "Disputed"]
  /\ UNCHANGED <<pool, policyVars, limitVars, treaties>>

RegisterReinsurance(t) ==
  /\ t.retention > 0 /\ t.retention <= t.limit
  /\ treaties' = Append(treaties, [limit |-> t.limit, retention |-> t.retention,
                                   end |-> now + t.duration, recovered |-> 0])
  /\ UNCHANGED <<pool, policyVars, claims, limitVars, breaker>>

\* pause, emergency_pause, resume and is_paused.
BreakerStep ==
  /\ \/ \E d \in PauseLengths :
          /\ PauseAccepted(breaker, Seconds, d)
          /\ breaker' = PauseResult(breaker, Seconds, d, "admin")
     \/ breaker' = EmergencyResult(breaker, Seconds, "admin")
     \/ /\ ResumeSchedules(breaker, Seconds)
        /\ breaker' = ResumeScheduledResult(breaker, Seconds)
     \/ ResumeCompletes(breaker, Seconds) /\ breaker' = Cleared
     \/ breaker' = SyncResult(breaker, Seconds)
  /\ UNCHANGED <<pool, policyVars, claims, limitVars, treaties>>

-----------------------------------------------------------------------------
HolderNext(u) ==
  \/ /\ Len(policies) < MaxPolicies
     /\ \E c \in Coverages, n \in Payments, p \in BOOLEAN : CreatePolicy(u, c, n, p)
  \/ \E id \in DOMAIN policies :
       \/ \E n \in Payments :
            \/ pool.available + n <= MaxMoney /\ RenewPolicy(u, id, n)
            \/ PurchaseToken(u, id, n)
       \/ u \in Sellers /\ \E n \in Prices : ListTokenForSale(u, id, n)
       \/ /\ Len(claims) < MaxClaims
          /\ \E n \in ClaimAmounts, t \in EvidenceTypes :
               SubmitClaim(u, id, n, t) \/ SubmitParametricClaim(u, id, n, t)

AdminNext ==
  \/ \E s \in Scores : UpdateRiskAssessment(s)
  \/ \E id \in DOMAIN policies : CancelPolicy(id)
  \/ ExpirePolicies
  \/ \E id \in DOMAIN claims :
       MoveToDispute(id) \/ \E approved \in BOOLEAN : ProcessClaim(id, approved)
  \/ \E ids \in SeqOf(DOMAIN claims, MaxClaims), approved \in BOOLEAN :
       BatchClaims(ids, approved)   \* in any order, and with repetitions
  \/ Len(treaties) < MaxTreaties /\ \E t \in TreatyTerms : RegisterReinsurance(t)

InsuranceNext ==
  \/ /\ \/ \E u \in Users : HolderNext(u)
        \/ AdminNext \/ BreakerStep
        \/ \E n \in Stakes : StakeIn(n) \/ StakeOut(n)
     /\ UNCHANGED now
  \/ Tick /\ UNCHANGED <<pool, policyVars, claims, limitVars, otherVars>>

InsuranceSpec == InsuranceInit /\ [][InsuranceNext]_insuranceVars

-----------------------------------------------------------------------------
TokenFollowsPolicy ==
  \A id \in DOMAIN policies : tokens[id].owner = policies[id].holder

Having(statuses) == {id \in DOMAIN policies : policies[id].status \in statuses}

ActiveIsCounted ==
  /\ Cardinality(Having({"Active", "Renewed"})) <= pool.active
  /\ pool.active <= Cardinality(Having({"Active", "Renewed", "Claimed"}))

\* A policy's token and the policy are in the same hands through every sale,
\* and the pool counts every policy that is active or renewed, and none beside
\* these but settled ones, through renewals and settlements (saturating_sub
\* would hide a double decrement).  A settled one may have been cancelled, and
\* is not counted, before the last of its claims was paid.
PolicyBooksAgree == TokenFollowsPolicy /\ ActiveIsCounted

\* A step pays what the claims it settles were awarded and nothing else: the
\* pool's and the policies' totals grow by the payouts of claims that turn
\* from undecided to Paid in the same step (a batch settles several).
SettledNow(p) ==
  {id \in DOMAIN claims' : /\ claims'[id].policy = p /\ claims'[id].status = "Paid"
                           /\ id \in DOMAIN claims => Open(Core, id)}
Awarded(ids) == SumFunctionOnSet([id \in DOMAIN claims' |-> claims'[id].payout], ids)

PayoutsAreAwards ==
  [][ /\ \A p \in DOMAIN policies :
           policies'[p].claimed - policies[p].claimed = Awarded(SettledNow(p))
      /\ pool'.paid - pool.paid =
           Awarded(UNION {SettledNow(p) : p \in DOMAIN policies}) ]_insuranceVars
=============================================================================
