------------------------------- MODULE Claims -------------------------------
(***************************************************************************)
(* The claims contract (contracts/claims/src/lib.rs) with the policy       *)
(* contract and the risk pool it calls.  One call is one transaction:      *)
(* settle_claim pays from the pool, counts against the policy and closes   *)
(* the claim in one step, or the host rolls all three back.                *)
(***************************************************************************)
EXTENDS Policy, RiskPool

CONSTANTS
  MaxClaims,     \* bound on the claim counter
  ClaimAmounts,  \* i128 amounts offered to submit_claim
  PoolExports    \* functions exported by the contract at DataKey::RiskPool

ASSUME ClaimsAssumption ==
  /\ MaxClaims \in Nat
  /\ ClaimAmounts \subseteq I128
  /\ Holders \subseteq Accounts

VARIABLES
  claims,       \* Claim(id); ClaimCounter is Len(claims)
  activeClaim,  \* PolicyActiveClaim, a function on the locked policies
  claimsAdmin   \* TRUE once the contract's own address holds Admin

claimsVars == <<claims, activeClaim, claimsAdmin>>

ClaimStatus == {"Submitted", "UnderReview", "Approved", "Rejected", "Settled"}
Open == {"Submitted", "UnderReview", "Approved"}

ClaimRecord ==
  [ policy : Nat \ {0}, claimant : Holders, amount : I128, status : ClaimStatus ]

ClaimsInit ==
  /\ claims = <<>>
  /\ activeClaim = <<>>
  /\ claimsAdmin = FALSE

Locked(id, c) ==
  [p \in DOMAIN activeClaim \union {id} |-> IF p = id THEN c ELSE activeClaim[p]]
Unlocked(id) == [p \in DOMAIN activeClaim \ {id} |-> activeClaim[p]]

ClaimsSetRole == claimsAdmin' = TRUE /\ UNCHANGED <<claims, activeClaim>>

\* Mutant: the duplicate check of #409 is dropped.
SubmitClaim_NoLock(id, amount) ==
  /\ IsActive(policies[id])
  /\ amount > 0
  /\ WrappingAdd(amount, policies[id].totalClaimed) <= policies[id].coverage
  /\ claims' = Append(claims, [ policy |-> id, claimant |-> policies[id].holder,
                                amount |-> amount, status |-> "Submitted" ])
  /\ activeClaim' = Locked(id, Len(claims'))
  /\ UNCHANGED claimsAdmin

\* submit_claim, authorised by the policy's holder.
SubmitClaim(id, amount) ==
  /\ IsActive(policies[id])
  /\ amount > 0
  /\ WrappingAdd(amount, policies[id].totalClaimed) <= policies[id].coverage
  /\ id \notin DOMAIN activeClaim
  /\ claims' = Append(claims, [ policy |-> id, claimant |-> policies[id].holder,
                                amount |-> amount, status |-> "Submitted" ])
  /\ activeClaim' = Locked(id, Len(claims'))
  /\ UNCHANGED claimsAdmin

StartReview(c) ==
  /\ claimsAdmin
  /\ claims[c].status = "Submitted"
  /\ claims' = [claims EXCEPT ![c].status = "UnderReview"]
  /\ UNCHANGED <<activeClaim, claimsAdmin>>

ApproveClaim(c) ==
  /\ claimsAdmin
  /\ claims[c].status = "UnderReview"
  /\ claims' = [claims EXCEPT ![c].status = "Approved"]
  /\ UNCHANGED <<activeClaim, claimsAdmin>>

\* Mutant: the lock outlives the rejected claim.
RejectClaim_KeepsLock(c) ==
  /\ claimsAdmin
  /\ claims[c].status = "UnderReview"
  /\ claims' = [claims EXCEPT ![c].status = "Rejected"]
  /\ UNCHANGED <<activeClaim, claimsAdmin>>

RejectClaim(c) ==
  /\ claimsAdmin
  /\ claims[c].status = "UnderReview"
  /\ claims' = [claims EXCEPT ![c].status = "Rejected"]
  /\ activeClaim' = Unlocked(claims[c].policy)
  /\ UNCHANGED claimsAdmin

CloseSettled(c) ==
  /\ claims' = [claims EXCEPT ![c].status = "Settled"]
  /\ activeClaim' = Unlocked(claims[c].policy)
  /\ UNCHANGED claimsAdmin

\* Mutant: the policy is not told of the payout.
SettleClaim_NotCounted(c) ==
  /\ claimsAdmin
  /\ claims[c].status = "Approved"
  /\ {"get_stats", "payout"} \subseteq PoolExports
  /\ availableCapital >= claims[c].amount
  /\ PayoutClaim(claims[c].claimant, claims[c].amount)
  /\ CloseSettled(c)
  /\ UNCHANGED policyVars

\* settle_claim: get_stats and payout of the pool, update_cl of the policy.
\* The functions are looked up by name in the contract at that address.
SettleClaim(c) ==
  /\ claimsAdmin
  /\ claims[c].status = "Approved"
  /\ {"get_stats", "payout"} \subseteq PoolExports
  /\ availableCapital >= claims[c].amount
  /\ PayoutClaim(claims[c].claimant, claims[c].amount)
  /\ UpdateClaimed(claims[c].policy, claims[c].amount)
  /\ CloseSettled(c)

-----------------------------------------------------------------------------
vars == <<now, policyVars, poolVars, claimsVars>>

\* The contracts have been initialised: what set_role and the set_* calls of
\* Policy and Claims do is still to come.  The pool, whose wiring RiskPool
\* covers, has its roles and the version initialize writes.
InsuranceInit ==
  /\ now = 0
  /\ PolicyInit
  /\ stake = [p \in Providers |-> 0]
  /\ totalCapital = 0 /\ availableCapital = 0 /\ claimsPaid = 0
  /\ poolVersion = 2
  /\ stateRoot = RootOf(0, 0, 0, 2, "NONE")
  /\ poolRoles = Roles
  /\ balance = [a \in Accounts |-> IF a \in Providers THEN Supply ELSE 0]
  /\ poolTokens = 0 /\ slashed = 0
  /\ ClaimsInit

\* Steps of the claims contract alone.
ClaimsStep ==
  \/ ClaimsSetRole
  \/ /\ Len(claims) < MaxClaims
     /\ \E id \in DOMAIN policies, n \in ClaimAmounts : SubmitClaim(id, n)
  \/ \E c \in DOMAIN claims : StartReview(c) \/ ApproveClaim(c) \/ RejectClaim(c)

\* Steps of the policy contract that holders and the Admin take.
PolicyUserStep ==
  \/ /\ Len(policies) < MaxPolicies
     /\ \E h \in Holders, c \in Coverages, m \in Premiums, d \in Durations :
          IssuePolicy(h, c, m, d)
  \/ \E id \in DOMAIN policies :
       \/ \E d \in Durations : RenewPolicy(id, d)
       \/ CancelPolicy(id) \/ ExpirePolicy(id)

\* Steps that wire the policy contract, and those that Governance takes.
PolicyGovernanceStep ==
  \/ PolicySetRole \/ SetClaimsContract \/ SetGovernanceContract
  \/ \E id \in DOMAIN policies, patch \in Patches : ApplyGovernanceUpdate(id, patch)
  \/ \E c \in Coverages, m \in Premiums : ApplyGovernanceParams(c, m)

\* Steps of the pool that providers take.
PoolUserStep ==
  \E p \in Providers, n \in Amounts :
    DepositLiquidity(p, n) \/ WithdrawLiquidity(p, n)

\* What happens without Governance.
InsuranceUserNext ==
  \/ Tick /\ UNCHANGED <<policyVars, poolVars, claimsVars>>
  \/ ClaimsStep /\ UNCHANGED <<now, policyVars, poolVars>>
  \/ PolicyUserStep /\ UNCHANGED <<now, poolVars, claimsVars>>
  \/ PoolUserStep /\ UNCHANGED <<now, policyVars, claimsVars>>
  \/ \E c \in DOMAIN claims : SettleClaim(c) /\ UNCHANGED now

InsuranceNext ==
  \/ InsuranceUserNext
  \/ PolicyGovernanceStep /\ UNCHANGED <<now, poolVars, claimsVars>>

InsuranceSpec == InsuranceInit /\ [][InsuranceNext]_vars

-----------------------------------------------------------------------------
\* Policies, claims and locks have their types, and refer to what exists.
ClaimsTypeOK ==
  /\ PolicyTypeOK
  /\ claims \in Seq(ClaimRecord)
  /\ \A c \in DOMAIN claims : claims[c].policy \in DOMAIN policies
  /\ DOMAIN activeClaim \subseteq DOMAIN policies
  /\ \A id \in DOMAIN activeClaim : activeClaim[id] \in DOMAIN claims
  /\ claimsAdmin \in BOOLEAN

\* The lock of #409 is present exactly while a claim of the policy is open,
\* and names the only claim of it that is open.
LockIsTheOpenClaim ==
  \A id \in DOMAIN policies :
    LET open == {c \in DOMAIN claims :
                   claims[c].policy = id /\ claims[c].status \in Open}
    IN  IF id \in DOMAIN activeClaim THEN open = {activeClaim[id]}
                                     ELSE open = {}

SettledOf(id) ==
  {c \in DOMAIN claims : claims[c].policy = id /\ claims[c].status = "Settled"}

SettledFor(h) ==
  {c \in DOMAIN claims : claims[c].claimant = h /\ claims[c].status = "Settled"}

\* What the claims ids are worth together, and what the policies count as claimed.
Worth(cs, ids) == SumFunctionOnSet([c \in DOMAIN cs |-> cs[c].amount], ids)
ClaimedOn(ps) == SumFunctionOnSet([id \in DOMAIN ps |-> ps[id].totalClaimed], DOMAIN ps)

\* Three contracts and the token tell one story: what a policy counts as
\* claimed is the sum of its settled claims, each holder that stakes nothing
\* has received exactly its own, and the pool has paid nothing else.
SettledExplainsPaid ==
  /\ \A id \in DOMAIN policies :
       policies[id].totalClaimed = Worth(claims, SettledOf(id))
  /\ \A h \in Holders \ Providers : balance[h] = Worth(claims, SettledFor(h))
  /\ claimsPaid = ClaimedOn(policies)

\* The three contracts together implement Indemnity: the open demand of a
\* policy is the claim its lock names.
Abstract == INSTANCE Indemnity WITH
  cover  <- [id \in DOMAIN policies |-> policies[id].coverage],
  paid   <- [id \in DOMAIN policies |-> policies[id].totalClaimed],
  demand <- [id \in DOMAIN policies |->
              IF id \in DOMAIN activeClaim THEN claims[activeClaim[id]].amount
              ELSE 0],
  funds  <- availableCapital

\* Every step of the contracts is a step of Indemnity or changes nothing in
\* it: nothing is counted against a policy without an open demand, twice, in
\* part or beyond its cover.
ImplementsIndemnity == Abstract!Spec

\* "Cross-contract call to Risk Pool to payout: payout_claim(recipient,
\* amount)" (claims/src/lib.rs:233): an approved claim the pool can pay and
\* the policy still covers can be settled.
ApprovedCanBeSettled ==
  \A c \in DOMAIN claims :
    /\ claims[c].status = "Approved"
    /\ "Admin" \in poolRoles /\ claimsRegistered
    /\ claims[c].amount <= availableCapital
    /\ claims[c].amount <= poolTokens
    /\ claims[c].amount + policies[claims[c].policy].totalClaimed
         <= policies[claims[c].policy].coverage
    => ENABLED SettleClaim(c)
=============================================================================
