------------------------------- MODULE Policy -------------------------------
(***************************************************************************)
(* The policy contract (contracts/policy/src/lib.rs): policies, their      *)
(* lifecycle, and the two contracts it lets change them, Claims and        *)
(* Governance.  premium_amount is checked against the governed minimum and *)
(* then never read, so only the check is modelled.                         *)
(***************************************************************************)
EXTENDS Ledger, Sequences

CONSTANTS
  Holders,      \* accounts a policy may be issued to
  Day,          \* 86400
  U32Max,       \* u32::MAX, the width of duration_days
  MaxPolicies,  \* bound on the policy counter
  Coverages,    \* i128 coverages offered to issue_policy and to a patch
  Premiums,     \* i128 premiums offered
  Durations,    \* u32 durations, in days
  Keep,         \* Option::None / StatusPatch::Keep of a patch
  Patches       \* PolicyPatches offered to apply_governance_update

PolicyStatus == {"Active", "Renewed", "Expired", "Cancelled"}
Terminal == {"Expired", "Cancelled"}

\* A field that is Keep is left alone.
PolicyPatch ==
  [ coverage : I128 \union {Keep}, premium : I128 \union {Keep},
    status : PolicyStatus \union {Keep} ]

ASSUME PolicyAssumption ==
  /\ Day \in Nat \ {0}
  /\ U32Max \in Nat
  /\ MaxPolicies \in Nat
  /\ Coverages \subseteq I128
  /\ Premiums \subseteq I128
  /\ Durations \subseteq 0 .. U32Max
  /\ Keep \notin Int
  /\ Patches \subseteq PolicyPatch

VARIABLES
  policies,             \* Policy(id); the counter is Len(policies)
  policyParams,         \* PolicyParams, or its default
  policyAdmin,          \* TRUE once the contract's own address holds Admin
  claimsRegistered,     \* set_claims_contract was called
  governanceRegistered  \* set_governance_contract was called

policyVars == <<policies, policyParams, policyAdmin, claimsRegistered,
                governanceRegistered>>
policyWiring == <<policyAdmin, claimsRegistered, governanceRegistered>>

PolicyRecord ==
  [ holder : Holders, coverage : Int, start : Nat, duration : 0 .. U32Max,
    status : PolicyStatus, totalClaimed : Int ]

Expiry(p) == p.start + p.duration * Day

IsActive(p) == p.status \in {"Active", "Renewed"} /\ now <= Expiry(p)

PolicyInit ==
  /\ policies = <<>>
  /\ policyParams = [maxCoverage |-> I128Max, minPremium |-> 0]
  /\ policyAdmin = FALSE
  /\ claimsRegistered = FALSE
  /\ governanceRegistered = FALSE

-----------------------------------------------------------------------------
(* Wiring, by the Admin.                                                   *)

PolicySetRole ==
  /\ policyAdmin' = TRUE
  /\ UNCHANGED <<policies, policyParams, claimsRegistered, governanceRegistered>>

SetClaimsContract ==
  /\ policyAdmin
  /\ claimsRegistered' = TRUE
  /\ UNCHANGED <<policies, policyParams, policyAdmin, governanceRegistered>>

SetGovernanceContract ==
  /\ policyAdmin
  /\ governanceRegistered' = TRUE
  /\ UNCHANGED <<policies, policyParams, policyAdmin, claimsRegistered>>

-----------------------------------------------------------------------------
(* The lifecycle of a policy.                                              *)

IssuePolicy(holder, coverage, premium, duration) ==
  /\ policyAdmin
  /\ coverage <= policyParams.maxCoverage
  /\ premium >= policyParams.minPremium
  /\ policies' = Append(policies,
       [ holder |-> holder, coverage |-> coverage, start |-> now,
         duration |-> duration, status |-> "Active", totalClaimed |-> 0 ])
  /\ UNCHANGED <<policyParams, policyWiring>>

\* renew_policy, by the holder: the u32 sum of the durations wraps.
RenewPolicy(id, duration) ==
  /\ IsActive(policies[id])
  /\ policies' = [policies EXCEPT
       ![id].duration = (@ + duration) % (U32Max + 1),
       ![id].status = "Renewed"]
  /\ UNCHANGED <<policyParams, policyWiring>>

\* cancel_policy, by the holder: whatever the status, until the expiry.
CancelPolicy(id) ==
  /\ now <= Expiry(policies[id])
  /\ policies' = [policies EXCEPT ![id].status = "Cancelled"]
  /\ UNCHANGED <<policyParams, policyWiring>>

\* expire_policy, by anyone: whatever the status, from the expiry on.
ExpirePolicy(id) ==
  /\ now >= Expiry(policies[id])
  /\ policies' = [policies EXCEPT ![id].status = "Expired"]
  /\ UNCHANGED <<policyParams, policyWiring>>

-----------------------------------------------------------------------------
(* What the Governance contract may change.                                *)

CoveragePatchAccepted(p, c) ==
  c # Keep => /\ 0 < c /\ c <= policyParams.maxCoverage
              /\ p.totalClaimed <= c

PremiumPatchAccepted(m) == m # Keep => m >= policyParams.minPremium

\* Mutant: a terminal policy may be given a new status.
StatusPatchAccepted_Any(p, s) == TRUE

StatusPatchAccepted(p, s) == s # Keep => p.status \notin Terminal

Patched(p, patch) ==
  [p EXCEPT !.coverage = IF patch.coverage = Keep THEN @ ELSE patch.coverage,
            !.status   = IF patch.status = Keep THEN @ ELSE patch.status]

ApplyGovernanceUpdate(id, patch) ==
  /\ governanceRegistered
  /\ CoveragePatchAccepted(policies[id], patch.coverage)
  /\ PremiumPatchAccepted(patch.premium)
  /\ StatusPatchAccepted(policies[id], patch.status)
  /\ policies' = [policies EXCEPT ![id] = Patched(@, patch)]
  /\ UNCHANGED <<policyParams, policyWiring>>

ApplyGovernanceParams(maxCoverage, minPremium) ==
  /\ governanceRegistered
  /\ maxCoverage > 0 /\ minPremium >= 0
  /\ policyParams' = [maxCoverage |-> maxCoverage, minPremium |-> minPremium]
  /\ UNCHANGED <<policies, policyWiring>>

-----------------------------------------------------------------------------
(* What the Claims contract may change.                                    *)

\* Mutant: the sum is stored without being compared with the coverage.
UpdateClaimed_Unchecked(id, amount) ==
  /\ claimsRegistered
  /\ policies' = [policies EXCEPT ![id].totalClaimed = WrappingAdd(@, amount)]
  /\ UNCHANGED <<policyParams, policyWiring>>

\* update_claimed / update_cl.
UpdateClaimed(id, amount) ==
  /\ claimsRegistered
  /\ WrappingAdd(policies[id].totalClaimed, amount) <= policies[id].coverage
  /\ policies' = [policies EXCEPT ![id].totalClaimed = WrappingAdd(@, amount)]
  /\ UNCHANGED <<policyParams, policyWiring>>

-----------------------------------------------------------------------------
\* Every policy is well formed and was issued by now.
PolicyTypeOK ==
  /\ now \in 0 .. MaxTime
  /\ policies \in Seq(PolicyRecord)
  /\ \A id \in DOMAIN policies :
       policies[id].start <= now /\ policies[id].totalClaimed \in I128
  /\ policyParams \in [maxCoverage : Int, minPremium : Int]
  /\ <<policyAdmin, claimsRegistered, governanceRegistered>> \in
       BOOLEAN \X BOOLEAN \X BOOLEAN

\* What has been claimed on a policy never exceeds its coverage, although
\* Claims adds to the one and Governance lowers the other.  (issue_policy
\* does not refuse a negative coverage, on which nothing can be claimed.)
ClaimedWithinCoverage ==
  \A id \in DOMAIN policies :
    LET p == policies[id]
    IN  p.totalClaimed <= p.coverage \/ p.totalClaimed <= 0

\* A policy that is expired or cancelled never covers anything again: no
\* renewal, patch or expiry brings it back.
NeverRevived ==
  [][ \A id \in DOMAIN policies :
        policies[id].status \in Terminal =>
          policies'[id].status \in Terminal ]_policyVars
=============================================================================
