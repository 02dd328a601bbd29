------------------------------ MODULE Protocol ------------------------------
(***************************************************************************)
(* The insurance protocol as it is deployed: policies, claims, the risk    *)
(* pool and slashing, with the governance contract deciding over them.     *)
(* execute_proposal and the calls it makes are one transaction: either all *)
(* contracts move and the proposal is executed, or nothing happens.        *)
(***************************************************************************)
EXTENDS Claims, Slashing, Governance

CONSTANTS
  ClaimsExports  \* functions exported by the contract at ClaimsContract

\* The arguments of a GovernanceAction have the types the enum gives them, and
\* whoever may be slashed may stake, as anyone may.
ASSUME ProtocolAssumption ==
  /\ Targets \subseteq Providers
  /\ \A a \in Actions :
       /\ a.kind = "FundAllocation" => a.recipient \in Accounts /\ a.amount \in I128
       /\ a.kind = "PolicyChange" => a.patch \in Patches
       /\ a.kind = "Slashing" => a.target \in Targets /\ a.amount \in I128
       /\ a.kind = "PauseContract" => a.duration \in Time

VARIABLE
  enacted        \* history: the actions carried out and their proposals

contracts == <<policyVars, poolVars, claimsVars, slashVars>>
protocolVars == <<now, contracts, govVars, enacted>>

\* Every contract is initialised, wired and with the roles on its own address
\* that its entry points ask for.
DeployedInit ==
  /\ policies = <<>>
  /\ policyParams = [maxCoverage |-> I128Max, minPremium |-> 0]
  /\ policyAdmin = TRUE /\ claimsRegistered = TRUE /\ governanceRegistered = TRUE
  /\ stake = [p \in Providers |-> 0]
  /\ totalCapital = 0 /\ availableCapital = 0 /\ claimsPaid = 0
  /\ poolVersion = 2
  /\ stateRoot = RootOf(0, 0, 0, 2, "NONE")
  /\ poolRoles = Roles
  /\ balance = [a \in Accounts |-> IF a \in Providers THEN Supply ELSE 0]
  /\ poolTokens = 0 /\ slashed = 0
  /\ claims = <<>> /\ activeClaim = <<>> /\ claimsAdmin = TRUE
  /\ violations = [o \in Offences |-> 0]
  /\ history = [o \in Offences |-> <<>>]
  /\ slashable = SlashRoles
  /\ cooldown \in [SlashRoles -> Cooldowns \union {None}]
  /\ slashBreaker = Cleared
  /\ slashRoles = Roles
  /\ GovInit /\ enacted = <<>>

-----------------------------------------------------------------------------
(* What execute_proposal calls.                                            *)

DispatchClaimApproval(action) ==
  /\ "approve" \in ClaimsExports
  /\ action.claim \in DOMAIN claims
  /\ ApproveClaim(action.claim)
  /\ UNCHANGED <<policyVars, poolVars, slashVars>>

DispatchFundAllocation(action) ==
  /\ "payout" \in PoolExports
  /\ PayoutClaim(action.recipient, action.amount)
  /\ UNCHANGED <<policyVars, claimsVars, slashVars>>

DispatchPolicyChange(action) ==
  /\ action.policy \in DOMAIN policies
  /\ ApplyGovernanceUpdate(action.policy, action.patch)
  /\ UNCHANGED <<poolVars, claimsVars, slashVars>>

\* Mutant: the pool is not told of the slash.
DispatchSlashing_NotAbsorbed(action) ==
  /\ SlashFunds(action.target, action.role, action.amount)
  /\ UNCHANGED <<policyVars, poolVars, claimsVars>>

\* slash_funds, then absorb_slash.
DispatchSlashing(action) ==
  /\ SlashFunds(action.target, action.role, action.amount)
  /\ AbsorbSlash(action.target, action.amount)
  /\ UNCHANGED <<policyVars, claimsVars>>

DispatchPause(action) ==
  /\ SlashPause(action.duration)
  /\ UNCHANGED <<policyVars, poolVars, claimsVars>>

Dispatch(action) ==
  \/ action.kind = "ClaimApproval"  /\ DispatchClaimApproval(action)
  \/ action.kind = "FundAllocation" /\ DispatchFundAllocation(action)
  \/ action.kind = "PolicyChange"   /\ DispatchPolicyChange(action)
  \/ action.kind = "Slashing"       /\ DispatchSlashing(action)
  \/ action.kind = "PauseContract"  /\ DispatchPause(action)

\* execute_proposal with the calls it makes.
EnactProposal(id) ==
  /\ ExecuteProposal(id)
  /\ IF id \in DOMAIN pending
     THEN /\ Dispatch(pending[id])
          /\ enacted' = Append(enacted, [proposal |-> id, action |-> pending[id]])
     ELSE UNCHANGED <<contracts, enacted>>

-----------------------------------------------------------------------------
\* What needs no governance on the slashing contract: resume, by the Admin,
\* and the query.
SlashUserStep == SlashResume \/ SlashIsPaused

ProtocolNext ==
  \/ InsuranceUserNext /\ UNCHANGED <<slashVars, govVars, enacted>>
  \/ /\ SlashUserStep
     /\ UNCHANGED <<now, policyVars, poolVars, claimsVars, govVars, enacted>>
  \/ Deliberate /\ UNCHANGED <<now, contracts, enacted>>
  \/ \E id \in DOMAIN proposals : EnactProposal(id) /\ UNCHANGED now

ProtocolSpec == DeployedInit /\ [][ProtocolNext]_protocolVars

-----------------------------------------------------------------------------
Enacted(kind) == {i \in DOMAIN enacted : enacted[i].action.kind = kind}

\* The tokens that the enacted actions of a kind name.
Moved(kind) ==
  SumFunctionOnSet([i \in Enacted(kind) |-> enacted[i].action.amount], Enacted(kind))

\* A passed slashing proposal moves both contracts or neither: every recorded
\* violation of a target is one enacted proposal, and the stake the pool has
\* absorbed is exactly what those proposals name (#601).
SlashPipelineAtomic ==
  /\ slashed = Moved("Slashing")
  /\ \A o \in Offences :
       violations[o] = Cardinality({i \in Enacted("Slashing") :
         <<enacted[i].action.target, enacted[i].action.role>> = o})

\* Money leaves the pool for settled claims and for enacted allocations only.
PaidIsDecided ==
  claimsPaid = ClaimedOn(policies) + Moved("FundAllocation")

\* No proposal's action is carried out twice, or before it is executed.
EnactedOnce ==
  /\ \A i, j \in DOMAIN enacted :
       enacted[i].proposal = enacted[j].proposal => i = j
  /\ \A i \in DOMAIN enacted : proposals[enacted[i].proposal].executed

\* What was paid was decided and what was decided is done once: an execution
\* that failed and is tried again, by anyone, neither pays nor slashes twice.
DecidedOnce == PaidIsDecided /\ EnactedOnce

\* While slashing is paused no proposal slashes anyone, be it passed before
\* the pause or during it; it can still be enacted afterwards.
PauseHoldsSlashing ==
  [][ IsPaused(slashBreaker, now) =>
        UNCHANGED <<slashed, violations>> ]_protocolVars
=============================================================================
