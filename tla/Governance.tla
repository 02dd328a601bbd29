----------------------------- MODULE Governance -----------------------------
(***************************************************************************)
(* The governance contract (contracts/governance/src/lib.rs): proposals,   *)
(* their votes, and the action a passed proposal carries out.  The calls   *)
(* execute_proposal makes are in Protocol; here a callee accepts, which is *)
(* a step, or refuses, which rolls the execution back.                     *)
(***************************************************************************)
EXTENDS Ledger, Sequences, FiniteSetsExt

CONSTANTS
  Voters,        \* accounts that vote
  Weights,       \* i128 weights offered to vote, which takes any
  Thresholds,    \* u32 threshold percentages offered
  VotingPeriod,  \* DataKey::VotingPeriod
  Actions,       \* GovernanceActions offered: records with a field kind
  MaxProposals   \* bound on the proposal counter

ASSUME GovernanceAssumption ==
  /\ IsFiniteSet(Voters)
  /\ Weights \subseteq I128
  /\ Thresholds \subseteq Nat
  /\ VotingPeriod \in Nat
  /\ MaxProposals \in Nat

VARIABLES
  proposals,  \* Proposal(id); ProposalCounter is Len(proposals)
  pending,    \* GovernanceActionPending, a function on ids
  votes       \* VoterRecord, a function on pairs <<id, voter>>

govVars == <<proposals, pending, votes>>

\* create_proposal stores no action.
NoAction == [kind |-> "None"]

Proposal ==
  [ expires : Nat, threshold : Nat, yes : Int, no : Int,
    finalized : BOOLEAN, executed : BOOLEAN ]

GovInit == now = 0 /\ proposals = <<>> /\ pending = <<>> /\ votes = <<>>

\* f with x added to its domain, and f without x.
Having(f, x, v) == [y \in DOMAIN f \union {x} |-> IF y = x THEN v ELSE f[y]]
Without(f, x) == [y \in DOMAIN f \ {x} |-> f[y]]

\* What the six entry points have in common: the new counter is the id of
\* the proposal and of its pending action, where it has one.
Propose(action, threshold) ==
  /\ proposals' = Append(proposals,
       [ expires |-> now + VotingPeriod, threshold |-> threshold,
         yes |-> 0, no |-> 0, finalized |-> FALSE, executed |-> FALSE ])
  /\ pending' = IF action = NoAction THEN pending
                ELSE Having(pending, Len(proposals'), action)
  /\ UNCHANGED votes

ActionsOf(kind) == {a \in Actions : a.kind = kind}

CreateProposal(threshold) ==
  NoAction \in Actions /\ Propose(NoAction, threshold)
CreateSlashingProposal(threshold) ==
  \E a \in ActionsOf("Slashing") : Propose(a, threshold)
CreateClaimApprovalProposal(threshold) ==
  \E a \in ActionsOf("ClaimApproval") : Propose(a, threshold)
CreateFundAllocationProposal(threshold) ==
  \E a \in ActionsOf("FundAllocation") : Propose(a, threshold)
CreatePolicyChangeProposal(threshold) ==
  \E a \in ActionsOf("PolicyChange") : Propose(a, threshold)
CreatePauseProposal(threshold) ==
  \E a \in ActionsOf("PauseContract") : a.duration # 0 /\ Propose(a, threshold)

\* Mutant: a voter who has a record may vote again.
Vote_Again(id, voter, weight, isYes) ==
  /\ now <= proposals[id].expires
  /\ proposals' = IF isYes
       THEN [proposals EXCEPT ![id].yes = WrappingAdd(@, weight)]
       ELSE [proposals EXCEPT ![id].no  = WrappingAdd(@, weight)]
  /\ votes' = Having(votes, <<id, voter>>, [weight |-> weight, yes |-> isYes])
  /\ UNCHANGED pending

\* vote: the weight is the caller's, and each sum wraps.
Vote(id, voter, weight, isYes) ==
  /\ now <= proposals[id].expires
  /\ <<id, voter>> \notin DOMAIN votes
  /\ proposals' = IF isYes
       THEN [proposals EXCEPT ![id].yes = WrappingAdd(@, weight)]
       ELSE [proposals EXCEPT ![id].no  = WrappingAdd(@, weight)]
  /\ votes' = Having(votes, <<id, voter>>, [weight |-> weight, yes |-> isYes])
  /\ UNCHANGED pending

\* Mutant: a proposal is finalized in its last voting second.
FinalizeProposal_AtExpiry(id) ==
  /\ now >= proposals[id].expires
  /\ proposals' = [proposals EXCEPT ![id].finalized = TRUE]
  /\ UNCHANGED <<pending, votes>>

FinalizeProposal(id) ==
  /\ now > proposals[id].expires
  /\ proposals' = [proposals EXCEPT ![id].finalized = TRUE]
  /\ UNCHANGED <<pending, votes>>

\* Division of i128 values rounds towards zero.
Magnitude(x) == IF x < 0 THEN -x ELSE x
Quotient(x, y) ==
  LET q == Magnitude(x) \div Magnitude(y)
  IN  IF (x < 0) = (y < 0) THEN q ELSE -q

\* The i128 value congruent to x.
Wrapped(x) == ((x + I128Max + 1) % (2 * (I128Max + 1))) - (I128Max + 1)

\* Mutant: the share is taken of the no votes instead of all votes.
Passes_OfNoVotes(p) ==
  /\ p.no # 0
  /\ Quotient(Wrapped(p.yes * 100), p.no) >= p.threshold

Passes(p) ==
  LET total == WrappingAdd(p.yes, p.no)
  IN  /\ total # 0
      /\ Quotient(Wrapped(p.yes * 100), total) >= p.threshold

\* Mutant: the pending action is left in the storage.
ExecuteProposal_KeepsPending(id) ==
  /\ proposals[id].finalized /\ ~proposals[id].executed
  /\ Passes(proposals[id])
  /\ proposals' = [proposals EXCEPT ![id].executed = TRUE]
  /\ UNCHANGED <<pending, votes>>

\* Mutant: the proposal is not stored as executed.
ExecuteProposal_Unmarked(id) ==
  /\ proposals[id].finalized /\ ~proposals[id].executed
  /\ Passes(proposals[id])
  /\ pending' = Without(pending, id)
  /\ UNCHANGED <<proposals, votes>>

\* execute_proposal, by anyone, when the callee accepts.
ExecuteProposal(id) ==
  /\ proposals[id].finalized /\ ~proposals[id].executed
  /\ Passes(proposals[id])
  /\ pending' = Without(pending, id)
  /\ proposals' = [proposals EXCEPT ![id].executed = TRUE]
  /\ UNCHANGED votes

-----------------------------------------------------------------------------
\* Everything but the execution.
Deliberate ==
  \/ /\ Len(proposals) < MaxProposals
     /\ \E t \in Thresholds :
          \/ CreateProposal(t)
          \/ CreateSlashingProposal(t)
          \/ CreateClaimApprovalProposal(t)
          \/ CreateFundAllocationProposal(t)
          \/ CreatePolicyChangeProposal(t)
          \/ CreatePauseProposal(t)
  \/ \E id \in DOMAIN proposals :
       \/ \E v \in Voters, w \in Weights, y \in BOOLEAN : Vote(id, v, w, y)
       \/ FinalizeProposal(id)

GovStep ==
  \/ Tick /\ UNCHANGED govVars
  \/ Deliberate /\ UNCHANGED now
  \/ \E id \in DOMAIN proposals : ExecuteProposal(id) /\ UNCHANGED now

GovSpec == GovInit /\ [][GovStep]_<<now, govVars>>

-----------------------------------------------------------------------------
VoteRecord == [weight : Weights, yes : BOOLEAN]

\* Proposals, pending actions and vote records have their types.
GovTypeOK ==
  /\ now \in 0 .. MaxTime
  /\ proposals \in Seq(Proposal)
  /\ DOMAIN pending \subseteq DOMAIN proposals
  /\ \A id \in DOMAIN pending : pending[id] \in Actions \ {NoAction}
  /\ DOMAIN votes \subseteq (DOMAIN proposals) \X Voters
  /\ \A v \in DOMAIN votes : votes[v] \in VoteRecord

Cast(id, choice) ==
  {v \in DOMAIN votes : v[1] = id /\ votes[v].yes \in choice}
WeightOf(ballots) ==
  SumFunctionOnSet([v \in DOMAIN votes |-> votes[v].weight], ballots)

\* docs/verification.md:51 and invariants.rs:131: the yes and the no votes
\* add up to the total weight cast, each voter counted once.
VoteSumEqualsTotalWeight ==
  \A id \in DOMAIN proposals :
    proposals[id].yes + proposals[id].no = WeightOf(Cast(id, BOOLEAN))

\* The votes of a finalized proposal have ended, and only those are executed.
FinalizedIsOver ==
  \A id \in DOMAIN proposals :
    /\ proposals[id].finalized => now > proposals[id].expires
    /\ proposals[id].executed => proposals[id].finalized

\* An executed proposal still passes its threshold on the votes stored with
\* it, and its action is gone from the storage.
ExecutedPasses ==
  \A id \in DOMAIN proposals :
    proposals[id].executed => Passes(proposals[id])
PendingIsUnexecuted ==
  \A id \in DOMAIN pending : ~proposals[id].executed

\* A decision stands: what was executed was over, still passes on the votes
\* anyone can read afterwards, and has left no action to carry out again,
\* whatever is voted, finalized or executed later.
DecisionsStand == FinalizedIsOver /\ ExecutedPasses /\ PendingIsUnexecuted

\* No step changes the votes of a finalized proposal, whatever is still sent.
TallyIsFrozen ==
  [][ \A id \in DOMAIN proposals : proposals[id].finalized =>
        /\ proposals'[id].yes = proposals[id].yes
        /\ proposals'[id].no = proposals[id].no ]_govVars

\* When every weight cast is positive, an executed proposal had its
\* percentage of the weight, counted from the vote records themselves.
ExecutedHasSupport ==
  \A id \in DOMAIN proposals :
    /\ proposals[id].executed
    /\ \A v \in Cast(id, BOOLEAN) : votes[v].weight > 0
    => 100 * WeightOf(Cast(id, {TRUE}))
         >= proposals[id].threshold * WeightOf(Cast(id, BOOLEAN))

\* The tally decides and the records explain it: the two sums are the weights of
\* the vote records, and whoever recounts those records of an executed proposal
\* finds its support, although the weights are any i128, added while others vote.
TallyIsHonest == VoteSumEqualsTotalWeight /\ ExecutedHasSupport
=============================================================================
