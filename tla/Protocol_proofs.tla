--------------------------- MODULE Protocol_proofs ---------------------------
(***************************************************************************)
(* TLAPS proofs about the deployed protocol (Protocol), for any accounts,  *)
(* actions, weights and bounds.  What governance decides and what the four *)
(* contracts do with it is one history, in which nothing is done twice.    *)
(***************************************************************************)
EXTENDS Protocol, Contracts_proofs, Claims_proofs

\* What is enacted is an action of a proposal there is, each at most once.
EnactedOK ==
  /\ enacted \in Seq([proposal : Nat, action : Actions])
  /\ \A i \in DOMAIN enacted : enacted[i].proposal \in DOMAIN proposals
  /\ EnactedOnce

\* Inductive: governance is in order and so is what it enacted.
HistoryInv == GovInv /\ EnactedOK

-----------------------------------------------------------------------------
(* The steps, as governance and the other contracts see them.              *)

(* Every step of the protocol is one of governance or leaves it alone. *)
LEMMA GovernanceSees == [ProtocolNext]_protocolVars => [GovStep]_<<now, govVars>>
<1> SUFFICES ASSUME [ProtocolNext]_protocolVars PROVE GovStep \/ UNCHANGED <<now, govVars>>
  OBVIOUS
<1>1. CASE InsuranceUserNext /\ UNCHANGED <<slashVars, govVars, enacted>>
  BY <1>1 DEF InsuranceUserNext, GovStep
<1>2. CASE Deliberate /\ UNCHANGED <<now, contracts, enacted>>
  BY <1>2 DEF GovStep
<1>3. ASSUME NEW id \in DOMAIN proposals, EnactProposal(id), UNCHANGED now PROVE GovStep
  BY <1>3 DEF EnactProposal, GovStep
<1>4. CASE UNCHANGED <<now, govVars>>
  BY <1>4
<1> QED BY <1>1, <1>2, <1>3, <1>4 DEF ProtocolNext, protocolVars

(* No deliberation undoes an execution, or removes a proposal. *)
LEMMA DeliberationKeeps ==
  ASSUME GovInv, Deliberate
  PROVE  /\ DOMAIN proposals \subseteq DOMAIN proposals'
         /\ \A id \in DOMAIN proposals : proposals'[id].executed = proposals[id].executed
<1>0. proposals \in Seq(Proposal) /\ \A id \in DOMAIN proposals : proposals[id] \in Proposal
  BY DEF GovInv, GovTypeOK
<1>1. ASSUME NEW a, NEW t, Propose(a, t)
      PROVE  /\ DOMAIN proposals \subseteq DOMAIN proposals'
             /\ \A id \in DOMAIN proposals : proposals'[id].executed = proposals[id].executed
  <2> DEFINE p == [ expires |-> now + VotingPeriod, threshold |-> t,
                    yes |-> 0, no |-> 0, finalized |-> FALSE, executed |-> FALSE ]
  <2>1. proposals' = Append(proposals, p)
    BY <1>1 DEF Propose
  <2> HIDE DEF p
  <2> QED BY <1>0, <2>1
<1>2. ASSUME NEW id \in DOMAIN proposals, NEW p, p.executed = proposals[id].executed,
             proposals' = [proposals EXCEPT ![id] = p]
      PROVE  /\ DOMAIN proposals \subseteq DOMAIN proposals'
             /\ \A i \in DOMAIN proposals : proposals'[i].executed = proposals[i].executed
  BY <1>0, <1>2
<1>3. ASSUME NEW id \in DOMAIN proposals, NEW v, NEW w, NEW y, Vote(id, v, w, y)
      PROVE  \E p : p.executed = proposals[id].executed
                    /\ proposals' = [proposals EXCEPT ![id] = p]
  <2>1. PICK n : \/ proposals' = [proposals EXCEPT ![id] = [proposals[id] EXCEPT !.yes = n]]
                 \/ proposals' = [proposals EXCEPT ![id] = [proposals[id] EXCEPT !.no = n]]
    BY <1>3 DEF Vote
  <2>2. /\ [proposals[id] EXCEPT !.yes = n].executed = proposals[id].executed
        /\ [proposals[id] EXCEPT !.no = n].executed = proposals[id].executed
    BY <1>0 DEF Proposal
  <2> QED BY <2>1, <2>2
<1>4. ASSUME NEW id \in DOMAIN proposals, FinalizeProposal(id)
      PROVE  \E p : p.executed = proposals[id].executed
                    /\ proposals' = [proposals EXCEPT ![id] = p]
  <2>1. proposals' = [proposals EXCEPT ![id] = [proposals[id] EXCEPT !.finalized = TRUE]]
    BY <1>4 DEF FinalizeProposal
  <2>2. [proposals[id] EXCEPT !.finalized = TRUE].executed = proposals[id].executed
    BY <1>0 DEF Proposal
  <2> QED BY <2>1, <2>2
<1> QED
  BY <1>1, <1>2, <1>3, <1>4
  DEF Deliberate, CreateProposal, CreateSlashingProposal, CreateClaimApprovalProposal,
      CreateFundAllocationProposal, CreatePolicyChangeProposal, CreatePauseProposal

(* Executing a proposal marks it, and it was not marked before. *)
LEMMA ExecutionMarks ==
  ASSUME GovInv, NEW id \in DOMAIN proposals, ExecuteProposal(id)
  PROVE  /\ DOMAIN proposals' = DOMAIN proposals
         /\ ~proposals[id].executed /\ proposals'[id].executed
         /\ \A i \in DOMAIN proposals : proposals[i].executed => proposals'[i].executed
<1>0. proposals \in Seq(Proposal) /\ proposals[id] \in Proposal
  BY DEF GovInv, GovTypeOK
<1>1. proposals' = [proposals EXCEPT ![id] = [proposals[id] EXCEPT !.executed = TRUE]]
  BY DEF ExecuteProposal
<1>2. [proposals[id] EXCEPT !.executed = TRUE].executed
  BY <1>0 DEF Proposal
<1>3. ~proposals[id].executed
  BY DEF ExecuteProposal
<1> QED BY <1>0, <1>1, <1>2, <1>3

\* The history gets one more entry: action a of proposal id.
Enacts(id, a) == enacted' = Append(enacted, [proposal |-> id, action |-> a])

(* The history as one more action of proposal id leaves it. *)
LEMMA HistoryGrows ==
  ASSUME EnactedOK, GovInv, NEW id \in DOMAIN pending, NEW a, a = pending[id],
         Enacts(id, a)
  PROVE  /\ enacted' \in Seq([proposal : Nat, action : Actions])
         /\ Len(enacted) + 1 \notin DOMAIN enacted
         /\ DOMAIN enacted' = DOMAIN enacted \union {Len(enacted) + 1}
         /\ enacted'[Len(enacted) + 1].proposal = id
         /\ enacted'[Len(enacted) + 1].action = a
         /\ \A i \in DOMAIN enacted : enacted'[i] = enacted[i]
<1> DEFINE e == [proposal |-> id, action |-> a]
<1>1. id \in Nat /\ a \in Actions
  BY DEF GovInv, GovTypeOK
<1>2. e \in [proposal : Nat, action : Actions] /\ e.proposal = id /\ e.action = a
  BY <1>1
<1>3. enacted \in Seq([proposal : Nat, action : Actions])
  BY DEF EnactedOK
<1> HIDE DEF e
<1>4. enacted' = Append(enacted, e)
  BY DEF e, Enacts
<1> QED BY <1>2, <1>3, <1>4

(* The initial states satisfy the invariant. *)
LEMMA HistoryInit == DeployedInit => HistoryInv
<1> SUFFICES ASSUME DeployedInit PROVE HistoryInv
  OBVIOUS
<1>1. GovInv
  BY GovInitInv DEF DeployedInit
<1>2. enacted = <<>>
  BY DEF DeployedInit
<1> QED BY <1>1, <1>2 DEF HistoryInv, EnactedOK, EnactedOnce

(* Every step preserves it. *)
LEMMA HistoryStep == HistoryInv /\ [ProtocolNext]_protocolVars => HistoryInv'
<1> SUFFICES ASSUME HistoryInv, [ProtocolNext]_protocolVars PROVE HistoryInv'
  OBVIOUS
<1>0. GovInv /\ EnactedOK
  BY DEF HistoryInv
<1>1. GovInv'
  BY <1>0, GovernanceSees, GovStepInv
<1> SUFFICES EnactedOK'
  BY <1>1 DEF HistoryInv
<1>2. ASSUME UNCHANGED enacted, DOMAIN proposals \subseteq DOMAIN proposals',
             \A id \in DOMAIN proposals : proposals[id].executed => proposals'[id].executed
      PROVE  EnactedOK'
  BY <1>0, <1>2 DEF EnactedOK, EnactedOnce
<1>3. CASE UNCHANGED <<enacted, govVars>>
  BY <1>2, <1>3 DEF govVars
<1>4. CASE Deliberate /\ UNCHANGED enacted
  BY <1>0, <1>2, <1>4, DeliberationKeeps
<1>5. ASSUME NEW id \in DOMAIN proposals, EnactProposal(id)
      PROVE  EnactedOK'
  <2>1. /\ DOMAIN proposals' = DOMAIN proposals
        /\ ~proposals[id].executed /\ proposals'[id].executed
        /\ \A i \in DOMAIN proposals : proposals[i].executed => proposals'[i].executed
    BY <1>0, <1>5, ExecutionMarks DEF EnactProposal
  <2>2. CASE id \notin DOMAIN pending
    BY <1>2, <1>5, <2>1, <2>2 DEF EnactProposal
  <2>3. CASE id \in DOMAIN pending
    <3>1. Enacts(id, pending[id])
      BY <1>5, <2>3 DEF EnactProposal, Enacts
    <3> DEFINE n == Len(enacted) + 1
    <3>2. /\ enacted' \in Seq([proposal : Nat, action : Actions])
          /\ n \notin DOMAIN enacted
          /\ DOMAIN enacted' = DOMAIN enacted \union {n}
          /\ enacted'[n].proposal = id
          /\ \A i \in DOMAIN enacted : enacted'[i] = enacted[i]
      BY <1>0, <2>3, <3>1, HistoryGrows
    <3> HIDE DEF n
    <3>3. \A i \in DOMAIN enacted : enacted[i].proposal # id
      BY <1>0, <2>1 DEF EnactedOK, EnactedOnce
    <3> QED BY <1>0, <2>1, <3>2, <3>3 DEF EnactedOK, EnactedOnce
  <2> QED BY <2>2, <2>3
<1> QED
  BY <1>3, <1>4, <1>5 DEF ProtocolNext, protocolVars

(* Governance decides over the deployed contracts as it does alone, and no  *)
(* proposal's action is carried out twice or before it is executed.         *)
THEOREM HistoryInvariance == ProtocolSpec => []HistoryInv
<1> QED BY HistoryInit, HistoryStep, PTL DEF ProtocolSpec

(* What is enacted is done once: the second half of DecidedOnce, for any      *)
(* coverages and amounts.                                                     *)
THEOREM NothingEnactedTwice == ProtocolSpec => []EnactedOnce
<1>1. HistoryInv => EnactedOnce
  BY DEF HistoryInv, EnactedOK
<1> QED BY <1>1, HistoryInvariance, PTL

(* A decision stands in the deployed protocol as it does for governance alone. *)
THEOREM DeployedDecisionsStand == ProtocolSpec => []DecisionsStand
<1>1. HistoryInv => DecisionsStand
  BY DEF HistoryInv, GovInv
<1> QED BY <1>1, HistoryInvariance, PTL

(* The votes of the deployed protocol explain what it enacts, as those of *)
(* governance alone do.                                                    *)
THEOREM DeployedTally == WeightsFit => (ProtocolSpec => []TallyIsHonest)
<1> SUFFICES ASSUME WeightsFit PROVE ProtocolSpec => []TallyIsHonest
  OBVIOUS
<1>1. DeployedInit => TallyOK
  BY DEF DeployedInit, GovInit, TallyOK
<1>2. HistoryInv /\ TallyOK /\ [ProtocolNext]_protocolVars => TallyOK'
  BY GovernanceSees, TallyStep DEF HistoryInv
<1>3. HistoryInv /\ TallyOK => TallyIsHonest
  BY TallyShows DEF HistoryInv
<1> QED BY <1>1, <1>2, <1>3, HistoryInvariance, PTL DEF ProtocolSpec

-----------------------------------------------------------------------------
(* What the enacted actions of a kind move.                                *)

(* The positions of a kind are finite. *)
LEMMA EnactedFinite ==
  ASSUME EnactedOK, NEW kind
  PROVE  IsFiniteSet(Enacted(kind)) /\ Enacted(kind) \subseteq DOMAIN enacted
<1>1. Enacted(kind) \in SUBSET DOMAIN enacted
  BY DEF Enacted
<1>2. enacted \in Seq([proposal : Nat, action : Actions])
  BY DEF EnactedOK
<1> QED BY <1>1, <1>2, PositionsFinite

(* The kinds that move tokens name an i128 amount. *)
LEMMA AmountsNamed ==
  ASSUME EnactedOK, NEW kind \in {"Slashing", "FundAllocation"}, NEW i \in Enacted(kind)
  PROVE  enacted[i].action.amount \in Int
<1> DEFINE R == [proposal : Nat, action : Actions]
<1>1. enacted \in Seq(R) /\ i \in DOMAIN enacted /\ enacted[i].action.kind = kind
  BY DEF EnactedOK, Enacted
<1>2. enacted[i] \in R
  <2> HIDE DEF R
  <2> QED BY <1>1
<1> QED BY <1>1, <1>2, ProtocolAssumption DEF I128

(* What a kind moves is a number. *)
LEMMA MovedType ==
  ASSUME EnactedOK, NEW kind \in {"Slashing", "FundAllocation"}
  PROVE  Moved(kind) \in Int
<1> DEFINE f == [i \in Enacted(kind) |-> enacted[i].action.amount]
<1>1. \A i \in Enacted(kind) : f[i] \in Int
  BY AmountsNamed
<1> HIDE DEF f
<1>2. SumFunctionOnSet(f, Enacted(kind)) \in Int
  BY <1>1, EnactedFinite, SumType
<1> QED BY <1>2 DEF Moved, f

(* One more action adds its position to its kind and to no other. *)
LEMMA EnactedMore ==
  ASSUME EnactedOK, GovInv, NEW id \in DOMAIN pending, NEW a, a = pending[id],
         Enacts(id, a), NEW kind
  PROVE  Enacted(kind)' = IF a.kind = kind THEN Enacted(kind) \union {Len(enacted) + 1}
                                           ELSE Enacted(kind)
  BY HistoryGrows DEF Enacted

\* The amounts at some positions of a history.
AmountAt(es, ids) == SumFunctionOnSet([i \in ids |-> es[i].action.amount], ids)

(* The amounts at some positions, with one more position. *)
LEMMA AmountsGrow ==
  ASSUME NEW S, IsFiniteSet(S), NEW es, NEW fs, NEW n, n \notin S,
         \A i \in S : es[i].action.amount \in Int, \A i \in S : fs[i] = es[i],
         fs[n].action.amount \in Int
  PROVE  AmountAt(fs, S \union {n}) = AmountAt(es, S) + fs[n].action.amount
<1> DEFINE f == [i \in S |-> es[i].action.amount]
           h == [i \in S \union {n} |-> fs[i].action.amount]
<1>1. h[n] = fs[n].action.amount /\ h[n] \in Int
  OBVIOUS
<1>2. \A i \in S : f[i] \in Int
  OBVIOUS
<1>3. \A i \in S : h[i] = f[i]
  OBVIOUS
<1> HIDE DEF f, h
<1>4. SumFunctionOnSet(h, S) = SumFunctionOnSet(f, S)
  BY <1>3, SumAgrees
<1>5. SumFunctionOnSet(f, S) \in Int
  BY <1>2, SumType
<1>6. \A i \in S : h[i] \in Int
  BY <1>2, <1>3
<1>7. SumFunctionOnSet(h, S \union {n}) = h[n] + SumFunctionOnSet(h, S)
  BY <1>1, <1>6, SumAdd
<1>8. SumFunctionOnSet(h, S \union {n}) = SumFunctionOnSet(f, S) + h[n]
  BY <1>1, <1>4, <1>5, <1>7
<1> QED BY <1>1, <1>8 DEF AmountAt, f, h

(* What a kind has moved grows by the amount at its new position. *)
LEMMA MovedGrows ==
  ASSUME NEW kind, NEW n, IsFiniteSet(Enacted(kind)), n \notin Enacted(kind),
         \A i \in Enacted(kind) : enacted[i].action.amount \in Int,
         \A i \in Enacted(kind) : enacted'[i] = enacted[i],
         enacted'[n].action.amount \in Int,
         Enacted(kind)' = Enacted(kind) \union {n}
  PROVE  Moved(kind)' = Moved(kind) + enacted'[n].action.amount
<1>1. AmountAt(enacted', Enacted(kind) \union {n})
        = AmountAt(enacted, Enacted(kind)) + enacted'[n].action.amount
  BY AmountsGrow
<1>2. /\ Moved(kind) = AmountAt(enacted, Enacted(kind))
      /\ Moved(kind)' = AmountAt(enacted', Enacted(kind)')
  BY DEF Moved, AmountAt
<1> QED BY <1>1, <1>2

(* One more action adds its amount to what its kind has moved. *)
LEMMA MovedMore ==
  ASSUME EnactedOK, GovInv, NEW id \in DOMAIN pending, NEW a, a = pending[id],
         Enacts(id, a), NEW kind \in {"Slashing", "FundAllocation"}
  PROVE  Moved(kind)' = IF a.kind = kind THEN Moved(kind) + a.amount ELSE Moved(kind)
<1> DEFINE n == Len(enacted) + 1
<1>1. /\ IsFiniteSet(Enacted(kind)) /\ n \notin Enacted(kind)
      /\ \A i \in Enacted(kind) : enacted[i].action.amount \in Int
      /\ \A i \in Enacted(kind) : enacted'[i] = enacted[i]
      /\ enacted'[n].action = a
  BY HistoryGrows, EnactedFinite, AmountsNamed
<1>2. Enacted(kind)' = IF a.kind = kind THEN Enacted(kind) \union {n} ELSE Enacted(kind)
  BY EnactedMore
<1>3. CASE a.kind = kind
  <2>1. enacted'[n].action.amount \in Int
    <3>1. a \in Actions
      BY DEF GovInv, GovTypeOK
    <3> QED BY <1>1, <3>1, <1>3, ProtocolAssumption DEF I128
  <2> HIDE DEF n
  <2>2. Enacted(kind)' = Enacted(kind) \union {n} /\ enacted'[n].action.amount = a.amount
    BY <1>1, <1>2, <1>3
  <2> QED BY <1>1, <1>3, <2>1, <2>2, MovedGrows
<1>4. CASE a.kind # kind
  <2>1. Enacted(kind)' = Enacted(kind)
    BY <1>2, <1>4
  <2>2. [i \in Enacted(kind)' |-> enacted'[i].action.amount]
          = [i \in Enacted(kind) |-> enacted[i].action.amount]
    BY <1>1, <2>1
  <2> QED BY <1>4, <2>1, <2>2 DEF Moved
<1> QED BY <1>3, <1>4

-----------------------------------------------------------------------------
(* Slashing: what the pool absorbs and what is recorded is what is enacted. *)

\* The enacted slashes of an offence.
SlashesOf(o) ==
  {i \in Enacted("Slashing") : <<enacted[i].action.target, enacted[i].action.role>> = o}

\* Inductive: SlashPipelineAtomic with what the counters need to count.
SlashedInv ==
  /\ HistoryInv
  /\ violations \in [Offences -> Nat]
  /\ slashable \subseteq SlashRoles
  /\ slashed \in Int
  /\ SlashPipelineAtomic

(* Only the calls that absorb a slash or record a violation move the two. *)
LEMMA SlashFree ==
  ASSUME InsuranceUserNext
  PROVE  slashed' = slashed
  BY DEF InsuranceUserNext, PoolUserStep, DepositLiquidity, WithdrawLiquidity, SettleClaim,
         PayoutClaim, poolVars

(* No dispatch but that of a slash moves them; that one moves both. *)
LEMMA DispatchSlashes ==
  ASSUME NEW a, Dispatch(a)
  PROVE  /\ slashable' = slashable
         /\ a.kind # "Slashing" => slashed' = slashed /\ violations' = violations
         /\ a.kind = "Slashing" =>
              /\ slashed' = slashed + a.amount
              /\ a.role \in slashable
              /\ violations' = [violations EXCEPT ![<<a.target, a.role>>] = @ + 1]
<1>1. CASE a.kind = "ClaimApproval"
  BY <1>1 DEF Dispatch, DispatchClaimApproval, slashVars, poolVars
<1>2. CASE a.kind = "FundAllocation"
  BY <1>2 DEF Dispatch, DispatchFundAllocation, PayoutClaim, slashVars
<1>3. CASE a.kind = "PolicyChange"
  BY <1>3 DEF Dispatch, DispatchPolicyChange, slashVars, poolVars
<1>4. CASE a.kind = "Slashing"
  BY <1>4 DEF Dispatch, DispatchSlashing, SlashFunds, CanBeSlashed, AbsorbSlash
<1>5. CASE a.kind = "PauseContract"
  BY <1>5 DEF Dispatch, DispatchPause, SlashPause, slashRecords, poolVars
<1> QED BY <1>1, <1>2, <1>3, <1>4, <1>5 DEF Dispatch

(* One more slash counts for its offence and for no other. *)
LEMMA SlashCounted ==
  ASSUME EnactedOK, GovInv, NEW id \in DOMAIN pending, NEW a, a = pending[id], Enacts(id, a),
         NEW o
  PROVE  /\ IsFiniteSet(SlashesOf(o)) /\ Cardinality(SlashesOf(o)) \in Nat
         /\ Cardinality(SlashesOf(o)') =
              IF a.kind = "Slashing" /\ <<a.target, a.role>> = o
              THEN Cardinality(SlashesOf(o)) + 1 ELSE Cardinality(SlashesOf(o))
<1> DEFINE n == Len(enacted) + 1
<1>1. SlashesOf(o) \subseteq Enacted("Slashing") /\ IsFiniteSet(Enacted("Slashing"))
  BY EnactedFinite DEF SlashesOf
<1>2. IsFiniteSet(SlashesOf(o)) /\ Cardinality(SlashesOf(o)) \in Nat
  BY <1>1, FS_Subset, FS_CardinalityType
<1>3. n \notin SlashesOf(o)
  BY <1>1, HistoryGrows DEF Enacted
<1>4. SlashesOf(o)' = IF a.kind = "Slashing" /\ <<a.target, a.role>> = o
                      THEN SlashesOf(o) \union {n} ELSE SlashesOf(o)
  <2>1. /\ \A i \in Enacted("Slashing") : enacted'[i] = enacted[i]
        /\ enacted'[n].action = a
    BY EnactedFinite, HistoryGrows
  <2>2. Enacted("Slashing")' = IF a.kind = "Slashing" THEN Enacted("Slashing") \union {n}
                                                      ELSE Enacted("Slashing")
    BY EnactedMore
  <2> HIDE DEF n
  <2> QED BY <2>1, <2>2 DEF SlashesOf
<1> QED BY <1>2, <1>3, <1>4, FS_AddElement

(* Every step keeps the two contracts and the history together. *)
LEMMA SlashedStep == SlashedInv /\ [ProtocolNext]_protocolVars => SlashedInv'
<1> SUFFICES ASSUME SlashedInv, [ProtocolNext]_protocolVars PROVE SlashedInv'
  OBVIOUS
<1>0. /\ HistoryInv /\ HistoryInv' /\ GovInv /\ EnactedOK
      /\ violations \in [Offences -> Nat] /\ slashable \subseteq SlashRoles /\ slashed \in Int
      /\ slashed = Moved("Slashing")
      /\ \A o \in Offences : violations[o] = Cardinality(SlashesOf(o))
  BY HistoryStep DEF SlashedInv, HistoryInv, SlashPipelineAtomic, SlashesOf
<1>1. ASSUME UNCHANGED <<slashed, violations, slashable, enacted>> PROVE SlashedInv'
  BY <1>0, <1>1 DEF SlashedInv, SlashPipelineAtomic, SlashesOf, Moved, Enacted
<1>2. CASE InsuranceUserNext /\ UNCHANGED <<slashVars, govVars, enacted>>
  BY <1>1, <1>2, SlashFree DEF slashVars
<1>3. CASE SlashUserStep /\ UNCHANGED <<poolVars, enacted>>
  BY <1>1, <1>3 DEF SlashUserStep, SlashResume, SlashIsPaused, slashRecords, poolVars
<1>4. CASE UNCHANGED <<contracts, enacted>>
  BY <1>1, <1>4 DEF contracts, slashVars, poolVars
<1>5. ASSUME NEW id \in DOMAIN pending, Dispatch(pending[id]), Enacts(id, pending[id])
      PROVE  SlashedInv'
  <2> PICK a : a = pending[id]
    OBVIOUS
  <2>1. Moved("Slashing")' = IF a.kind = "Slashing" THEN Moved("Slashing") + a.amount
                                                    ELSE Moved("Slashing")
    BY <1>0, <1>5, MovedMore
  <2>2. \A o : /\ Cardinality(SlashesOf(o)) \in Nat
               /\ Cardinality(SlashesOf(o)') =
                    IF a.kind = "Slashing" /\ <<a.target, a.role>> = o
                    THEN Cardinality(SlashesOf(o)) + 1 ELSE Cardinality(SlashesOf(o))
    BY <1>0, <1>5, SlashCounted
  <2>3. slashable' \subseteq SlashRoles
    BY <1>0, <1>5, DispatchSlashes
  <2>4. CASE a.kind # "Slashing"
    <3>1. slashed' = slashed /\ violations' = violations
      BY <1>5, <2>4, DispatchSlashes
    <3>2. slashed' = Moved("Slashing")'
          /\ \A o \in Offences : violations'[o] = Cardinality(SlashesOf(o)')
      BY <1>0, <2>1, <2>2, <2>4, <3>1
    <3> QED BY <1>0, <2>3, <3>1, <3>2 DEF SlashedInv, SlashPipelineAtomic, SlashesOf
  <2>5. CASE a.kind = "Slashing"
    <3> DEFINE x == <<a.target, a.role>>
    <3>1. /\ slashed' = slashed + a.amount /\ a.role \in SlashRoles
          /\ violations' = [violations EXCEPT ![x] = @ + 1]
      BY <1>0, <1>5, <2>5, DispatchSlashes
    <3>2. x \in Offences /\ a.amount \in Int
      <4>1. a \in Actions
        BY <1>0 DEF GovInv, GovTypeOK
      <4> QED BY <2>5, <3>1, <4>1, ProtocolAssumption DEF Offences, I128
    <3> HIDE DEF x
    <3>3. /\ violations' \in [Offences -> Nat]
          /\ \A o \in Offences : violations'[o] = IF o = x THEN violations[o] + 1
                                                           ELSE violations[o]
      BY <1>0, <3>1, <3>2
    <3>4. \A o \in Offences : violations'[o] = Cardinality(SlashesOf(o)')
      BY <1>0, <2>2, <2>5, <3>3 DEF x
    <3>5. slashed' = Moved("Slashing")' /\ slashed' \in Int
      BY <1>0, <2>1, <2>5, <3>1, <3>2
    <3> QED BY <1>0, <2>3, <3>3, <3>4, <3>5 DEF SlashedInv, SlashPipelineAtomic, SlashesOf
  <2> QED BY <2>4, <2>5
<1>6. ASSUME NEW id \in DOMAIN proposals, EnactProposal(id) PROVE SlashedInv'
  <2>1. CASE id \in DOMAIN pending
    BY <1>5, <1>6, <2>1 DEF EnactProposal, Enacts
  <2>2. CASE id \notin DOMAIN pending
    BY <1>4, <1>6, <2>2 DEF EnactProposal
  <2> QED BY <2>1, <2>2
<1> QED
  BY <1>2, <1>3, <1>4, <1>6 DEF ProtocolNext, protocolVars

(* Nothing is slashed or enacted in the beginning. *)
LEMMA SlashedInit == DeployedInit => SlashedInv
<1> SUFFICES ASSUME DeployedInit PROVE SlashedInv
  OBVIOUS
<1>1. enacted = <<>> /\ slashed = 0 /\ slashable = SlashRoles
      /\ violations = [o \in Offences |-> 0]
  BY DEF DeployedInit
<1>2. \A k : Enacted(k) = {}
  BY <1>1 DEF Enacted
<1>3. Moved("Slashing") = 0
  BY <1>2, SumEmpty DEF Moved
<1>4. \A o : SlashesOf(o) = {}
  BY <1>2 DEF SlashesOf
<1>5. \A o : Cardinality(SlashesOf(o)) = 0
  BY <1>4, FS_EmptySet
<1> QED BY <1>1, <1>3, <1>5, HistoryInit DEF SlashedInv, SlashPipelineAtomic, SlashesOf

(* A passed slashing proposal moves the slashing contract and the pool or      *)
(* neither, whatever is paused, voted and executed in between (#601).          *)
THEOREM SlashingIsAtomic == ProtocolSpec => []SlashPipelineAtomic
<1>1. SlashedInv => SlashPipelineAtomic
  BY DEF SlashedInv
<1> QED BY <1>1, SlashedInit, SlashedStep, PTL DEF ProtocolSpec

(* While slashing is paused no proposal slashes anyone. *)
THEOREM PausedProtocolSlashesNobody == ProtocolSpec => PauseHoldsSlashing
<1>1. [ProtocolNext]_protocolVars =>
        [IsPaused(slashBreaker, now) => UNCHANGED <<slashed, violations>>]_protocolVars
  <2> SUFFICES ASSUME ProtocolNext, IsPaused(slashBreaker, now)
               PROVE  UNCHANGED <<slashed, violations>>
    OBVIOUS
  <2>1. CASE InsuranceUserNext /\ UNCHANGED <<slashVars, govVars, enacted>>
    BY <2>1, SlashFree DEF slashVars
  <2>2. CASE SlashUserStep /\ UNCHANGED poolVars
    BY <2>2 DEF SlashUserStep, SlashResume, SlashIsPaused, slashRecords, poolVars
  <2>3. CASE UNCHANGED contracts
    BY <2>3 DEF contracts, slashVars, poolVars
  <2>4. ASSUME NEW a, Dispatch(a) PROVE UNCHANGED <<slashed, violations>>
    <3>1. a.kind # "Slashing"
      BY <2>4 DEF Dispatch, DispatchSlashing, SlashFunds, NotPaused
    <3> QED BY <2>4, <3>1, DispatchSlashes
  <2> QED BY <2>1, <2>2, <2>3, <2>4 DEF ProtocolNext, EnactProposal
<1> QED BY <1>1, PTL DEF ProtocolSpec, PauseHoldsSlashing

-----------------------------------------------------------------------------
(* Payments: what the pool pays was settled or enacted.                    *)

\* Inductive when no sum wraps: governance, the policies and claims, their
\* counts and the money in order, and what was paid decided.
DecidedInv == HistoryInv /\ ClaimsInv /\ CountedOK /\ FundsOK /\ PaidIsDecided

(* The claims, policies and counts do not depend on the pool. *)
LEMMA PoolApart ==
  ASSUME ClaimsInv, UNCHANGED <<now, policyVars, claimsVars>>
  PROVE  ClaimsInv' /\ (CountedOK => CountedOK')
<1>1. PoliciesOK /\ RecordsOK /\ LocksOK /\ policies' = policies /\ claims' = claims
  BY ClaimsInvParts DEF policyVars, claimsVars
<1>2. now' \in now .. MaxTime
  BY <1>1 DEF PoliciesOK, PolicyTypeOK
<1>3. PoliciesOK' /\ RecordsOK' /\ LocksOK'
  BY <1>1, <1>2, PoliciesUntouched, ClaimsUntouched
<1>4. CountedOK => CountedOK'
  BY <1>1 DEF CountedOK, AmountsOK, SettledCounted, SettledOf
<1> QED BY <1>3, <1>4, ClaimsInvPartsNext

(* A forfeited stake is capital that is available, and moves no tokens. *)
LEMMA AbsorbFunds ==
  ASSUME FundsOK, NEW p, NEW n \in Int, AbsorbSlash(p, n)
  PROVE  FundsOK' /\ claimsPaid' = claimsPaid
  BY DEF FundsOK, AbsorbSlash, Minted

(* What the contracts are told to do by no allocation and no slash is a step *)
(* that they take among themselves, or none.                                 *)
LEMMA DispatchIsInsurance ==
  ASSUME NEW a \in Actions, Dispatch(a), UNCHANGED now,
         a.kind \notin {"FundAllocation", "Slashing"}
  PROVE  [InsuranceNext]_vars
<1>1. CASE a.kind = "ClaimApproval" /\ DispatchClaimApproval(a)
  BY <1>1 DEF DispatchClaimApproval, ClaimsStep, InsuranceNext, InsuranceUserNext
<1>2. CASE a.kind = "PolicyChange" /\ DispatchPolicyChange(a)
  <2>1. a.patch \in Patches
    BY <1>2, ProtocolAssumption
  <2> QED BY <1>2, <2>1 DEF DispatchPolicyChange, PolicyGovernanceStep, InsuranceNext
<1>3. CASE a.kind = "PauseContract" /\ DispatchPause(a)
  BY <1>3 DEF DispatchPause, vars
<1> QED BY <1>1, <1>2, <1>3 DEF Dispatch

(* An enacted allocation pays its amount; what other enacted actions pay, the *)
(* policies count.                                                            *)
LEMMA DispatchPays ==
  ASSUME SupplyFits \/ AmountsFit, ClaimsInv, CountedOK, FundsOK,
         NEW a \in Actions, Dispatch(a), UNCHANGED now
  PROVE  /\ ClaimsInv' /\ CountedOK' /\ FundsOK'
         /\ \E n \in Int :
              /\ ClaimedOn(policies') = ClaimedOn(policies) + n
              /\ claimsPaid' = IF a.kind = "FundAllocation" THEN claimsPaid + n + a.amount
                                                            ELSE claimsPaid + n
<1>0. claimsPaid \in Int /\ ClaimedOn(policies) \in Int
  BY ClaimsInvParts, ClaimedType DEF FundsOK
<1>1. CASE a.kind \notin {"FundAllocation", "Slashing"}
  <2>1. [InsuranceNext]_vars
    BY <1>1, DispatchIsInsurance
  <2> QED BY <1>1, <2>1, ClaimsInvStep, MoneyStep
<1>2. CASE a.kind = "FundAllocation"
  <2>1. /\ PayoutClaim(a.recipient, a.amount) /\ UNCHANGED <<policyVars, claimsVars>>
        /\ a.recipient \in Accounts /\ a.amount \in Int
    BY <1>2, ProtocolAssumption DEF Dispatch, DispatchFundAllocation, I128
  <2>2. ClaimsInv' /\ CountedOK' /\ policies' = policies
    BY <2>1, PoolApart DEF policyVars
  <2>3. FundsOK' /\ claimsPaid' = claimsPaid + a.amount
    BY <2>1, PayoutFunds
  <2>4. /\ ClaimedOn(policies') = ClaimedOn(policies) + 0
        /\ claimsPaid' = claimsPaid + 0 + a.amount
    BY <1>0, <2>1, <2>2, <2>3
  <2> QED BY <1>2, <2>2, <2>3, <2>4
<1>3. CASE a.kind = "Slashing"
  <2>1. /\ AbsorbSlash(a.target, a.amount) /\ UNCHANGED <<policyVars, claimsVars>>
        /\ a.amount \in Int
    BY <1>3, ProtocolAssumption DEF Dispatch, DispatchSlashing, I128
  <2>2. ClaimsInv' /\ CountedOK' /\ policies' = policies
    BY <2>1, PoolApart DEF policyVars
  <2>3. FundsOK' /\ claimsPaid' = claimsPaid
    BY <2>1, AbsorbFunds
  <2>4. ClaimedOn(policies') = ClaimedOn(policies) + 0 /\ claimsPaid' = claimsPaid + 0
    BY <1>0, <2>2, <2>3
  <2> QED BY <1>3, <2>2, <2>3, <2>4
<1> QED BY <1>1, <1>2, <1>3

(* The contracts are deployed without a policy or a claim. *)
LEMMA DeployedClaims == DeployedInit => ClaimsInv
<1> SUFFICES ASSUME DeployedInit PROVE ClaimsInv
  OBVIOUS
<1>2. policies = <<>> /\ claims = <<>> /\ activeClaim = <<>> /\ now = 0
  BY DEF DeployedInit, GovInit
<1>3. PoliciesOK
  <2>1. policyParams \in [maxCoverage : Int, minPremium : Int]
    BY LedgerAssumption DEF DeployedInit
  <2>2. /\ policyAdmin \in BOOLEAN /\ claimsRegistered \in BOOLEAN
        /\ governanceRegistered \in BOOLEAN
    BY DEF DeployedInit
  <2>3. now \in 0 .. MaxTime
    BY <1>2, LedgerAssumption
  <2> QED BY <1>2, <2>1, <2>2, <2>3 DEF PoliciesOK, PolicyTypeOK, ClaimedWithinCoverage
<1>4. RecordsOK /\ LocksOK
  <2>1. claimsAdmin = TRUE
    BY DEF DeployedInit
  <2>2. DOMAIN claims = {} /\ DOMAIN activeClaim = {} /\ claims \in Seq(ClaimRecord)
    BY <1>2
  <2> QED BY <2>1, <2>2 DEF RecordsOK, LocksOK
<1> QED BY <1>3, <1>4, ClaimsInvParts

(* The protocol starts with nothing claimed, paid or enacted. *)
LEMMA DecidedInit == DeployedInit => DecidedInv
<1> SUFFICES ASSUME DeployedInit PROVE DecidedInv
  OBVIOUS
<1>1. HistoryInv
  BY HistoryInit
<1>2. /\ policies = <<>> /\ claims = <<>> /\ activeClaim = <<>>
      /\ enacted = <<>> /\ claimsPaid = 0 /\ now = 0
  BY DEF DeployedInit, GovInit
<1>3. ClaimsInv
  BY DeployedClaims
<1>5. CountedOK
  BY <1>2 DEF CountedOK, AmountsOK, SettledCounted
<1>6. FundsOK
  <2>1. /\ balance \in [Accounts -> Nat] /\ poolTokens = 0
        /\ availableCapital = 0 /\ claimsPaid = 0
        /\ \A p \in Providers : balance[p] = Supply
    BY PoolAssumption DEF DeployedInit, Accounts
  <2>2. SumFunctionOnSet(balance, Providers) = Minted
    BY <2>1, MintedSum
  <2> QED BY <2>1, <2>2, MintedType DEF FundsOK
<1>7. PaidIsDecided
  <2>1. DOMAIN policies = {} /\ Enacted("FundAllocation") = {}
    BY <1>2 DEF Enacted
  <2>2. ClaimedOn(policies) = 0
    BY <2>1, SumEmpty DEF ClaimedOn
  <2>3. Moved("FundAllocation") = 0
    BY <2>1, SumEmpty DEF Moved
  <2> QED BY <1>2, <2>2, <2>3 DEF PaidIsDecided
<1> QED BY <1>1, <1>3, <1>5, <1>6, <1>7 DEF DecidedInv

(* Every step of the protocol pays what it decides. *)
LEMMA DecidedStep ==
  ASSUME SupplyFits \/ AmountsFit
  PROVE  DecidedInv /\ [ProtocolNext]_protocolVars => DecidedInv'
<1> SUFFICES ASSUME DecidedInv, [ProtocolNext]_protocolVars PROVE DecidedInv'
  OBVIOUS
<1>0. /\ HistoryInv /\ HistoryInv' /\ GovInv /\ EnactedOK
      /\ ClaimsInv /\ CountedOK /\ FundsOK
      /\ claimsPaid = ClaimedOn(policies) + Moved("FundAllocation")
      /\ ClaimedOn(policies) \in Int /\ Moved("FundAllocation") \in Int
  BY HistoryStep, ClaimsInvParts, ClaimedType, MovedType
  DEF DecidedInv, HistoryInv, PaidIsDecided
<1>1. ASSUME [InsuranceNext]_vars, UNCHANGED enacted PROVE DecidedInv'
  <2>1. ClaimsInv' /\ CountedOK' /\ FundsOK'
    BY <1>0, <1>1, ClaimsInvStep, MoneyStep
  <2>2. PICK n \in Int : /\ claimsPaid' = claimsPaid + n
                         /\ ClaimedOn(policies') = ClaimedOn(policies) + n
    BY <1>0, <1>1, MoneyStep
  <2>3. Moved("FundAllocation")' = Moved("FundAllocation")
    BY <1>1 DEF Moved, Enacted
  <2>4. ClaimedOn(policies)' = ClaimedOn(policies')
    BY DEF ClaimedOn
  <2>5. PaidIsDecided'
    BY <1>0, <2>2, <2>3, <2>4 DEF PaidIsDecided
  <2> QED BY <1>0, <2>1, <2>5 DEF DecidedInv
<1>2. ASSUME NEW id \in DOMAIN pending, Dispatch(pending[id]), Enacts(id, pending[id]),
             UNCHANGED now
      PROVE  DecidedInv'
  <2> PICK a : a = pending[id]
    OBVIOUS
  <2>1. a \in Actions
    BY <1>0 DEF GovInv, GovTypeOK
  <2>2. ClaimsInv' /\ CountedOK' /\ FundsOK'
    BY <1>0, <1>2, <2>1, DispatchPays
  <2>3. PICK n \in Int :
          /\ ClaimedOn(policies') = ClaimedOn(policies) + n
          /\ claimsPaid' = IF a.kind = "FundAllocation" THEN claimsPaid + n + a.amount
                                                        ELSE claimsPaid + n
    BY <1>0, <1>2, <2>1, DispatchPays
  <2>4. Moved("FundAllocation")' = IF a.kind = "FundAllocation"
                                   THEN Moved("FundAllocation") + a.amount
                                   ELSE Moved("FundAllocation")
    BY <1>0, <1>2, MovedMore
  <2>5. a.kind = "FundAllocation" => a.amount \in Int
    BY <2>1, ProtocolAssumption DEF I128
  <2>6. ClaimedOn(policies)' = ClaimedOn(policies')
    BY DEF ClaimedOn
  <2>7. PaidIsDecided'
    BY <1>0, <2>3, <2>4, <2>5, <2>6 DEF PaidIsDecided
  <2> QED BY <1>0, <2>2, <2>7 DEF DecidedInv
<1>3. CASE InsuranceUserNext /\ UNCHANGED <<slashVars, govVars, enacted>>
  BY <1>1, <1>3 DEF InsuranceNext
<1>4. CASE UNCHANGED <<now, policyVars, poolVars, claimsVars, enacted>>
  BY <1>1, <1>4 DEF vars
<1>5. ASSUME NEW id \in DOMAIN proposals, EnactProposal(id), UNCHANGED now PROVE DecidedInv'
  <2>1. CASE id \in DOMAIN pending
    BY <1>2, <1>5, <2>1 DEF EnactProposal, Enacts
  <2>2. CASE id \notin DOMAIN pending
    BY <1>4, <1>5, <2>2 DEF EnactProposal, contracts
  <2> QED BY <2>1, <2>2
<1> QED
  BY <1>3, <1>4, <1>5 DEF ProtocolNext, protocolVars, contracts

(* What was paid was decided, by a claim's settlement or an allocation, and    *)
(* what was decided is done once, when no coverage is so near i128::MAX that a *)
(* sum with the tokens there are wraps.                                        *)
THEOREM PaymentsAreDecided == SupplyFits => (ProtocolSpec => []DecidedOnce)
<1> SUFFICES ASSUME SupplyFits PROVE ProtocolSpec => []DecidedOnce
  OBVIOUS
<1>1. DecidedInv => DecidedOnce
  BY DEF DecidedInv, HistoryInv, EnactedOK, DecidedOnce
<1>2. DecidedInv /\ [ProtocolNext]_protocolVars => DecidedInv'
  BY DecidedStep
<1> QED BY <1>1, <1>2, DecidedInit, PTL DEF ProtocolSpec

-----------------------------------------------------------------------------
(* What each contract guarantees on its own, it guarantees deployed, whatever *)
(* governance decides: the bounds of its own model are not needed.            *)

\* Inductive, also when sums wrap: governance and its history, policies and
\* claims, the books of the pool and the records of slashing in order.
DeployedInv == HistoryInv /\ ClaimsInv /\ PoolInv /\ SlashInv

(* settle_claim pays a holder, who has a balance, an i128. *)
LEMMA SettlePays ==
  ASSUME ClaimsInv, NEW c \in DOMAIN claims, SettleClaim(c)
  PROVE  \E a \in Accounts, n \in Int : PayoutClaim(a, n)
<1>1. claims[c] \in ClaimRecord
  BY ClaimsInvParts DEF RecordsOK
<1>2. claims[c].claimant \in Accounts /\ claims[c].amount \in Int
  BY <1>1, ClaimsAssumption DEF ClaimRecord, I128
<1> QED BY <1>2 DEF SettleClaim

(* What the policies, the claims and the pool do among themselves calls the *)
(* pool, or does not.                                                       *)
LEMMA CoreCallsPool ==
  ASSUME ClaimsInv, InsuranceUserNext
  PROVE  [PoolCall]_poolVars
<1>1. CASE PoolUserStep
  BY <1>1, PoolAssumption DEF PoolUserStep, PoolCall
<1>2. ASSUME NEW c \in DOMAIN claims, SettleClaim(c) PROVE PoolCall
  BY <1>2, SettlePays DEF PoolCall
<1> QED BY <1>1, <1>2 DEF InsuranceUserNext

(* An enacted allocation and an enacted slash are calls of the pool. *)
LEMMA DispatchCallsPool ==
  ASSUME NEW a \in Actions, Dispatch(a)
  PROVE  [PoolCall]_poolVars
<1>1. CASE a.kind = "FundAllocation" /\ DispatchFundAllocation(a)
  <2>1. a.recipient \in Accounts /\ a.amount \in Int
    BY <1>1, ProtocolAssumption DEF I128
  <2> QED BY <1>1, <2>1 DEF DispatchFundAllocation, PoolCall
<1>2. CASE a.kind = "Slashing" /\ DispatchSlashing(a)
  <2>1. a.target \in Providers /\ a.amount \in Int
    BY <1>2, ProtocolAssumption DEF I128
  <2> QED BY <1>2, <2>1 DEF DispatchSlashing, PoolCall
<1>3. CASE DispatchClaimApproval(a) \/ DispatchPolicyChange(a) \/ DispatchPause(a)
  BY <1>3 DEF DispatchClaimApproval, DispatchPolicyChange, DispatchPause
<1> QED BY <1>1, <1>2, <1>3 DEF Dispatch

(* Whatever is enacted leaves policies and claims in order. *)
LEMMA DispatchClaims ==
  ASSUME ClaimsInv, NEW a \in Actions, Dispatch(a), UNCHANGED now
  PROVE  ClaimsInv'
<1>1. CASE a.kind \notin {"FundAllocation", "Slashing"}
  BY <1>1, DispatchIsInsurance, ClaimsInvStep
<1>2. CASE a.kind \in {"FundAllocation", "Slashing"}
  <2>1. UNCHANGED <<policyVars, claimsVars>>
    BY <1>2 DEF Dispatch, DispatchFundAllocation, DispatchSlashing
  <2> QED BY <2>1, PoolApart
<1> QED BY <1>1, <1>2

(* An enacted slash is recorded in its place, an enacted pause stops the     *)
(* breaker, and nothing else that is enacted touches the slashing contract. *)
LEMMA DispatchRecords ==
  ASSUME SlashInv, NEW a \in Actions, Dispatch(a), UNCHANGED now
  PROVE  SlashInv'
<1>0. SlashTypeOK /\ now' >= now
  BY LedgerAssumption DEF SlashInv, SlashTypeOK
<1>1. CASE a.kind = "Slashing" /\ DispatchSlashing(a)
  <2>1. /\ SlashFunds(a.target, a.role, a.amount)
        /\ a.target \in Targets /\ a.amount \in I128 /\ a.role \in SlashRoles
    BY <1>0, <1>1, ProtocolAssumption
    DEF DispatchSlashing, SlashFunds, CanBeSlashed, SlashTypeOK
  <2> QED BY <2>1, SlashKeeps
<1>2. CASE a.kind = "PauseContract" /\ DispatchPause(a)
  <2>1. SlashPause(a.duration) /\ a.duration \in Nat
    BY <1>2, ProtocolAssumption DEF DispatchPause, Time
  <2>2. slashBreaker' \in BreakerState({Governor})
    BY <1>0, <2>1, BreakerTypes DEF SlashPause
  <2>3. SlashTypeOK' /\ UNCHANGED slashRecords
    BY <1>0, <2>1, <2>2 DEF SlashPause, SlashTypeOK, slashRecords
  <2> QED BY <1>0, <2>3, RecordsKeep
<1>3. CASE DispatchClaimApproval(a) \/ DispatchPolicyChange(a) \/ DispatchFundAllocation(a)
  <2>1. UNCHANGED <<now, slashVars>>
    BY <1>3 DEF DispatchClaimApproval, DispatchPolicyChange, DispatchFundAllocation
  <2> QED BY <2>1, SlashNextInv
<1> QED BY <1>1, <1>2, <1>3 DEF Dispatch

(* Each contract is deployed in order. *)
LEMMA DeployedInitInv == DeployedInit => DeployedInv
<1> SUFFICES ASSUME DeployedInit PROVE DeployedInv
  OBVIOUS
<1>1. HistoryInv /\ ClaimsInv
  BY HistoryInit, DeployedClaims
<1>2. PoolInv
  <2>1. PoolEmpty
    BY DEF DeployedInit, PoolEmpty, Versions
  <2> QED BY <2>1, PoolEmptyInv
<1>3. SlashInv
  <2>1. SlashTypeOK
    <3>1. now = 0 /\ slashRoles = Roles
      BY DEF DeployedInit, GovInit
    <3>2. cooldown \in [SlashRoles -> OptTime]
      BY SlashingAssumption DEF DeployedInit, OptTime
    <3> QED BY <3>1, <3>2, ClearedType, LedgerAssumption DEF DeployedInit, SlashTypeOK, Roles
  <2>2. HistoryIsRecent
    BY SlashingAssumption DEF DeployedInit, HistoryIsRecent
  <2>3. CooldownSpacing /\ NotFuture
    BY DEF DeployedInit, CooldownSpacing, NotFuture
  <2> QED BY <2>1, <2>2, <2>3 DEF SlashInv
<1> QED BY <1>1, <1>2, <1>3 DEF DeployedInv

(* Every step of the protocol keeps each contract in order. *)
LEMMA DeployedStep == DeployedInv /\ [ProtocolNext]_protocolVars => DeployedInv'
<1> SUFFICES ASSUME DeployedInv, [ProtocolNext]_protocolVars PROVE DeployedInv'
  OBVIOUS
<1>0. /\ HistoryInv /\ HistoryInv' /\ GovInv
      /\ ClaimsInv /\ PoolInv /\ SlashInv
  BY HistoryStep DEF DeployedInv, HistoryInv
<1>1. CASE InsuranceUserNext /\ UNCHANGED <<slashVars, govVars, enacted>>
  <2>1. ClaimsInv'
    BY <1>0, <1>1, ClaimsInvStep DEF InsuranceNext
  <2>2. PoolInv'
    BY <1>0, <1>1, CoreCallsPool, PoolCallInv
  <2>3. [SlashStep]_<<now, slashVars>>
    BY <1>1 DEF InsuranceUserNext, SlashStep
  <2> QED BY <1>0, <2>1, <2>2, <2>3, SlashNextInv DEF DeployedInv
<1>2. CASE SlashUserStep /\ UNCHANGED <<now, policyVars, poolVars, claimsVars>>
  <2>1. [SlashStep]_<<now, slashVars>>
    BY <1>2 DEF SlashUserStep, SlashStep, SlashNext
  <2> QED BY <1>0, <1>2, <2>1, SlashNextInv, PoolCallInv, PoolApart DEF DeployedInv
<1>3. CASE UNCHANGED <<now, contracts>>
  <2>1. UNCHANGED <<now, policyVars, poolVars, claimsVars, slashVars>>
    BY <1>3 DEF contracts
  <2> QED BY <1>0, <2>1, SlashNextInv, PoolCallInv, PoolApart DEF DeployedInv
<1>4. ASSUME NEW id \in DOMAIN proposals, EnactProposal(id), UNCHANGED now
      PROVE  DeployedInv'
  <2>1. CASE id \in DOMAIN pending
    <3>1. pending[id] \in Actions
      BY <1>0, <2>1 DEF GovInv, GovTypeOK
    <3>2. PICK a \in Actions : Dispatch(a)
      BY <1>4, <2>1, <3>1 DEF EnactProposal
    <3>3. ClaimsInv' /\ SlashInv'
      BY <1>0, <1>4, <3>2, DispatchClaims, DispatchRecords
    <3>4. PoolInv'
      BY <1>0, <3>2, DispatchCallsPool, PoolCallInv
    <3> QED BY <1>0, <3>3, <3>4 DEF DeployedInv
  <2>2. CASE id \notin DOMAIN pending
    BY <1>3, <1>4, <2>2 DEF EnactProposal
  <2> QED BY <2>1, <2>2
<1> QED BY <1>1, <1>2, <1>3, <1>4 DEF ProtocolNext, protocolVars

(* The invariants of the four contracts hold together in every state that the *)
(* deployed protocol reaches.                                                 *)
THEOREM DeployedInvariance == ProtocolSpec => []DeployedInv
  BY DeployedInitInv, DeployedStep, PTL DEF ProtocolSpec

(* The deployed pool's books balance and its root proves them, through every *)
(* settlement, allocation and slash that governance decides.                *)
THEOREM DeployedBooks == ProtocolSpec => []RootedBooks
<1>1. DeployedInv => RootedBooks
  BY DEF DeployedInv, PoolInv, RootedBooks, BooksBalance
<1> QED BY <1>1, DeployedInvariance, PTL

(* The stakes and what was slashed of them add up to the total capital. *)
THEOREM DeployedStakes == ProtocolSpec => []StakesExplainTotal
<1>1. DeployedInv => StakesExplainTotal
  BY DEF DeployedInv, PoolInv
<1> QED BY <1>1, DeployedInvariance, PTL

(* The capped history of every target holds its latest violations, spaced by *)
(* the cooldowns, whatever slashes and pauses governance enacts.            *)
THEOREM DeployedRecords == ProtocolSpec => []HistoryIsSound
<1>1. DeployedInv => HistoryIsSound
  BY DEF DeployedInv, SlashInv, HistoryIsSound
<1> QED BY <1>1, DeployedInvariance, PTL

(* No policy is paid beyond its cover, when claims are approved, covers are    *)
(* patched and funds allocated by enacted proposals between the users' calls. *)
THEOREM DeployedNeverOverpaid == ProtocolSpec => []ClaimedWithinCoverage
<1>1. DeployedInv => ClaimedWithinCoverage
  BY DEF DeployedInv, ClaimsInv
<1> QED BY <1>1, DeployedInvariance, PTL

(* A policy's lock is there exactly while one claim of it is open, whoever *)
(* approves that claim.                                                   *)
THEOREM DeployedOneOpenClaim == ProtocolSpec => []LockIsTheOpenClaim
<1>1. DeployedInv => LockIsTheOpenClaim
  BY DEF DeployedInv, ClaimsInv
<1> QED BY <1>1, DeployedInvariance, PTL

(* No enacted proposal and no user gives an ended policy a status that covers. *)
THEOREM DeployedEndedStaysEnded == ProtocolSpec => NeverRevived
<1> DEFINE Stays == \A id \in DOMAIN policies :
                      policies[id].status \in Terminal =>
                        policies'[id].status \in Terminal
<1>1. DeployedInv /\ [ProtocolNext]_protocolVars => [Stays]_policyVars
  <2> SUFFICES ASSUME DeployedInv, [ProtocolNext]_protocolVars, ~UNCHANGED policyVars
               PROVE  Stays
    OBVIOUS
  <2>0. ClaimsInv /\ GovInv
    BY DEF DeployedInv, HistoryInv
  <2>1. ASSUME [InsuranceNext]_vars PROVE Stays
    BY <2>0, <2>1, EndedStep
  <2>2. ASSUME NEW id \in DOMAIN pending, Dispatch(pending[id]), UNCHANGED now PROVE Stays
    <3>1. PICK a \in Actions : Dispatch(a)
      BY <2>0, <2>2 DEF GovInv, GovTypeOK
    <3>2. a.kind \notin {"FundAllocation", "Slashing"}
      BY <3>1 DEF Dispatch, DispatchFundAllocation, DispatchSlashing
    <3> QED BY <2>1, <2>2, <3>1, <3>2, DispatchIsInsurance
  <2> QED
    BY <2>1, <2>2 DEF ProtocolNext, protocolVars, EnactProposal, contracts, InsuranceNext
<1> QED BY <1>1, DeployedInvariance, PTL DEF ProtocolSpec, NeverRevived

-----------------------------------------------------------------------------
(* The deployed protocol implements Indemnity.                             *)

(* An allocation or a slash only changes what there is to pay with. *)
LEMMA DispatchFunds ==
  ASSUME FundsOK', UNCHANGED <<policyVars, claimsVars>>
  PROVE  Abstract!Next
<1>1. availableCapital' >= 0
  BY DEF FundsOK
<1>2. Cover' = Cover /\ Paid' = Paid /\ OpenDemand' = OpenDemand
  BY DEF policyVars, claimsVars, Cover, Paid, OpenDemand
<1> QED BY <1>1, <1>2, AbstractForms DEF Abstract!Next

(* The deployed contracts start as Indemnity does. *)
LEMMA DeployedAbstract == DeployedInit => Abstract!Init
<1> SUFFICES ASSUME DeployedInit PROVE Abstract!Init
  OBVIOUS
<1>1. DOMAIN policies = {} /\ availableCapital = 0
  BY DEF DeployedInit
<1>2. Cover = <<>>
  BY <1>1 DEF Cover
<1>3. Paid = <<>>
  BY <1>1 DEF Paid
<1>4. OpenDemand = <<>>
  BY <1>1 DEF OpenDemand
<1> QED BY <1>1, <1>2, <1>3, <1>4, AbstractForms

(* Every step of the protocol is a step of Indemnity, or none. *)
LEMMA ProtocolRefines ==
  ASSUME AmountsFit
  PROVE  DecidedInv /\ DecidedInv' /\ [ProtocolNext]_protocolVars
           => [Abstract!Next]_(Abstract!vars)
<1> SUFFICES ASSUME DecidedInv, DecidedInv', [ProtocolNext]_protocolVars
             PROVE  Abstract!Next \/ UNCHANGED Abstract!vars
  OBVIOUS
<1>0. ClaimsInv /\ ClaimsInv' /\ CountedOK /\ FundsOK /\ FundsOK' /\ GovInv
  BY DEF DecidedInv, HistoryInv
<1>1. ASSUME [InsuranceNext]_vars PROVE Abstract!Next \/ UNCHANGED Abstract!vars
  BY <1>0, <1>1, StepRefines
<1>2. ASSUME NEW id \in DOMAIN pending, Dispatch(pending[id]), UNCHANGED now
      PROVE  Abstract!Next \/ UNCHANGED Abstract!vars
  <2>1. PICK a \in Actions : Dispatch(a)
    BY <1>0, <1>2 DEF GovInv, GovTypeOK
  <2>2. CASE a.kind \notin {"FundAllocation", "Slashing"}
    BY <1>1, <1>2, <2>1, <2>2, DispatchIsInsurance
  <2>3. CASE a.kind \in {"FundAllocation", "Slashing"}
    <3>1. UNCHANGED <<policyVars, claimsVars>>
      BY <2>1, <2>3 DEF Dispatch, DispatchFundAllocation, DispatchSlashing
    <3> QED BY <1>0, <3>1, DispatchFunds
  <2> QED BY <2>2, <2>3
<1>3. CASE UNCHANGED <<now, policyVars, poolVars, claimsVars>>
  BY <1>1, <1>3 DEF vars
<1>4. CASE InsuranceUserNext
  BY <1>1, <1>4 DEF InsuranceNext
<1> QED
  BY <1>2, <1>3, <1>4 DEF ProtocolNext, protocolVars, EnactProposal, contracts

(* The deployed protocol as a whole implements Indemnity: with governance     *)
(* approving claims, patching covers, allocating funds and slashing, nothing  *)
(* is counted against a policy without an open demand, twice, in part or      *)
(* beyond its cover, when no sum of a claimed amount and a coverage wraps.    *)
THEOREM DeploymentImplementsIndemnity ==
  AmountsFit => (ProtocolSpec => ImplementsIndemnity)
<1> SUFFICES ASSUME AmountsFit PROVE ProtocolSpec => ImplementsIndemnity
  OBVIOUS
<1>1. DecidedInv /\ [ProtocolNext]_protocolVars => DecidedInv'
  BY DecidedStep
<1>2. DecidedInv /\ DecidedInv' /\ [ProtocolNext]_protocolVars
        => [Abstract!Next]_(Abstract!vars)
  BY ProtocolRefines
<1> QED
  BY <1>1, <1>2, DecidedInit, DeployedAbstract, PTL
  DEF ProtocolSpec, ImplementsIndemnity, Abstract!Spec
=============================================================================
