----------------------------- MODULE ZkCompliance -----------------------------
(***************************************************************************)
(* The ink! ZK compliance contract (contracts/zk-compliance/lib.rs), built  *)
(* with its zk feature: proofs that holders submit, the keys they are       *)
(* verified under and the verdicts.  Groth16 is abstracted to the key       *)
(* version a proof is good for; public inputs and metadata are left out.    *)
(* An Err reverts the message: a self-service proof that does not verify    *)
(* leaves nothing behind, not the Rejected proof that the code writes.      *)
(***************************************************************************)
EXTENDS Ledger, SequencesExt

CONSTANTS
  Provers,          \* accounts that submit proofs
  Reviewers,        \* accounts that may be approved verifiers
  ProofTypes,
  NotSubmitted,     \* no compliance data of an account
  ProofValidity,    \* one year
  PrivacyLevels,    \* levels offered
  MaxProofs, MaxKeys  \* bounds: proofs per account, versions of a key

ASSUME ZkAssumption == IsFiniteSet(Provers) /\ ProofValidity \in Nat /\ MaxProofs \in Nat

VARIABLES
  proofs,       \* zk_proofs, by account
  keys,         \* verification_keys; version 0 is none
  reviewers,    \* approved_verifiers
  stats,        \* verification_stats
  summary,      \* zk_compliance_data: proof ids and status
  privacy       \* privacy_preferences: the level

zkVars == <<proofs, keys, reviewers, stats, summary, privacy>>

ZkInit ==
  /\ proofs = [p \in Provers |-> <<>>]
  /\ keys = [t \in ProofTypes |-> [version |-> 0, active |-> FALSE]]
  /\ reviewers = {} /\ stats = [ok |-> 0, failed |-> 0, total |-> 0]
  /\ summary = [p \in Provers |-> [ids |-> <<>>, status |-> NotSubmitted]]
  /\ privacy = [p \in Provers |-> 3]

\* The newest proof of a type decides, a pending one too.
ProofValid(p, t) ==
  LET newest == SelectLastInSeq(proofs[p], LAMBDA q : q.type = t)
  IN  newest > 0 /\ proofs[p][newest].status = "Verified" /\ proofs[p][newest].expires > now

NewProof(t, version, status) ==
  [type |-> t, key |-> version, status |-> status, expires |-> now + ProofValidity]

SubmitZkProof(p, t, version) ==
  /\ proofs' = [proofs EXCEPT ![p] = Append(@, NewProof(t, version, "Pending"))]
  /\ UNCHANGED <<keys, reviewers, stats, summary, privacy>>

-----------------------------------------------------------------------------
(* Verdicts.                                                               *)

\* perform_zk_verification: an Err without an active key.
HasKey(t) == keys[t].version > 0 /\ keys[t].active
Verifies(t, version) == keys[t].version = version

Count(ok) ==
  stats' = [ok |-> stats.ok + IF ok THEN 1 ELSE 0,
            failed |-> stats.failed + IF ok THEN 0 ELSE 1, total |-> stats.total + 1]

\* update_compliance_data: it takes the newest proof for the one decided.
UpdateComplianceData(p) ==
  summary' = [summary EXCEPT ![p] =
    [ids |-> Append(@.ids, Len(proofs'[p])), status |-> Last(proofs'[p]).status]]

\* Mutant: a verifier decides a proof again.
VerifyZkProof_Again(by, p, id, approve) ==
  LET q == proofs[p][id]
      ok == approve /\ Verifies(q.type, q.key)
  IN  /\ by \in reviewers
      /\ approve => HasKey(q.type)
      /\ proofs' = [proofs EXCEPT ![p][id].status = IF ok THEN "Verified" ELSE "Rejected"]
      /\ Count(ok) /\ UpdateComplianceData(p)
      /\ UNCHANGED <<keys, reviewers, privacy>>

VerifyZkProof(by, p, id, approve) ==
  LET q == proofs[p][id]
      ok == approve /\ Verifies(q.type, q.key)
  IN  /\ by \in reviewers /\ q.status = "Pending"
      /\ approve => HasKey(q.type)
      /\ proofs' = [proofs EXCEPT ![p][id].status = IF ok THEN "Verified" ELSE "Rejected"]
      /\ Count(ok) /\ UpdateComplianceData(p)
      /\ UNCHANGED <<keys, reviewers, privacy>>

\* verify_and_store_proof, of the seven verify_*_zk messages.
SelfVerify(p, t, version) ==
  /\ HasKey(t) /\ Verifies(t, version)
  /\ proofs' = [proofs EXCEPT ![p] = Append(@, NewProof(t, version, "Verified"))]
  /\ Count(TRUE) /\ UpdateComplianceData(p)
  /\ UNCHANGED <<keys, reviewers, privacy>>

-----------------------------------------------------------------------------
(* Keys, verifiers and privacy.                                            *)

\* set_verification_key and rotate_verification_key.
SetVerificationKey(t) ==
  /\ keys' = [keys EXCEPT ![t] = [version |-> @.version + 1, active |-> TRUE]]
  /\ UNCHANGED <<proofs, reviewers, stats, summary, privacy>>

DeactivateVerificationKey(t) ==
  /\ keys[t].version > 0
  /\ keys' = [keys EXCEPT ![t].active = FALSE]
  /\ UNCHANGED <<proofs, reviewers, stats, summary, privacy>>

AddApprovedVerifier(by) ==
  reviewers' = reviewers \union {by} /\ UNCHANGED <<proofs, keys, stats, summary, privacy>>
RemoveApprovedVerifier(by) ==
  reviewers' = reviewers \ {by} /\ UNCHANGED <<proofs, keys, stats, summary, privacy>>

\* update_privacy_preferences and set_privacy_controls.
SetPrivacy(p, level) ==
  /\ level <= 5
  /\ privacy' = [privacy EXCEPT ![p] = level]
  /\ UNCHANGED <<proofs, keys, reviewers, stats, summary>>

ZkNext ==
  \/ \E p \in Provers :
       \/ /\ Len(proofs[p]) < MaxProofs
          /\ \E t \in ProofTypes, version \in 1 .. MaxKeys :
               SubmitZkProof(p, t, version) \/ SelfVerify(p, t, version)
       \/ \E by \in Reviewers, id \in DOMAIN proofs[p], approve \in BOOLEAN :
            Len(summary[p].ids) < MaxProofs + 1 /\ VerifyZkProof(by, p, id, approve)
       \/ \E level \in PrivacyLevels : SetPrivacy(p, level)
  \/ \E t \in ProofTypes :
       \/ keys[t].version < MaxKeys /\ SetVerificationKey(t)
       \/ DeactivateVerificationKey(t)
  \/ \E by \in Reviewers : AddApprovedVerifier(by) \/ RemoveApprovedVerifier(by)

ZkStep == (ZkNext /\ UNCHANGED now) \/ (Tick /\ UNCHANGED zkVars)

ZkSpec == now = 0 /\ ZkInit /\ [][ZkStep]_<<now, zkVars>>

-----------------------------------------------------------------------------
\* The statistics count each proof once, under the verdict it has.
StatsMatchProofs ==
  LET Having(status) ==
        Cardinality({x \in Provers \X (1 .. MaxProofs) :
                       x[2] \in DOMAIN proofs[x[1]] /\ proofs[x[1]][x[2]].status = status})
  IN  /\ stats.ok = Having("Verified") /\ stats.failed = Having("Rejected")
      /\ stats.total = stats.ok + stats.failed

\* A valid proof stays valid until it expires or its holder sends a newer one
\* of its type: no verdict on another proof, no key rotated or deactivated
\* and no verifier that goes takes it away.  The statistics keep up with it.
VerdictsStand ==
  [][/\ StatsMatchProofs'
     /\ \A p \in Provers, t \in ProofTypes :
          ProofValid(p, t) /\ ~ProofValid(p, t)' =>
            now' > now \/ Len(proofs'[p]) > Len(proofs[p])]_<<now, zkVars>>
=============================================================================
