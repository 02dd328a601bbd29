-------------------------- MODULE ComplianceRegistry --------------------------
(***************************************************************************)
(* The ink! compliance registry (contracts/compliance_registry/lib.rs):    *)
(* customers verified by KYC officers, checked against AML and sanctions   *)
(* lists, with the consent, expiry and retention that is_compliant asks    *)
(* for, and the audit trail of it all.  Hashes, lists and reports are left *)
(* out; the rules are those of one jurisdiction.                           *)
(***************************************************************************)
EXTENDS Ledger, SequencesExt

CONSTANTS
  Customers,
  NoFile,           \* no compliance_data of a customer
  Officers,         \* accounts that may be verifiers
  RegistryOwner,
  Rules,            \* [level, retention] offered to update_jurisdiction_rules
  DefaultRules,     \* of init_default_jurisdiction_rules
  Documents,        \* [document, biometric, score] offered
  RiskLevels,       \* risk levels offered by an officer
  Factors,          \* [count, funds]: AML risk factors set, source of funds verified
  Validity,         \* one year
  MaxAudit, MaxKycRequests  \* bounds

ASSUME RegistryAssumption ==
  /\ RegistryOwner \in Officers
  /\ {DefaultRules} \union Rules \subseteq [level : Nat, retention : Nat]
  /\ Validity \in Nat

VARIABLES
  file,         \* compliance_data
  audit,        \* audit_logs: the actions of each customer's entries
  kycRequests,  \* verification_requests
  verifiers,
  rules         \* jurisdiction_rules

registryVars == <<file, audit, kycRequests, verifiers, rules>>

RegistryInit ==
  /\ file = [c \in Customers |-> NoFile] /\ audit = [c \in Customers |-> <<>>]
  /\ kycRequests = <<>> /\ verifiers = {RegistryOwner} /\ rules = DefaultRules

IsOnFile(c) == file[c] # NoFile

\* log_audit_event: 0 is a verification, 1 AML, 2 sanctions, 3 consent.
LogAudit(c, action) == audit' = [audit EXCEPT ![c] = Append(@, action)]

VerificationLevel(d) ==
  LET level == 1 + d.document + d.biometric
      scored == IF d.score < 20 THEN level + 1
                ELSE IF d.score > 80 THEN Monus(level, 2) ELSE level
  IN  IF scored > 5 THEN 5 ELSE scored

IsCompliant(c) ==
  /\ IsOnFile(c)
  /\ LET f == file[c]
     IN  /\ f.status = "Verified" /\ f.expiry > now /\ f.risk # "Prohibited"
         /\ f.aml /\ f.sanctions /\ f.consent = "Given" /\ now <= f.retention

\* check_transaction_compliance: for every operation what it asks beyond
\* is_compliant is part of is_compliant.
TransactionAllowed(c) == IsCompliant(c) /\ file[c].aml /\ file[c].sanctions

-----------------------------------------------------------------------------
(* Verification.                                                           *)

\* Mutant: the checks made of an earlier verification still count.
Verify_ChecksKept(by, c, risk, d) ==
  /\ by \in verifiers /\ d.score <= 100 /\ VerificationLevel(d) >= rules.level
  /\ file' = [file EXCEPT ![c] =
       [status |-> "Verified", risk |-> risk, expiry |-> now + Validity,
        retention |-> now + rules.retention,
        aml |-> IsOnFile(c) /\ file[c].aml, sanctions |-> IsOnFile(c) /\ file[c].sanctions,
        consent |-> IF IsOnFile(c) THEN file[c].consent ELSE "NotGiven"]]
  /\ LogAudit(c, 0)

Verify(by, c, risk, d) ==
  /\ by \in verifiers /\ d.score <= 100 /\ VerificationLevel(d) >= rules.level
  /\ file' = [file EXCEPT ![c] =
       [status |-> "Verified", risk |-> risk, expiry |-> now + Validity,
        retention |-> now + rules.retention,
        aml |-> FALSE, sanctions |-> FALSE, consent |-> "NotGiven"]]
  /\ LogAudit(c, 0)

SubmitVerification(by, c, risk, d) ==
  Verify(by, c, risk, d) /\ UNCHANGED <<kycRequests, verifiers, rules>>

\* One pending request per customer.
CreateVerificationRequest(c) ==
  /\ \A i \in DOMAIN kycRequests : kycRequests[i].account = c => kycRequests[i].done
  /\ kycRequests' = Append(kycRequests, [account |-> c, done |-> FALSE])
  /\ UNCHANGED <<file, audit, verifiers, rules>>

ProcessVerificationRequest(by, id, risk, d) ==
  /\ ~kycRequests[id].done
  /\ Verify(by, kycRequests[id].account, risk, d)
  /\ kycRequests' = [kycRequests EXCEPT ![id].done = TRUE]
  /\ UNCHANGED <<verifiers, rules>>

\* revoke_verification: the audit trail says nothing of it.
RevokeVerification(by, c) ==
  /\ by \in verifiers /\ IsOnFile(c)
  /\ file' = [file EXCEPT ![c].status = "Rejected"]
  /\ UNCHANGED <<audit, kycRequests, verifiers, rules>>

-----------------------------------------------------------------------------
(* Checks.                                                                 *)

\* The file after an AML check; one that a factor is found in can lower
\* the risk it had.
AfterAml(f, passed, count) ==
  IF ~passed \/ count >= 3
  THEN [f EXCEPT !.aml = passed, !.status = "Rejected", !.risk = "Prohibited"]
  ELSE [f EXCEPT !.aml = passed,
                 !.risk = IF count >= 2 THEN "High" ELSE IF count = 1 THEN "Medium" ELSE @]

UpdateAmlStatus(by, c, passed, factors) ==
  /\ by \in verifiers /\ IsOnFile(c)
  /\ file' = [file EXCEPT ![c] = AfterAml(@, passed, factors.count)]
  /\ LogAudit(c, 1)
  /\ UNCHANGED <<kycRequests, verifiers, rules>>

AfterSanctions(f, passed) ==
  IF passed THEN [f EXCEPT !.sanctions = TRUE]
  ELSE [f EXCEPT !.sanctions = FALSE, !.status = "Rejected", !.risk = "Prohibited"]

UpdateSanctionsStatus(by, c, passed) ==
  /\ by \in verifiers /\ IsOnFile(c)
  /\ file' = [file EXCEPT ![c] = AfterSanctions(@, passed)]
  /\ LogAudit(c, 2)
  /\ UNCHANGED <<kycRequests, verifiers, rules>>

\* The batches, of a set of customers.  The AML batch passes over those
\* that are not on file, the sanctions batch fails on one.
BatchAmlCheck(by, factorsOf) ==
  LET checked == {c \in DOMAIN factorsOf : IsOnFile(c)}
      Passed(f) == f.count < 3 /\ f.funds
  IN  /\ by \in verifiers
      /\ file' = [c \in Customers |->
           IF c \in checked
           THEN AfterAml(file[c], Passed(factorsOf[c]), factorsOf[c].count) ELSE file[c]]
      /\ audit' = [c \in Customers |-> IF c \in checked THEN Append(audit[c], 1) ELSE audit[c]]
      /\ UNCHANGED <<kycRequests, verifiers, rules>>

BatchSanctionsCheck(by, passedOf) ==
  /\ by \in verifiers /\ \A c \in DOMAIN passedOf : IsOnFile(c)
  /\ file' = [c \in Customers |->
       IF c \in DOMAIN passedOf THEN AfterSanctions(file[c], passedOf[c]) ELSE file[c]]
  /\ audit' = [c \in Customers |->
       IF c \in DOMAIN passedOf THEN Append(audit[c], 2) ELSE audit[c]]
  /\ UNCHANGED <<kycRequests, verifiers, rules>>

-----------------------------------------------------------------------------
(* Consent and administration.                                             *)

UpdateConsent(by, c, consent) ==
  /\ by \in {c} \union verifiers /\ IsOnFile(c)
  /\ file' = [file EXCEPT ![c].consent = consent]
  /\ LogAudit(c, 3)
  /\ UNCHANGED <<kycRequests, verifiers, rules>>

\* request_data_deletion: once the retention is over and consent withdrawn,
\* the file is marked as expired.
RequestDataDeletion(c) ==
  /\ IsOnFile(c) /\ now > file[c].retention /\ file[c].consent = "Withdrawn"
  /\ file' = [file EXCEPT ![c].status = "Expired"]
  /\ UNCHANGED <<audit, kycRequests, verifiers, rules>>

\* add_verifier, and register_service_provider of a KYC or full service.
AddVerifier(o) ==
  /\ verifiers' = verifiers \union {o}
  /\ UNCHANGED <<file, audit, kycRequests, rules>>

UpdateJurisdictionRules(r) ==
  /\ rules' = r /\ UNCHANGED <<file, audit, kycRequests, verifiers>>

AuditRoom(n) == FoldFunctionOnSet(LAMBDA log, total : total + Len(log), 0, audit, Customers)
                + n <= MaxAudit

RegistryNext ==
  \/ \E by \in Officers :
       \/ AuditRoom(1) /\ \E c \in Customers :
            \/ \E risk \in RiskLevels, d \in Documents : SubmitVerification(by, c, risk, d)
            \/ \E passed \in BOOLEAN :
                 \/ UpdateSanctionsStatus(by, c, passed)
                 \/ \E factors \in Factors : UpdateAmlStatus(by, c, passed, factors)
       \/ \E c \in Customers : RevokeVerification(by, c)
       \/ AuditRoom(1) /\ \E id \in DOMAIN kycRequests, risk \in RiskLevels, d \in Documents :
            ProcessVerificationRequest(by, id, risk, d)
       \/ AuditRoom(Cardinality(Customers)) /\ \E factorsOf \in [Customers -> Factors] :
            BatchAmlCheck(by, factorsOf)
       \/ AuditRoom(Cardinality(Customers)) /\ \E passedOf \in [Customers -> BOOLEAN] :
            BatchSanctionsCheck(by, passedOf)
       \/ AddVerifier(by)
  \/ \E c \in Customers, by \in Customers \union Officers, consent \in {"Given", "Withdrawn"} :
       AuditRoom(1) /\ UpdateConsent(by, c, consent)
  \/ \E c \in Customers :
       \/ RequestDataDeletion(c)
       \/ Len(kycRequests) < MaxKycRequests /\ CreateVerificationRequest(c)
  \/ \E r \in Rules : UpdateJurisdictionRules(r)

RegistryStep == (RegistryNext /\ UNCHANGED now) \/ (Tick /\ UNCHANGED registryVars)

RegistrySpec == now = 0 /\ RegistryInit /\ [][RegistryStep]_<<now, registryVars>>

-----------------------------------------------------------------------------
\* A transaction is allowed only on the strength of the last verification:
\* the audit trail shows an AML check, a sanctions check and a consent after
\* it.  Checks made of an earlier verification never count for a later one.
CompliantIsAudited ==
  \A c \in Customers : TransactionAllowed(c) =>
    LET last == SelectLastInSeq(audit[c], LAMBDA a : a = 0)
    IN  /\ last > 0
        /\ \A action \in 1 .. 3 : \E i \in last + 1 .. Len(audit[c]) : audit[c][i] = action
=============================================================================
