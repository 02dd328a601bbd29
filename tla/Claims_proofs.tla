---------------------------- MODULE Claims_proofs ----------------------------
(***************************************************************************)
(* TLAPS proofs about the insurance core (Claims with Policy), for any     *)
(* accounts, coverages, patches, amounts and integer widths.               *)
(***************************************************************************)
EXTENDS Claims, Operators_proofs

\* What the entry points of Claims and Policy rely on when they read the
\* storage.  Inductive.
ClaimsInv == ClaimsTypeOK /\ ClaimedWithinCoverage /\ LockIsTheOpenClaim

\* Its part about the policies.
PoliciesOK == PolicyTypeOK /\ ClaimedWithinCoverage

\* Its part about the claims and their locks, the lock invariant split into
\* its two directions: an open claim is locked, a lock names an open claim.
RecordsOK ==
  /\ claims \in Seq(ClaimRecord)
  /\ \A c \in DOMAIN claims : claims[c].policy \in DOMAIN policies
  /\ DOMAIN activeClaim \subseteq DOMAIN policies
  /\ \A id \in DOMAIN activeClaim : activeClaim[id] \in DOMAIN claims
  /\ claimsAdmin \in BOOLEAN

LocksOK ==
  /\ \A c \in DOMAIN claims : claims[c].status \in Open =>
       /\ claims[c].policy \in DOMAIN activeClaim
       /\ activeClaim[claims[c].policy] = c
  /\ \A id \in DOMAIN activeClaim :
       /\ claims[activeClaim[id]].policy = id
       /\ claims[activeClaim[id]].status \in Open

\* One policy in order.
RecordOK(p) ==
  /\ p \in PolicyRecord
  /\ p.start <= now
  /\ p.totalClaimed \in I128
  /\ p.totalClaimed <= p.coverage \/ p.totalClaimed <= 0

-----------------------------------------------------------------------------
(* A wrapped sum of two i128 values is an i128 value. *)
LEMMA WrappingRange ==
  ASSUME NEW x \in I128, NEW y \in I128 PROVE WrappingAdd(x, y) \in I128
  BY LedgerAssumption DEF WrappingAdd, I128

(* A wrapped sum of two durations is a u32. *)
LEMMA DurationRange ==
  ASSUME NEW x \in Nat, NEW y \in Nat
  PROVE  (x + y) % (U32Max + 1) \in 0 .. U32Max
<1> DEFINE s == x + y
           m == U32Max + 1
<1>1. s \in Nat /\ m \in Nat /\ m > 0
  BY PolicyAssumption
<1>2. s % m \in 0 .. (m - 1)
  <2> HIDE DEF s, m
  <2> QED
    BY <1>1
<1> QED
  BY <1>2, PolicyAssumption

(* The invariant of the policies, policy by policy. *)
LEMMA PolicyFacts ==
  PoliciesOK => /\ now \in 0 .. MaxTime
                /\ policies \in Seq(PolicyRecord)
                /\ \A id \in DOMAIN policies : RecordOK(policies[id])
<1> SUFFICES ASSUME PoliciesOK, NEW id \in DOMAIN policies
             PROVE  RecordOK(policies[id])
  BY DEF PoliciesOK, PolicyTypeOK
<1>1. policies[id] \in PolicyRecord
  BY DEF PoliciesOK, PolicyTypeOK
<1> QED
  BY <1>1 DEF PoliciesOK, PolicyTypeOK, ClaimedWithinCoverage, RecordOK

(* Whoever keeps every policy in order keeps the invariant of the policies. *)
LEMMA PoliciesKept ==
  ASSUME PoliciesOK, UNCHANGED now,
         policies' \in Seq(PolicyRecord),
         \A id \in DOMAIN policies' : RecordOK(policies'[id]),
         policyParams' \in [maxCoverage : Int, minPremium : Int],
         policyAdmin' \in BOOLEAN, claimsRegistered' \in BOOLEAN,
         governanceRegistered' \in BOOLEAN
  PROVE  PoliciesOK'
<1>1. PolicyTypeOK'
  BY DEF PoliciesOK, PolicyTypeOK, RecordOK
<1>2. ClaimedWithinCoverage'
  BY DEF ClaimedWithinCoverage, RecordOK
<1> QED
  BY <1>1, <1>2 DEF PoliciesOK

(* A step that replaces one policy by another in order keeps it, too. *)
LEMMA PolicyReplaced ==
  ASSUME PoliciesOK, UNCHANGED <<now, policyParams, policyWiring>>,
         NEW id \in DOMAIN policies, NEW p, RecordOK(p),
         policies' = [policies EXCEPT ![id] = p]
  PROVE  PoliciesOK'
<1>1. p \in PolicyRecord
  BY DEF RecordOK
<1>2. /\ policies' \in Seq(PolicyRecord)
      /\ \A i \in DOMAIN policies' : RecordOK(policies'[i])
  BY <1>1, PolicyFacts
<1>3. /\ policyParams' \in [maxCoverage : Int, minPremium : Int]
      /\ policyAdmin' \in BOOLEAN /\ claimsRegistered' \in BOOLEAN
      /\ governanceRegistered' \in BOOLEAN
  BY DEF PoliciesOK, PolicyTypeOK, policyWiring
<1> QED
  BY <1>2, <1>3, PoliciesKept

-----------------------------------------------------------------------------
(* The entry points of the policy contract, one by one.                    *)

(* issue_policy: nothing is claimed on a new policy. *)
LEMMA IssueInv ==
  ASSUME PoliciesOK, UNCHANGED now, NEW h \in Holders, NEW c \in Coverages,
         NEW m, NEW d \in Durations, IssuePolicy(h, c, m, d)
  PROVE  PoliciesOK'
<1> DEFINE p == [ holder |-> h, coverage |-> c, start |-> now, duration |-> d,
                  status |-> "Active", totalClaimed |-> 0 ]
<1>1. RecordOK(p)
  <2>1. /\ c \in Int /\ d \in 0 .. U32Max /\ now \in Nat /\ 0 \in I128
    BY PolicyAssumption, LedgerAssumption, PolicyFacts DEF I128
  <2>2. p \in PolicyRecord
    BY <2>1 DEF PolicyRecord, PolicyStatus
  <2> QED
    BY <2>1, <2>2 DEF RecordOK
<1> HIDE DEF p
<1>2. policies' = Append(policies, p)
  BY DEF IssuePolicy, p
<1>3. p \in PolicyRecord
  BY <1>1 DEF RecordOK
<1>4. /\ policies' \in Seq(PolicyRecord)
      /\ \A i \in DOMAIN policies' :
           (i \in DOMAIN policies /\ policies'[i] = policies[i]) \/ policies'[i] = p
  BY <1>2, <1>3, PolicyFacts
<1>5. \A i \in DOMAIN policies' : RecordOK(policies'[i])
  BY <1>1, <1>4, PolicyFacts
<1>6. /\ policyParams' \in [maxCoverage : Int, minPremium : Int]
      /\ policyAdmin' \in BOOLEAN /\ claimsRegistered' \in BOOLEAN
      /\ governanceRegistered' \in BOOLEAN
  BY DEF IssuePolicy, PoliciesOK, PolicyTypeOK, policyWiring
<1> QED
  BY <1>4, <1>5, <1>6, PoliciesKept

(* renew_policy, cancel_policy and expire_policy touch neither sum. *)
LEMMA LifecycleInv ==
  ASSUME PoliciesOK, UNCHANGED now, NEW id \in DOMAIN policies,
         \/ \E d \in Durations : RenewPolicy(id, d)
         \/ CancelPolicy(id)
         \/ ExpirePolicy(id)
  PROVE  PoliciesOK'
<1>1. RecordOK(policies[id])
  BY PolicyFacts
<1>2. CASE \E d \in Durations : RenewPolicy(id, d)
  <2> PICK d \in Durations : RenewPolicy(id, d)
    BY <1>2
  <2> DEFINE n == (policies[id].duration + d) % (U32Max + 1)
             p == [policies[id] EXCEPT !.duration = n, !.status = "Renewed"]
  <2>1. n \in 0 .. U32Max
    <3>1. policies[id].duration \in Nat /\ d \in Nat
      BY <1>1, PolicyAssumption DEF RecordOK, PolicyRecord
    <3> QED
      BY <3>1, DurationRange
  <2>2. /\ policies' = [policies EXCEPT ![id] = p]
        /\ UNCHANGED <<policyParams, policyWiring>>
    BY <1>1, PolicyFacts DEF RenewPolicy, RecordOK, PolicyRecord
  <2> HIDE DEF n
  <2>3. RecordOK(p)
    BY <1>1, <2>1 DEF RecordOK, PolicyRecord, PolicyStatus
  <2> QED
    BY <2>2, <2>3, PolicyReplaced
<1>3. CASE CancelPolicy(id) \/ ExpirePolicy(id)
  <2>1. PICK s \in {"Cancelled", "Expired"} :
          /\ policies' = [policies EXCEPT ![id] = [policies[id] EXCEPT !.status = s]]
          /\ UNCHANGED <<policyParams, policyWiring>>
    BY <1>3 DEF CancelPolicy, ExpirePolicy
  <2>2. RecordOK([policies[id] EXCEPT !.status = s])
    BY <1>1 DEF RecordOK, PolicyRecord, PolicyStatus
  <2> QED
    BY <2>1, <2>2, PolicyReplaced
<1> QED
  BY <1>2, <1>3

(* apply_governance_update: a new coverage is at least what was claimed. *)
LEMMA PatchInv ==
  ASSUME PoliciesOK, UNCHANGED now, NEW id \in DOMAIN policies,
         NEW patch \in Patches, ApplyGovernanceUpdate(id, patch)
  PROVE  PoliciesOK'
<1> DEFINE q == policies[id]
           p == Patched(q, patch)
<1>1. RecordOK(q) /\ patch \in PolicyPatch
  BY PolicyFacts, PolicyAssumption
<1>2. /\ policies' = [policies EXCEPT ![id] = p]
      /\ UNCHANGED <<policyParams, policyWiring>>
      /\ CoveragePatchAccepted(q, patch.coverage)
  BY DEF ApplyGovernanceUpdate
<1> HIDE DEF q
<1>3. /\ p \in PolicyRecord
      /\ p.start = q.start /\ p.totalClaimed = q.totalClaimed
      /\ p.coverage = IF patch.coverage = Keep THEN q.coverage ELSE patch.coverage
  <2> DEFINE c == IF patch.coverage = Keep THEN q.coverage ELSE patch.coverage
             s == IF patch.status = Keep THEN q.status ELSE patch.status
  <2>1. q \in PolicyRecord
    BY <1>1 DEF RecordOK
  <2>2. c \in Int /\ s \in PolicyStatus
    BY <1>1, <2>1 DEF PolicyRecord, PolicyPatch, I128
  <2>3. p = [q EXCEPT !.coverage = c, !.status = s]
    BY <2>1 DEF Patched, PolicyRecord
  <2> HIDE DEF c, s, p
  <2>4. p \in PolicyRecord /\ p.start = q.start
        /\ p.totalClaimed = q.totalClaimed /\ p.coverage = c
    BY <2>1, <2>2, <2>3 DEF PolicyRecord
  <2> QED
    BY <2>4 DEF c
<1>4. RecordOK(p)
  BY <1>1, <1>2, <1>3 DEF RecordOK, CoveragePatchAccepted
<1> HIDE DEF p
<1> QED
  BY <1>2, <1>4, PolicyReplaced

(* update_claimed: the sum is compared with the coverage as it is stored, *)
(* wrapped or not.                                                        *)
LEMMA UpdateInv ==
  ASSUME PoliciesOK, UNCHANGED now, NEW id \in DOMAIN policies,
         NEW n \in I128, UpdateClaimed(id, n)
  PROVE  PoliciesOK'
<1> DEFINE q == policies[id]
           t == WrappingAdd(q.totalClaimed, n)
           p == [q EXCEPT !.totalClaimed = t]
<1>1. RecordOK(q)
  BY PolicyFacts
<1>2. /\ policies' = [policies EXCEPT ![id] = p]
      /\ UNCHANGED <<policyParams, policyWiring>>
      /\ t <= q.coverage
  BY DEF UpdateClaimed
<1>3. t \in I128
  BY <1>1, WrappingRange DEF RecordOK
<1> HIDE DEF t, q
<1>4. RecordOK(p)
  BY <1>1, <1>2, <1>3 DEF RecordOK, PolicyRecord, I128
<1> HIDE DEF p
<1> QED
  BY <1>2, <1>4, PolicyReplaced

(* Wiring and governed parameters change no policy. *)
LEMMA WiringInv ==
  ASSUME PoliciesOK, UNCHANGED now,
         \/ PolicySetRole \/ SetClaimsContract \/ SetGovernanceContract
         \/ \E c \in Coverages, m \in Premiums : ApplyGovernanceParams(c, m)
  PROVE  PoliciesOK'
<1>1. policies' = policies
  BY DEF PolicySetRole, SetClaimsContract, SetGovernanceContract,
         ApplyGovernanceParams
<1>2. /\ policyAdmin' \in BOOLEAN /\ claimsRegistered' \in BOOLEAN
      /\ governanceRegistered' \in BOOLEAN
  BY DEF PolicySetRole, SetClaimsContract, SetGovernanceContract,
         ApplyGovernanceParams, policyWiring, PoliciesOK, PolicyTypeOK
<1>3. policyParams' \in [maxCoverage : Int, minPremium : Int]
  BY PolicyAssumption
  DEF PolicySetRole, SetClaimsContract, SetGovernanceContract,
      ApplyGovernanceParams, PoliciesOK, PolicyTypeOK, I128
<1> QED
  BY <1>1, <1>2, <1>3, PolicyFacts, PoliciesKept

-----------------------------------------------------------------------------
(* The claims and their locks.                                             *)

(* The two directions together are LockIsTheOpenClaim. *)
LEMMA LockForms ==
  ASSUME RecordsOK PROVE LockIsTheOpenClaim <=> LocksOK
<1>1. ASSUME LockIsTheOpenClaim PROVE LocksOK
  <2>1. ASSUME NEW c \in DOMAIN claims, claims[c].status \in Open
        PROVE  /\ claims[c].policy \in DOMAIN activeClaim
               /\ activeClaim[claims[c].policy] = c
    <3> DEFINE id == claims[c].policy
               open == {d \in DOMAIN claims :
                          claims[d].policy = id /\ claims[d].status \in Open}
    <3>1. id \in DOMAIN policies
      BY DEF RecordsOK
    <3>2. c \in open
      BY <2>1
    <3>3. IF id \in DOMAIN activeClaim THEN open = {activeClaim[id]} ELSE open = {}
      BY <3>1, <1>1 DEF LockIsTheOpenClaim
    <3> QED
      BY <3>2, <3>3
  <2>2. ASSUME NEW id \in DOMAIN activeClaim
        PROVE  /\ claims[activeClaim[id]].policy = id
               /\ claims[activeClaim[id]].status \in Open
    <3>1. id \in DOMAIN policies
      BY DEF RecordsOK
    <3>2. activeClaim[id] \in {d \in DOMAIN claims :
                               claims[d].policy = id /\ claims[d].status \in Open}
      BY <3>1, <1>1 DEF LockIsTheOpenClaim
    <3> QED
      BY <3>2
  <2> QED
    BY <2>1, <2>2 DEF LocksOK
<1>2. ASSUME LocksOK PROVE LockIsTheOpenClaim
  <2> SUFFICES ASSUME NEW id \in DOMAIN policies
               PROVE  LET open == {c \in DOMAIN claims :
                         claims[c].policy = id /\ claims[c].status \in Open}
                      IN  IF id \in DOMAIN activeClaim
                          THEN open = {activeClaim[id]} ELSE open = {}
    BY DEF LockIsTheOpenClaim
  <2>1. CASE id \in DOMAIN activeClaim
    BY <1>2, <2>1 DEF LocksOK, RecordsOK
  <2>2. CASE id \notin DOMAIN activeClaim
    BY <1>2, <2>2 DEF LocksOK, RecordsOK
  <2> QED
    BY <2>1, <2>2
<1> QED
  BY <1>1, <1>2

(* ClaimsInv is the three parts. *)
LEMMA ClaimsInvParts ==
  /\ ClaimsInv => PoliciesOK /\ RecordsOK /\ LocksOK
  /\ PoliciesOK /\ RecordsOK /\ LocksOK => ClaimsInv
<1>1. ASSUME ClaimsInv PROVE PoliciesOK /\ RecordsOK /\ LocksOK
  <2>1. PoliciesOK /\ RecordsOK
    BY <1>1 DEF ClaimsInv, ClaimsTypeOK, PoliciesOK, RecordsOK
  <2> QED
    BY <1>1, <2>1, LockForms DEF ClaimsInv
<1>2. ASSUME PoliciesOK, RecordsOK, LocksOK PROVE ClaimsInv
  <2>1. ClaimsTypeOK /\ ClaimedWithinCoverage
    BY <1>2 DEF ClaimsTypeOK, PoliciesOK, RecordsOK
  <2> QED
    BY <1>2, <2>1, LockForms DEF ClaimsInv
<1> QED
  BY <1>1, <1>2

(* The same of the next state. *)
LEMMA ClaimsInvPartsNext == PoliciesOK' /\ RecordsOK' /\ LocksOK' => ClaimsInv'
  BY ClaimsInvParts, PTL

(* Policies are never removed, so a step of them alone keeps the records. *)
LEMMA ClaimsUntouched ==
  ASSUME RecordsOK, LocksOK, UNCHANGED claimsVars,
         DOMAIN policies \subseteq DOMAIN policies'
  PROVE  RecordsOK' /\ LocksOK'
  BY DEF RecordsOK, LocksOK, claimsVars

(* submit_claim: the policy had no lock, hence no open claim. *)
LEMMA SubmitInv ==
  ASSUME PoliciesOK, RecordsOK, LocksOK, UNCHANGED policies,
         NEW id \in DOMAIN policies, NEW n \in ClaimAmounts, SubmitClaim(id, n)
  PROVE  RecordsOK' /\ LocksOK'
<1> DEFINE k == Len(claims) + 1
           r == [ policy |-> id, claimant |-> policies[id].holder,
                  amount |-> n, status |-> "Submitted" ]
<1>1. /\ RecordOK(policies[id])
      /\ id \in Nat \ {0}
      /\ n \in I128
  BY PolicyFacts, ClaimsAssumption
<1>2. r \in ClaimRecord
  BY <1>1 DEF RecordOK, PolicyRecord, ClaimRecord, ClaimStatus
<1>3. /\ claims \in Seq(ClaimRecord) /\ claims' = Append(claims, r)
      /\ claimsAdmin' = claimsAdmin /\ id \notin DOMAIN activeClaim
  BY DEF RecordsOK, SubmitClaim
<1>4. r.policy = id /\ r.status \in Open
  BY DEF Open
<1> HIDE DEF r
<1>5. /\ claims' \in Seq(ClaimRecord)
      /\ DOMAIN claims' = DOMAIN claims \union {k}
      /\ k \notin DOMAIN claims
      /\ claims'[k] = r
      /\ \A c \in DOMAIN claims : claims'[c] = claims[c]
      /\ Len(claims') = k
  BY <1>2, <1>3
<1>6. /\ DOMAIN activeClaim' = DOMAIN activeClaim \union {id}
      /\ activeClaim'[id] = k
      /\ \A p \in DOMAIN activeClaim : activeClaim'[p] = activeClaim[p]
  BY <1>3, <1>5 DEF SubmitClaim, Locked
<1> HIDE DEF k
<1>7. RecordsOK'
  BY <1>3, <1>4, <1>5, <1>6 DEF RecordsOK
<1>8. LocksOK'
  <2>1. ASSUME NEW c \in DOMAIN claims', claims'[c].status \in Open
        PROVE  /\ claims'[c].policy \in DOMAIN activeClaim'
               /\ activeClaim'[claims'[c].policy] = c
    <3>1. CASE c = k
      BY <3>1, <1>4, <1>5, <1>6
    <3>2. CASE c \in DOMAIN claims
      BY <3>2, <2>1, <1>5, <1>6 DEF LocksOK
    <3> QED
      BY <3>1, <3>2, <1>5
  <2>2. ASSUME NEW p \in DOMAIN activeClaim'
        PROVE  /\ claims'[activeClaim'[p]].policy = p
               /\ claims'[activeClaim'[p]].status \in Open
    <3>1. CASE p = id
      BY <3>1, <1>4, <1>5, <1>6
    <3>2. CASE p \in DOMAIN activeClaim
      BY <3>2, <1>5, <1>6 DEF LocksOK, RecordsOK
    <3> QED
      BY <3>1, <3>2, <1>6
  <2> QED
    BY <2>1, <2>2 DEF LocksOK
<1> QED
  BY <1>7, <1>8

(* A claim with another status is still a claim of its policy. *)
LEMMA StatusStep ==
  ASSUME RecordsOK, NEW c \in DOMAIN claims, NEW s \in ClaimStatus,
         claims' = [claims EXCEPT ![c].status = s]
  PROVE  /\ claims' \in Seq(ClaimRecord)
         /\ DOMAIN claims' = DOMAIN claims
         /\ claims'[c].status = s
         /\ \A d \in DOMAIN claims : /\ claims'[d].policy = claims[d].policy
                                     /\ claims'[d].amount = claims[d].amount
                                     /\ claims'[d].claimant = claims[d].claimant
         /\ \A d \in DOMAIN claims : d # c => claims'[d] = claims[d]
<1> DEFINE r == [claims[c] EXCEPT !.status = s]
<1>1. claims \in Seq(ClaimRecord) /\ claims[c] \in ClaimRecord
  BY DEF RecordsOK
<1>2. /\ r \in ClaimRecord /\ r.status = s /\ r.policy = claims[c].policy
      /\ r.amount = claims[c].amount /\ r.claimant = claims[c].claimant
  BY <1>1 DEF ClaimRecord
<1>3. claims' = [claims EXCEPT ![c] = r]
  OBVIOUS
<1> HIDE DEF r
<1> QED
  BY <1>1, <1>2, <1>3

(* start_review and approve_claim move an open claim to an open status. *)
LEMMA ReviewInv ==
  ASSUME RecordsOK, LocksOK, UNCHANGED policies, NEW c \in DOMAIN claims,
         StartReview(c) \/ ApproveClaim(c)
  PROVE  RecordsOK' /\ LocksOK'
<1>1. PICK s \in Open \intersect ClaimStatus :
        claims' = [claims EXCEPT ![c].status = s]
  BY DEF StartReview, ApproveClaim, Open, ClaimStatus
<1>2. claims[c].status \in Open
  BY DEF StartReview, ApproveClaim, Open
<1>3. activeClaim' = activeClaim /\ claimsAdmin' = claimsAdmin
  BY DEF StartReview, ApproveClaim
<1>4. /\ claims' \in Seq(ClaimRecord)
      /\ DOMAIN claims' = DOMAIN claims
      /\ claims'[c].status = s
      /\ \A d \in DOMAIN claims : claims'[d].policy = claims[d].policy
      /\ \A d \in DOMAIN claims : d # c => claims'[d] = claims[d]
  BY <1>1, StatusStep
<1>5. RecordsOK'
  BY <1>3, <1>4 DEF RecordsOK
<1>6. \A d \in DOMAIN claims :
        claims'[d].status \in Open <=> claims[d].status \in Open
  BY <1>1, <1>2, <1>4
<1>7. LocksOK'
  BY <1>3, <1>4, <1>6 DEF LocksOK, RecordsOK
<1> QED
  BY <1>5, <1>7

(* reject_claim and settle_claim close the claim and remove its lock. *)
LEMMA CloseInv ==
  ASSUME RecordsOK, LocksOK, DOMAIN policies \subseteq DOMAIN policies',
         NEW c \in DOMAIN claims, claims[c].status \in Open,
         NEW s \in ClaimStatus \ Open,
         claims' = [claims EXCEPT ![c].status = s],
         activeClaim' = Unlocked(claims[c].policy), UNCHANGED claimsAdmin
  PROVE  RecordsOK' /\ LocksOK'
<1> DEFINE id == claims[c].policy
<1>1. id \in DOMAIN activeClaim /\ activeClaim[id] = c
  BY DEF LocksOK
<1>2. /\ claims' \in Seq(ClaimRecord)
      /\ DOMAIN claims' = DOMAIN claims
      /\ claims'[c].status = s
      /\ \A d \in DOMAIN claims : claims'[d].policy = claims[d].policy
      /\ \A d \in DOMAIN claims : d # c => claims'[d] = claims[d]
  BY StatusStep
<1>3. /\ DOMAIN activeClaim' = DOMAIN activeClaim \ {id}
      /\ \A p \in DOMAIN activeClaim' : activeClaim'[p] = activeClaim[p]
  BY DEF Unlocked
<1>4. RecordsOK'
  BY <1>2, <1>3 DEF RecordsOK
<1>5. ASSUME NEW d \in DOMAIN claims', claims'[d].status \in Open
      PROVE  /\ claims'[d].policy \in DOMAIN activeClaim'
             /\ activeClaim'[claims'[d].policy] = d
  <2>1. d # c /\ claims'[d] = claims[d]
    BY <1>2, <1>5
  <2>2. claims[d].policy \in DOMAIN activeClaim /\ activeClaim[claims[d].policy] = d
    BY <1>2, <1>5, <2>1 DEF LocksOK
  <2>3. claims[d].policy # id
    BY <1>1, <2>1, <2>2
  <2> QED
    BY <1>3, <2>1, <2>2, <2>3
<1>6. ASSUME NEW p \in DOMAIN activeClaim'
      PROVE  /\ claims'[activeClaim'[p]].policy = p
             /\ claims'[activeClaim'[p]].status \in Open
  <2>1. p \in DOMAIN activeClaim /\ p # id /\ activeClaim'[p] = activeClaim[p]
    BY <1>3
  <2>2. claims[activeClaim[p]].policy = p /\ claims[activeClaim[p]].status \in Open
    BY <2>1 DEF LocksOK
  <2>3. activeClaim[p] \in DOMAIN claims /\ activeClaim[p] # c
    BY <2>1, <2>2 DEF RecordsOK
  <2> QED
    BY <1>2, <2>1, <2>2, <2>3
<1> QED
  BY <1>4, <1>5, <1>6 DEF LocksOK

-----------------------------------------------------------------------------
(* The whole specification.                                                *)

(* The initial state satisfies the invariant. *)
LEMMA ClaimsInitInv == InsuranceInit => ClaimsInv
<1> SUFFICES ASSUME InsuranceInit PROVE PoliciesOK /\ RecordsOK /\ LocksOK
  BY ClaimsInvParts
<1>1. PoliciesOK
  <2>1. now = 0 /\ policies = <<>>
    BY DEF InsuranceInit, PolicyInit
  <2>2. policyParams \in [maxCoverage : Int, minPremium : Int]
    BY LedgerAssumption DEF InsuranceInit, PolicyInit
  <2>3. /\ policyAdmin \in BOOLEAN /\ claimsRegistered \in BOOLEAN
        /\ governanceRegistered \in BOOLEAN
    BY DEF InsuranceInit, PolicyInit
  <2>4. now \in 0 .. MaxTime
    BY <2>1, LedgerAssumption
  <2> QED
    BY <2>1, <2>2, <2>3, <2>4
    DEF PoliciesOK, PolicyTypeOK, ClaimedWithinCoverage
<1>2. RecordsOK /\ LocksOK
  <2>1. claims = <<>> /\ activeClaim = <<>> /\ claimsAdmin = FALSE
    BY DEF InsuranceInit, ClaimsInit
  <2>2. DOMAIN claims = {} /\ DOMAIN activeClaim = {} /\ claims \in Seq(ClaimRecord)
    BY <2>1
  <2> QED
    BY <2>1, <2>2 DEF RecordsOK, LocksOK
<1> QED
  BY <1>1, <1>2

(* What a step of the policy contract does to the policies: it adds one, or *)
(* replaces one by a policy that covers again only if the old one did.      *)
LEMMA PolicyStepShape ==
  ASSUME PoliciesOK, PolicyUserStep \/ PolicyGovernanceStep
  PROVE  /\ DOMAIN policies \subseteq DOMAIN policies'
         /\ \A id \in DOMAIN policies :
              policies[id].status \in Terminal => policies'[id].status \in Terminal
<1>0. /\ policies \in Seq(PolicyRecord)
      /\ \A i \in DOMAIN policies : policies[i] \in PolicyRecord
  BY DEF PoliciesOK, PolicyTypeOK
<1>1. ASSUME NEW h, NEW c, NEW m, NEW d, IssuePolicy(h, c, m, d)
      PROVE  /\ DOMAIN policies \subseteq DOMAIN policies'
             /\ \A i \in DOMAIN policies : policies'[i] = policies[i]
  BY <1>0, <1>1 DEF IssuePolicy
<1>2. ASSUME NEW id \in DOMAIN policies,
             \/ \E d \in Durations : RenewPolicy(id, d)
             \/ CancelPolicy(id) \/ ExpirePolicy(id)
             \/ \E patch \in Patches : ApplyGovernanceUpdate(id, patch)
      PROVE  \E p \in PolicyRecord \union {Patched(policies[id], patch) : patch \in Patches} :
               /\ policies' = [policies EXCEPT ![id] = p]
               /\ policies[id].status \in Terminal => p.status \in Terminal
  <2> DEFINE q == policies[id]
  <2>1. q \in PolicyRecord
    BY <1>0
  <2>2. CASE \E d \in Durations : RenewPolicy(id, d)
    <3> PICK d \in Durations : RenewPolicy(id, d)
      BY <2>2
    <3> DEFINE n == (q.duration + d) % (U32Max + 1)
               p == [q EXCEPT !.duration = n, !.status = "Renewed"]
    <3>1. n \in 0 .. U32Max
      <4>1. q.duration \in Nat /\ d \in Nat
        BY <2>1, PolicyAssumption DEF PolicyRecord
      <4> QED
        BY <4>1, DurationRange
    <3>2. policies' = [policies EXCEPT ![id] = p]
      BY <1>0, <2>1 DEF RenewPolicy, PolicyRecord
    <3>3. q.status \notin Terminal
      BY DEF RenewPolicy, IsActive, Terminal
    <3> HIDE DEF n, q
    <3>4. p \in PolicyRecord
      BY <2>1, <3>1 DEF PolicyRecord, PolicyStatus
    <3> HIDE DEF p
    <3> QED
      BY <3>2, <3>3, <3>4 DEF q
  <2>3. CASE CancelPolicy(id) \/ ExpirePolicy(id)
    <3>1. PICK s \in Terminal :
            policies' = [policies EXCEPT ![id] = [q EXCEPT !.status = s]]
      BY <2>3 DEF CancelPolicy, ExpirePolicy, Terminal
    <3> DEFINE p == [q EXCEPT !.status = s]
    <3> HIDE DEF q
    <3>2. p \in PolicyRecord /\ p.status \in Terminal
      BY <2>1 DEF PolicyRecord, PolicyStatus, Terminal
    <3> HIDE DEF p
    <3> QED
      BY <3>1, <3>2 DEF p
  <2>4. CASE \E patch \in Patches : ApplyGovernanceUpdate(id, patch)
    <3> PICK patch \in Patches : ApplyGovernanceUpdate(id, patch)
      BY <2>4
    <3>1. policies' = [policies EXCEPT ![id] = Patched(q, patch)]
      BY DEF ApplyGovernanceUpdate
    <3>2. q.status \in Terminal => patch.status = Keep
      BY DEF ApplyGovernanceUpdate, StatusPatchAccepted
    <3> HIDE DEF q
    <3>3. q.status \in Terminal => Patched(q, patch).status = q.status
      BY <2>1, <3>2 DEF Patched, PolicyRecord
    <3> QED
      BY <3>1, <3>3 DEF q
  <2> QED
    BY <1>2, <2>2, <2>3, <2>4
<1>3. CASE \/ PolicySetRole \/ SetClaimsContract \/ SetGovernanceContract
           \/ \E c \in Coverages, m \in Premiums : ApplyGovernanceParams(c, m)
  BY <1>3 DEF PolicySetRole, SetClaimsContract, SetGovernanceContract,
              ApplyGovernanceParams
<1>4. ASSUME NEW id \in DOMAIN policies, NEW p,
             policies' = [policies EXCEPT ![id] = p],
             policies[id].status \in Terminal => p.status \in Terminal
      PROVE  /\ DOMAIN policies \subseteq DOMAIN policies'
             /\ \A i \in DOMAIN policies :
                  policies[i].status \in Terminal => policies'[i].status \in Terminal
  BY <1>0, <1>4
<1> QED
  BY <1>1, <1>2, <1>3, <1>4 DEF PolicyUserStep, PolicyGovernanceStep

(* Every step of the policy contract keeps its policies in order. *)
LEMMA PolicyStepInv ==
  ASSUME PoliciesOK, UNCHANGED now, PolicyUserStep \/ PolicyGovernanceStep
  PROVE  PoliciesOK'
<1>1. CASE PolicyUserStep
  BY <1>1, IssueInv, LifecycleInv DEF PolicyUserStep
<1>2. CASE PolicyGovernanceStep
  BY <1>2, PatchInv, WiringInv DEF PolicyGovernanceStep
<1> QED
  BY <1>1, <1>2

(* The policies do not depend on anything but themselves and the clock. *)
LEMMA PoliciesUntouched ==
  ASSUME PoliciesOK, UNCHANGED policyVars, now' \in now .. MaxTime
  PROVE  PoliciesOK'
<1>1. /\ policies' = policies /\ policyParams' = policyParams
      /\ policyAdmin' = policyAdmin /\ claimsRegistered' = claimsRegistered
      /\ governanceRegistered' = governanceRegistered
  BY DEF policyVars
<1>2. now \in Nat /\ now' \in 0 .. MaxTime /\ now <= now'
  <2>1. now \in 0 .. MaxTime
    BY DEF PoliciesOK, PolicyTypeOK
  <2> QED
    BY <2>1, LedgerAssumption
<1>3. PolicyTypeOK'
  <2>1. ASSUME NEW id \in DOMAIN policies PROVE policies[id].start \in Nat
    <3>1. policies[id] \in PolicyRecord
      BY DEF PoliciesOK, PolicyTypeOK
    <3> QED
      BY <3>1 DEF PolicyRecord
  <2>2. \A id \in DOMAIN policies : policies[id].start <= now'
    BY <1>2, <2>1 DEF PoliciesOK, PolicyTypeOK
  <2> QED
    BY <1>1, <1>2, <2>2 DEF PoliciesOK, PolicyTypeOK
<1>4. ClaimedWithinCoverage'
  BY <1>1 DEF PoliciesOK, ClaimedWithinCoverage
<1> QED
  BY <1>3, <1>4 DEF PoliciesOK

(* settle_claim keeps both contracts in order. *)
LEMMA SettleInv ==
  ASSUME PoliciesOK, RecordsOK, LocksOK, UNCHANGED now,
         NEW c \in DOMAIN claims, SettleClaim(c)
  PROVE  PoliciesOK' /\ RecordsOK' /\ LocksOK'
<1> DEFINE id == claims[c].policy
<1>1. id \in DOMAIN policies /\ claims[c].amount \in I128
  <2>1. claims[c] \in ClaimRecord
    BY DEF RecordsOK
  <2> QED
    BY <2>1 DEF RecordsOK, ClaimRecord
<1>2. PoliciesOK'
  BY <1>1, UpdateInv DEF SettleClaim
<1>3. DOMAIN policies' = DOMAIN policies
  BY DEF SettleClaim, UpdateClaimed
<1>4. /\ claims[c].status \in Open
      /\ "Settled" \in ClaimStatus \ Open
      /\ claims' = [claims EXCEPT ![c].status = "Settled"]
      /\ activeClaim' = Unlocked(claims[c].policy)
      /\ UNCHANGED claimsAdmin
  BY DEF SettleClaim, CloseSettled, Open, ClaimStatus
<1>5. RecordsOK' /\ LocksOK'
  BY <1>3, <1>4, CloseInv
<1> QED
  BY <1>2, <1>5

(* Every step of the claims contract alone keeps the records and locks. *)
LEMMA ClaimsStepInv ==
  ASSUME PoliciesOK, RecordsOK, LocksOK, UNCHANGED policyVars, ClaimsStep
  PROVE  RecordsOK' /\ LocksOK'
<1>1. policies' = policies
  BY DEF policyVars
<1>2. CASE ClaimsSetRole
  BY <1>1, <1>2 DEF ClaimsSetRole, RecordsOK, LocksOK
<1>3. CASE \E id \in DOMAIN policies, n \in ClaimAmounts : SubmitClaim(id, n)
  BY <1>1, <1>3, SubmitInv
<1>4. ASSUME NEW c \in DOMAIN claims, StartReview(c) \/ ApproveClaim(c)
      PROVE  RecordsOK' /\ LocksOK'
  BY <1>1, <1>4, ReviewInv
<1>5. ASSUME NEW c \in DOMAIN claims, RejectClaim(c)
      PROVE  RecordsOK' /\ LocksOK'
  <2>1. /\ claims[c].status \in Open
        /\ "Rejected" \in ClaimStatus \ Open
        /\ claims' = [claims EXCEPT ![c].status = "Rejected"]
        /\ activeClaim' = Unlocked(claims[c].policy)
        /\ UNCHANGED claimsAdmin
        /\ DOMAIN policies \subseteq DOMAIN policies'
    BY <1>1, <1>5 DEF RejectClaim, Open, ClaimStatus
  <2> QED
    BY <2>1, CloseInv
<1> QED
  BY <1>2, <1>3, <1>4, <1>5 DEF ClaimsStep

(* Every step preserves the invariant. *)
LEMMA ClaimsInvStep == ClaimsInv /\ [InsuranceNext]_vars => ClaimsInv'
<1> SUFFICES ASSUME ClaimsInv, [InsuranceNext]_vars PROVE ClaimsInv'
  OBVIOUS
<1>0. /\ PoliciesOK /\ RecordsOK /\ LocksOK
      /\ now \in 0 .. MaxTime
  BY ClaimsInvParts, PolicyFacts
<1>a. now \in now .. MaxTime
  BY <1>0, LedgerAssumption
<1> SUFFICES PoliciesOK' /\ RecordsOK' /\ LocksOK'
  BY ClaimsInvPartsNext
<1>1. CASE Tick /\ UNCHANGED <<policyVars, poolVars, claimsVars>>
  <2>1. now' \in now .. MaxTime
    BY <1>0, <1>1, LedgerAssumption DEF Tick
  <2>2. PoliciesOK'
    BY <1>0, <1>1, <2>1, PoliciesUntouched
  <2>3. RecordsOK' /\ LocksOK'
    BY <1>0, <1>1, ClaimsUntouched DEF policyVars
  <2> QED
    BY <2>2, <2>3
<1>2. CASE ClaimsStep /\ UNCHANGED <<now, policyVars, poolVars>>
  BY <1>0, <1>a, <1>2, ClaimsStepInv, PoliciesUntouched
<1>3. CASE PolicyUserStep /\ UNCHANGED <<now, poolVars, claimsVars>>
  BY <1>0, <1>3, PolicyStepInv, PolicyStepShape, ClaimsUntouched
<1>4. CASE PolicyGovernanceStep /\ UNCHANGED <<now, poolVars, claimsVars>>
  BY <1>0, <1>4, PolicyStepInv, PolicyStepShape, ClaimsUntouched
<1>5. CASE PoolUserStep /\ UNCHANGED <<now, policyVars, claimsVars>>
  BY <1>0, <1>a, <1>5, PoliciesUntouched, ClaimsUntouched DEF policyVars
<1>6. ASSUME NEW c \in DOMAIN claims, SettleClaim(c), UNCHANGED now
      PROVE  PoliciesOK' /\ RecordsOK' /\ LocksOK'
  BY <1>0, <1>6, SettleInv
<1>7. CASE UNCHANGED vars
  BY <1>0, <1>a, <1>7, PoliciesUntouched, ClaimsUntouched DEF vars, policyVars
<1> QED
  BY <1>1, <1>2, <1>3, <1>4, <1>5, <1>6, <1>7
  DEF InsuranceNext, InsuranceUserNext

(* ClaimsInv holds in every reachable state. *)
THEOREM ClaimsInvariance == InsuranceSpec => []ClaimsInv
<1> QED
  BY ClaimsInitInv, ClaimsInvStep, PTL DEF InsuranceSpec

(* Policies, claims and locks have their types and refer to what exists. *)
THEOREM ClaimsTypeCorrect == InsuranceSpec => []ClaimsTypeOK
<1>1. ClaimsInv => ClaimsTypeOK
  BY DEF ClaimsInv
<1> QED
  BY <1>1, ClaimsInvariance, PTL

(* update_claimed and apply_governance_update: whatever is settled and       *)
(* patched, and even if a sum wraps, a policy is never paid beyond its cover. *)
THEOREM NeverOverpaid == InsuranceSpec => []ClaimedWithinCoverage
<1>1. ClaimsInv => ClaimedWithinCoverage
  BY DEF ClaimsInv
<1> QED
  BY <1>1, ClaimsInvariance, PTL

(* PolicyActiveClaim: a policy has at most one open claim, and its lock is *)
(* present exactly while it does.                                          *)
THEOREM OneOpenClaim == InsuranceSpec => []LockIsTheOpenClaim
<1>1. ClaimsInv => LockIsTheOpenClaim
  BY DEF ClaimsInv
<1> QED
  BY <1>1, ClaimsInvariance, PTL

-----------------------------------------------------------------------------
(* What is paid and what is counted.                                       *)

(* The positions of a sequence, and any of them, are finite. *)
LEMMA PositionsFinite ==
  ASSUME NEW R, NEW s \in Seq(R), NEW ids \in SUBSET DOMAIN s
  PROVE  IsFiniteSet(ids)
<1>1. DOMAIN s = 1 .. Len(s) /\ Len(s) \in Int
  OBVIOUS
<1>2. IsFiniteSet(DOMAIN s)
  BY <1>1, FS_Interval
<1> QED BY <1>2, FS_Subset

(* The worth of some claims depends on their amounts alone. *)
LEMMA WorthAgrees ==
  ASSUME NEW cs, NEW ds, NEW ids, IsFiniteSet(ids),
         ids \subseteq DOMAIN cs, ids \subseteq DOMAIN ds,
         \A c \in ids : ds[c].amount = cs[c].amount
  PROVE  Worth(ds, ids) = Worth(cs, ids)
<1> DEFINE f == [c \in DOMAIN cs |-> cs[c].amount]
           g == [c \in DOMAIN ds |-> ds[c].amount]
<1>1. \A c \in ids : g[c] = f[c]
  OBVIOUS
<1> HIDE DEF f, g
<1>2. SumFunctionOnSet(g, ids) = SumFunctionOnSet(f, ids)
  BY <1>1, SumAgrees
<1> QED BY <1>2 DEF Worth, f, g

(* One more claim is worth its amount more. *)
LEMMA WorthAdd ==
  ASSUME NEW cs, NEW ids, IsFiniteSet(ids), ids \subseteq DOMAIN cs,
         NEW c \in DOMAIN cs, c \notin ids,
         \A d \in DOMAIN cs : cs[d].amount \in Int
  PROVE  /\ Worth(cs, ids) \in Int
         /\ Worth(cs, ids \union {c}) = Worth(cs, ids) + cs[c].amount
<1> DEFINE f == [d \in DOMAIN cs |-> cs[d].amount]
<1>1. f[c] = cs[c].amount /\ f[c] \in Int /\ \A d \in ids : f[d] \in Int
  OBVIOUS
<1> HIDE DEF f
<1>2. /\ SumFunctionOnSet(f, ids) \in Int
      /\ SumFunctionOnSet(f, ids \union {c}) = f[c] + SumFunctionOnSet(f, ids)
  BY <1>1, SumAdd, SumType
<1>3. SumFunctionOnSet(f, ids \union {c}) = SumFunctionOnSet(f, ids) + f[c]
  BY <1>1, <1>2
<1> QED BY <1>1, <1>2, <1>3 DEF Worth, f

(* No claim is worth nothing. *)
LEMMA WorthNone == ASSUME NEW cs PROVE Worth(cs, {}) = 0
  BY SumEmpty DEF Worth

(* What is counted depends on the totals of the policies alone. *)
LEMMA ClaimedAgrees ==
  ASSUME NEW ps, NEW qs, DOMAIN qs = DOMAIN ps,
         \A id \in DOMAIN ps : qs[id].totalClaimed = ps[id].totalClaimed
  PROVE  ClaimedOn(qs) = ClaimedOn(ps)
<1>1. [id \in DOMAIN qs |-> qs[id].totalClaimed] = [id \in DOMAIN ps |-> ps[id].totalClaimed]
  OBVIOUS
<1> QED BY <1>1 DEF ClaimedOn

(* A new policy on which nothing is claimed adds nothing. *)
LEMMA ClaimedIssue ==
  ASSUME NEW ps, NEW qs, IsFiniteSet(DOMAIN ps), NEW k, k \notin DOMAIN ps,
         DOMAIN qs = DOMAIN ps \union {k}, qs[k].totalClaimed = 0,
         \A id \in DOMAIN ps : qs[id].totalClaimed = ps[id].totalClaimed,
         \A id \in DOMAIN ps : ps[id].totalClaimed \in Int
  PROVE  ClaimedOn(qs) = ClaimedOn(ps)
<1> DEFINE f == [id \in DOMAIN ps |-> ps[id].totalClaimed]
           g == [id \in DOMAIN qs |-> qs[id].totalClaimed]
<1>1. /\ \A id \in DOMAIN ps : g[id] = f[id] /\ f[id] \in Int /\ g[id] \in Int
      /\ g[k] = 0
  OBVIOUS
<1> HIDE DEF f, g
<1>2. SumFunctionOnSet(g, DOMAIN ps) = SumFunctionOnSet(f, DOMAIN ps)
  BY <1>1, SumAgrees
<1>3. SumFunctionOnSet(f, DOMAIN ps) \in Int
  BY <1>1, SumType
<1>4. SumFunctionOnSet(g, DOMAIN ps \union {k}) = g[k] + SumFunctionOnSet(g, DOMAIN ps)
  BY <1>1, SumAdd
<1>5. SumFunctionOnSet(g, DOMAIN qs) = SumFunctionOnSet(f, DOMAIN ps)
  BY <1>1, <1>2, <1>3, <1>4
<1> QED BY <1>5 DEF ClaimedOn, f, g

(* What is counted is an integer. *)
LEMMA ClaimedType == PoliciesOK => ClaimedOn(policies) \in Int
<1> SUFFICES ASSUME PoliciesOK PROVE ClaimedOn(policies) \in Int
  OBVIOUS
<1> DEFINE f == [id \in DOMAIN policies |-> policies[id].totalClaimed]
<1>1. \A id \in DOMAIN policies : f[id] \in Int
  BY PolicyFacts DEF RecordOK, I128
<1>2. IsFiniteSet(DOMAIN policies)
  BY PositionsFinite DEF PoliciesOK, PolicyTypeOK
<1> HIDE DEF f
<1>3. SumFunctionOnSet(f, DOMAIN policies) \in Int
  BY <1>1, <1>2, SumType
<1> QED BY <1>3 DEF ClaimedOn, f

(* A total that grows by n is counted by n more. *)
LEMMA ClaimedMore ==
  ASSUME NEW ps, NEW qs, IsFiniteSet(DOMAIN ps), NEW k \in DOMAIN ps, NEW n \in Int,
         DOMAIN qs = DOMAIN ps, qs[k].totalClaimed = ps[k].totalClaimed + n,
         \A id \in DOMAIN ps : id # k => qs[id].totalClaimed = ps[id].totalClaimed,
         \A id \in DOMAIN ps : ps[id].totalClaimed \in Int
  PROVE  /\ ClaimedOn(ps) \in Int
         /\ ClaimedOn(qs) = ClaimedOn(ps) + n
<1> DEFINE f == [id \in DOMAIN ps |-> ps[id].totalClaimed]
           g == [id \in DOMAIN ps |-> qs[id].totalClaimed]
<1>1. /\ f \in [DOMAIN ps -> Int] /\ g \in [DOMAIN ps -> Int]
      /\ \A id \in DOMAIN ps : id # k => g[id] = f[id]
      /\ g[k] = f[k] + n /\ f[k] \in Int
  OBVIOUS
<1>2. [id \in DOMAIN qs |-> qs[id].totalClaimed] = g
  OBVIOUS
<1> HIDE DEF f, g
<1>3. /\ SumFunctionOnSet(f, DOMAIN ps) \in Int
      /\ SumFunctionOnSet(g, DOMAIN ps) = SumFunctionOnSet(f, DOMAIN ps) - f[k] + g[k]
  BY <1>1, SumUpdate
<1>4. SumFunctionOnSet(g, DOMAIN ps) = SumFunctionOnSet(f, DOMAIN ps) + n
  BY <1>1, <1>3
<1> QED BY <1>2, <1>3, <1>4 DEF ClaimedOn, f

(* A step that settles nothing changes no settled worth. *)
LEMMA SettledSame ==
  ASSUME claims \in Seq(ClaimRecord), claims' \in Seq(ClaimRecord),
         DOMAIN claims \subseteq DOMAIN claims',
         \A c \in DOMAIN claims :
           /\ claims'[c].policy = claims[c].policy
           /\ claims'[c].amount = claims[c].amount
           /\ claims'[c].claimant = claims[c].claimant
           /\ claims'[c].status = "Settled" <=> claims[c].status = "Settled",
         \A c \in DOMAIN claims' : c \notin DOMAIN claims => claims'[c].status # "Settled"
  PROVE  /\ \A id : Worth(claims', SettledOf(id)') = Worth(claims, SettledOf(id))
         /\ \A h : Worth(claims', SettledFor(h)') = Worth(claims, SettledFor(h))
<1>1. ASSUME NEW ids \in SUBSET DOMAIN claims
      PROVE  Worth(claims', ids) = Worth(claims, ids)
  BY <1>1, PositionsFinite, WorthAgrees
<1>2. ASSUME NEW id PROVE SettledOf(id)' = SettledOf(id) /\ SettledOf(id) \in SUBSET DOMAIN claims
  BY DEF SettledOf
<1>3. ASSUME NEW h PROVE SettledFor(h)' = SettledFor(h) /\ SettledFor(h) \in SUBSET DOMAIN claims
  BY DEF SettledFor
<1> QED BY <1>1, <1>2, <1>3

(* Settling claim c adds its amount to what is settled of its policy and for *)
(* its claimant, and to nothing else.                                        *)
LEMMA SettledMore ==
  ASSUME claims \in Seq(ClaimRecord), claims' \in Seq(ClaimRecord),
         DOMAIN claims' = DOMAIN claims,
         NEW c \in DOMAIN claims, claims[c].status # "Settled", claims'[c].status = "Settled",
         \A d \in DOMAIN claims : /\ claims'[d].policy = claims[d].policy
                                  /\ claims'[d].amount = claims[d].amount
                                  /\ claims'[d].claimant = claims[d].claimant,
         \A d \in DOMAIN claims : d # c => claims'[d] = claims[d]
  PROVE  /\ \A id : Worth(claims', SettledOf(id)') =
                      IF id = claims[c].policy THEN Worth(claims, SettledOf(id)) + claims[c].amount
                                               ELSE Worth(claims, SettledOf(id))
         /\ \A h : Worth(claims', SettledFor(h)') =
                      IF h = claims[c].claimant THEN Worth(claims, SettledFor(h)) + claims[c].amount
                                                ELSE Worth(claims, SettledFor(h))
<1>1. ASSUME NEW ids \in SUBSET DOMAIN claims
      PROVE  Worth(claims', ids) = Worth(claims, ids)
  BY <1>1, PositionsFinite, WorthAgrees
<1>2. ASSUME NEW ids \in SUBSET DOMAIN claims, c \notin ids
      PROVE  Worth(claims', ids \union {c}) = Worth(claims, ids) + claims[c].amount
  <2>1. \A d \in DOMAIN claims : claims[d].amount \in Int
    <3>1. ASSUME NEW d \in DOMAIN claims PROVE claims[d] \in ClaimRecord
      OBVIOUS
    <3> QED BY <3>1 DEF ClaimRecord, I128
  <2>2. IsFiniteSet(ids)
    BY PositionsFinite
  <2>3. Worth(claims, ids \union {c}) = Worth(claims, ids) + claims[c].amount
    BY <1>2, <2>1, <2>2, WorthAdd
  <2> QED BY <1>1, <2>3
<1>3. ASSUME NEW id
      PROVE  /\ SettledOf(id) \in SUBSET DOMAIN claims /\ c \notin SettledOf(id)
             /\ SettledOf(id)' = IF id = claims[c].policy THEN SettledOf(id) \union {c}
                                                          ELSE SettledOf(id)
  BY DEF SettledOf
<1>4. ASSUME NEW h
      PROVE  /\ SettledFor(h) \in SUBSET DOMAIN claims /\ c \notin SettledFor(h)
             /\ SettledFor(h)' = IF h = claims[c].claimant THEN SettledFor(h) \union {c}
                                                           ELSE SettledFor(h)
  BY DEF SettledFor
<1> QED BY <1>1, <1>2, <1>3, <1>4

\* The coverages that issue_policy and apply_governance_update are offered, and
\* what it takes that no sum with one of them leaves the i128 range.
CoveragesOffered == (Coverages \union {patch.coverage : patch \in Patches}) \ {Keep}
AmountsFit == \A n \in ClaimAmounts, m \in CoveragesOffered : n + m <= I128Max

\* The tokens there are, and what it takes that no sum of a coverage and what
\* can be paid leaves the i128 range, whatever amounts are claimed.
Minted == SumFunctionOnSet([p \in Providers |-> Supply], Providers)
SupplyFits == \A m \in CoveragesOffered : Minted + m <= I128Max

\* What is claimed is positive, and covers are among those offered.
AmountsOK ==
  /\ \A c \in DOMAIN claims : claims[c].amount \in ClaimAmounts /\ claims[c].amount > 0
  /\ \A id \in DOMAIN policies :
       /\ policies[id].totalClaimed >= 0
       /\ policies[id].coverage \in CoveragesOffered

\* The first and the second part of SettledExplainsPaid.
SettledCounted ==
  \A id \in DOMAIN policies : policies[id].totalClaimed = Worth(claims, SettledOf(id))
SettledReceived ==
  \A h \in Holders \ Providers : balance[h] = Worth(claims, SettledFor(h))

\* The money of the pool: no more tokens move than there are.
FundsOK ==
  /\ availableCapital \in Nat
  /\ claimsPaid \in Int
  /\ balance \in [Accounts -> Nat]
  /\ poolTokens \in Nat
  /\ SumFunctionOnSet(balance, Providers) + poolTokens <= Minted

\* What the policies count as claimed is what their claims were settled for. It
\* is inductive when no sum wraps.
CountedOK == AmountsOK /\ SettledCounted

(* What a step of the policy contract leaves alone: what is claimed.  Covers *)
(* come from the calls.                                                      *)
LEMMA PolicyStepTotals ==
  ASSUME PoliciesOK, PolicyUserStep \/ PolicyGovernanceStep
  PROVE  /\ \/ DOMAIN policies' = DOMAIN policies
            \/ \E k : /\ k \notin DOMAIN policies
                      /\ DOMAIN policies' = DOMAIN policies \union {k}
                      /\ policies'[k].totalClaimed = 0
                      /\ policies'[k].coverage \in CoveragesOffered
         /\ \A id \in DOMAIN policies :
              /\ policies'[id].totalClaimed = policies[id].totalClaimed
              /\ \/ policies'[id].coverage = policies[id].coverage
                 \/ policies'[id].coverage \in CoveragesOffered
<1>0. /\ policies \in Seq(PolicyRecord)
      /\ \A i \in DOMAIN policies : policies[i] \in PolicyRecord
  BY DEF PoliciesOK, PolicyTypeOK
<1> DEFINE Same(p, q) == /\ p.totalClaimed = q.totalClaimed
                         /\ p.coverage = q.coverage \/ p.coverage \in CoveragesOffered
<1>1. ASSUME NEW h, NEW c \in Coverages, NEW m, NEW d, IssuePolicy(h, c, m, d)
      PROVE  /\ \E k : /\ k \notin DOMAIN policies
                       /\ DOMAIN policies' = DOMAIN policies \union {k}
                       /\ policies'[k].totalClaimed = 0
                       /\ policies'[k].coverage \in CoveragesOffered
             /\ \A i \in DOMAIN policies : policies'[i] = policies[i]
  <2> DEFINE p == [ holder |-> h, coverage |-> c, start |-> now, duration |-> d,
                    status |-> "Active", totalClaimed |-> 0 ]
             k == Len(policies) + 1
  <2>1. policies' = Append(policies, p)
    BY <1>1 DEF IssuePolicy
  <2>2. c \in CoveragesOffered
    BY PolicyAssumption DEF CoveragesOffered, I128
  <2>3. p.totalClaimed = 0 /\ p.coverage \in CoveragesOffered
    BY <2>2
  <2> HIDE DEF p
  <2>4. /\ k \notin DOMAIN policies /\ DOMAIN policies' = DOMAIN policies \union {k}
        /\ policies'[k] = p
        /\ \A i \in DOMAIN policies : policies'[i] = policies[i]
    BY <1>0, <2>1
  <2> QED BY <2>3, <2>4
<1>2. ASSUME NEW id \in DOMAIN policies, NEW p, Same(p, policies[id]),
             policies' = [policies EXCEPT ![id] = p]
      PROVE  /\ DOMAIN policies' = DOMAIN policies
             /\ \A i \in DOMAIN policies : Same(policies'[i], policies[i])
  BY <1>0, <1>2
<1>3. ASSUME NEW id \in DOMAIN policies,
             (\E d \in Durations : RenewPolicy(id, d)) \/ CancelPolicy(id) \/ ExpirePolicy(id)
      PROVE  \E p : Same(p, policies[id]) /\ policies' = [policies EXCEPT ![id] = p]
  <2> DEFINE q == policies[id]
  <2>1. \A s, n : Same([q EXCEPT !.duration = n, !.status = s], q)
    BY <1>0 DEF PolicyRecord
  <2>2. \A s : Same([q EXCEPT !.status = s], q)
    BY <1>0 DEF PolicyRecord
  <2>3. CASE \E d \in Durations : RenewPolicy(id, d)
    <3> PICK d \in Durations : RenewPolicy(id, d)
      BY <2>3
    <3> DEFINE n == (q.duration + d) % (U32Max + 1)
    <3>1. policies' = [policies EXCEPT ![id] = [q EXCEPT !.duration = n, !.status = "Renewed"]]
      BY <1>0 DEF RenewPolicy, PolicyRecord
    <3> HIDE DEF n, q
    <3> QED BY <2>1, <3>1 DEF q
  <2>4. CASE CancelPolicy(id) \/ ExpirePolicy(id)
    <3>1. PICK s : policies' = [policies EXCEPT ![id] = [q EXCEPT !.status = s]]
      BY <2>4 DEF CancelPolicy, ExpirePolicy
    <3> QED BY <2>2, <3>1
  <2> QED BY <1>3, <2>3, <2>4
<1>4. ASSUME NEW id \in DOMAIN policies, NEW patch \in Patches, ApplyGovernanceUpdate(id, patch)
      PROVE  \E p : Same(p, policies[id]) /\ policies' = [policies EXCEPT ![id] = p]
  <2> DEFINE q == policies[id]
             c == IF patch.coverage = Keep THEN q.coverage ELSE patch.coverage
             s == IF patch.status = Keep THEN q.status ELSE patch.status
  <2>1. policies' = [policies EXCEPT ![id] = [q EXCEPT !.coverage = c, !.status = s]]
    BY <1>0, <1>4 DEF ApplyGovernanceUpdate, Patched, PolicyRecord
  <2>2. c = q.coverage \/ c \in CoveragesOffered
    BY DEF CoveragesOffered
  <2>3. q \in PolicyRecord
    BY <1>0
  <2> HIDE DEF c, s, q
  <2>4. Same([q EXCEPT !.coverage = c, !.status = s], q)
    BY <2>2, <2>3 DEF PolicyRecord
  <2> QED BY <2>1, <2>4 DEF q
<1>5. CASE \/ PolicySetRole \/ SetClaimsContract \/ SetGovernanceContract
           \/ \E c \in Coverages, m \in Premiums : ApplyGovernanceParams(c, m)
  BY <1>5 DEF PolicySetRole, SetClaimsContract, SetGovernanceContract,
              ApplyGovernanceParams
<1>6. ASSUME NEW id \in DOMAIN policies,
             \/ \E d \in Durations : RenewPolicy(id, d)
             \/ CancelPolicy(id) \/ ExpirePolicy(id)
             \/ \E patch \in Patches : ApplyGovernanceUpdate(id, patch)
      PROVE  /\ DOMAIN policies' = DOMAIN policies
             /\ \A i \in DOMAIN policies : Same(policies'[i], policies[i])
  BY <1>2, <1>3, <1>4, <1>6
<1> QED
  BY <1>1, <1>5, <1>6 DEF PolicyUserStep, PolicyGovernanceStep

(* The worth of the claims of a policy that has none. *)
LEMMA NothingSettled ==
  ASSUME NEW id, \A c \in DOMAIN claims : claims[c].policy # id
  PROVE  Worth(claims, SettledOf(id)) = 0
<1>1. SettledOf(id) = {}
  BY DEF SettledOf
<1> QED BY <1>1, WorthNone

(* Steps of the policy contract: what is claimed stays as it is counted. *)
LEMMA PolicyStepCounted ==
  ASSUME PoliciesOK, RecordsOK, CountedOK, UNCHANGED claimsVars,
         PolicyUserStep \/ PolicyGovernanceStep
  PROVE  CountedOK' /\ ClaimedOn(policies') = ClaimedOn(policies)
<1> DEFINE New(k) == /\ k \notin DOMAIN policies
                     /\ DOMAIN policies' = DOMAIN policies \union {k}
                     /\ policies'[k].totalClaimed = 0
                     /\ policies'[k].coverage \in CoveragesOffered
<1>1. /\ DOMAIN policies' = DOMAIN policies \/ \E k : New(k)
      /\ \A id \in DOMAIN policies :
           /\ policies'[id].totalClaimed = policies[id].totalClaimed
           /\ policies'[id].coverage = policies[id].coverage
              \/ policies'[id].coverage \in CoveragesOffered
  BY PolicyStepTotals
<1>2. /\ claims' = claims /\ \A id : SettledOf(id)' = SettledOf(id)
  BY DEF claimsVars, SettledOf
<1>3. AmountsOK'
  <2>1. ASSUME NEW id \in DOMAIN policies'
        PROVE  policies'[id].totalClaimed >= 0 /\ policies'[id].coverage \in CoveragesOffered
    <3>1. CASE id \in DOMAIN policies
      BY <1>1, <3>1 DEF CountedOK, AmountsOK
    <3>2. CASE id \notin DOMAIN policies
      <4>1. PICK k : New(k)
        BY <1>1, <2>1, <3>2
      <4>2. id = k
        BY <2>1, <3>2, <4>1
      <4> QED BY <4>1, <4>2
    <3> QED BY <3>1, <3>2
  <2> QED BY <1>2, <2>1 DEF CountedOK, AmountsOK
<1>4. SettledCounted'
  <2>1. ASSUME NEW k, New(k) PROVE Worth(claims, SettledOf(k)) = 0
    BY <2>1, NothingSettled DEF RecordsOK
  <2> QED BY <1>1, <1>2, <2>1 DEF CountedOK, SettledCounted
<1>5. ClaimedOn(policies') = ClaimedOn(policies)
  <2>1. IsFiniteSet(DOMAIN policies)
    BY PositionsFinite DEF PoliciesOK, PolicyTypeOK
  <2>2. \A id \in DOMAIN policies : policies[id].totalClaimed \in Int
    BY PolicyFacts DEF RecordOK, I128
  <2>3. ASSUME NEW k, New(k) PROVE ClaimedOn(policies') = ClaimedOn(policies)
    BY <1>1, <2>1, <2>2, <2>3, ClaimedIssue
  <2>4. CASE DOMAIN policies' = DOMAIN policies
    BY <1>1, <2>4, ClaimedAgrees
  <2> QED BY <1>1, <2>3, <2>4
<1> QED BY <1>3, <1>4, <1>5 DEF CountedOK

(* start_review, approve_claim and reject_claim settle nothing. *)
LEMMA UnsettledStep ==
  ASSUME RecordsOK, NEW c \in DOMAIN claims,
         StartReview(c) \/ ApproveClaim(c) \/ RejectClaim(c)
  PROVE  /\ claims' \in Seq(ClaimRecord)
         /\ DOMAIN claims' = DOMAIN claims
         /\ \A d \in DOMAIN claims :
              /\ claims'[d].policy = claims[d].policy
              /\ claims'[d].amount = claims[d].amount
              /\ claims'[d].claimant = claims[d].claimant
              /\ claims'[d].status = "Settled" <=> claims[d].status = "Settled"
<1>1. PICK s \in {"UnderReview", "Approved", "Rejected"} :
        claims' = [claims EXCEPT ![c].status = s]
  BY DEF StartReview, ApproveClaim, RejectClaim
<1>2. claims[c].status # "Settled" /\ s # "Settled" /\ s \in ClaimStatus
  BY DEF StartReview, ApproveClaim, RejectClaim, ClaimStatus
<1>3. /\ claims' \in Seq(ClaimRecord)
      /\ DOMAIN claims' = DOMAIN claims
      /\ claims'[c].status = s
      /\ \A d \in DOMAIN claims : /\ claims'[d].policy = claims[d].policy
                                  /\ claims'[d].amount = claims[d].amount
                                  /\ claims'[d].claimant = claims[d].claimant
      /\ \A d \in DOMAIN claims : d # c => claims'[d] = claims[d]
  BY <1>1, <1>2, StatusStep
<1> QED BY <1>2, <1>3

(* Steps of the claims contract alone settle nothing. *)
LEMMA ClaimsStepCounted ==
  ASSUME PoliciesOK, RecordsOK, CountedOK, UNCHANGED policyVars, ClaimsStep
  PROVE  /\ CountedOK'
         /\ \A h : Worth(claims', SettledFor(h)') = Worth(claims, SettledFor(h))
<1>0. policies' = policies /\ claims \in Seq(ClaimRecord)
  BY DEF policyVars, RecordsOK
<1>1. ASSUME claims' \in Seq(ClaimRecord),
             DOMAIN claims \subseteq DOMAIN claims',
             \A c \in DOMAIN claims :
               /\ claims'[c].policy = claims[c].policy
               /\ claims'[c].amount = claims[c].amount
               /\ claims'[c].claimant = claims[c].claimant
               /\ claims'[c].status = "Settled" <=> claims[c].status = "Settled",
             \A c \in DOMAIN claims' : c \notin DOMAIN claims =>
               /\ claims'[c].status # "Settled"
               /\ claims'[c].amount \in ClaimAmounts /\ claims'[c].amount > 0
      PROVE  /\ CountedOK'
             /\ \A h : Worth(claims', SettledFor(h)') = Worth(claims, SettledFor(h))
  <2>1. /\ \A id : Worth(claims', SettledOf(id)') = Worth(claims, SettledOf(id))
        /\ \A h : Worth(claims', SettledFor(h)') = Worth(claims, SettledFor(h))
    BY <1>0, <1>1, SettledSame
  <2>2. AmountsOK'
    BY <1>0, <1>1 DEF CountedOK, AmountsOK
  <2>3. SettledCounted'
    BY <1>0, <2>1 DEF CountedOK, SettledCounted
  <2> QED BY <2>1, <2>2, <2>3 DEF CountedOK
<1>2. CASE ClaimsSetRole
  <2>1. claims' = claims
    BY <1>2 DEF ClaimsSetRole
  <2> QED BY <1>0, <1>1, <2>1
<1>3. ASSUME NEW id \in DOMAIN policies, NEW n \in ClaimAmounts, SubmitClaim(id, n)
      PROVE  /\ CountedOK'
             /\ \A h : Worth(claims', SettledFor(h)') = Worth(claims, SettledFor(h))
  <2> DEFINE r == [ policy |-> id, claimant |-> policies[id].holder,
                    amount |-> n, status |-> "Submitted" ]
  <2>1. r \in ClaimRecord
    <3>1. policies[id] \in PolicyRecord /\ id \in Nat \ {0} /\ n \in I128
      BY ClaimsAssumption DEF PoliciesOK, PolicyTypeOK
    <3> QED BY <3>1 DEF PolicyRecord, ClaimRecord, ClaimStatus
  <2>2. claims' = Append(claims, r) /\ n > 0
    BY <1>3 DEF SubmitClaim
  <2>3. r.status # "Settled" /\ r.amount = n
    OBVIOUS
  <2> HIDE DEF r
  <2>4. /\ claims' \in Seq(ClaimRecord)
        /\ DOMAIN claims \subseteq DOMAIN claims'
        /\ \A c \in DOMAIN claims : claims'[c] = claims[c]
        /\ \A c \in DOMAIN claims' : c \notin DOMAIN claims => claims'[c] = r
    BY <1>0, <2>1, <2>2
  <2> QED BY <1>1, <2>2, <2>3, <2>4
<1>4. ASSUME NEW c \in DOMAIN claims, StartReview(c) \/ ApproveClaim(c) \/ RejectClaim(c)
      PROVE  /\ CountedOK'
             /\ \A h : Worth(claims', SettledFor(h)') = Worth(claims, SettledFor(h))
  BY <1>1, <1>4, UnsettledStep
<1> QED BY <1>2, <1>3, <1>4 DEF ClaimsStep

(* settle_claim: the sum that is stored is the sum, when it fits. *)
LEMMA SettleCounted ==
  ASSUME PoliciesOK, RecordsOK, CountedOK, NEW c \in DOMAIN claims, SettleClaim(c),
         claims[c].amount + policies[claims[c].policy].coverage <= I128Max
  PROVE  /\ CountedOK'
         /\ ClaimedOn(policies) \in Int
         /\ ClaimedOn(policies') = ClaimedOn(policies) + claims[c].amount
         /\ DOMAIN policies' = DOMAIN policies
         /\ \A id \in DOMAIN policies :
              /\ policies'[id].coverage = policies[id].coverage
              /\ policies'[id].totalClaimed =
                   IF id = claims[c].policy THEN policies[id].totalClaimed + claims[c].amount
                                            ELSE policies[id].totalClaimed
         /\ \A h : Worth(claims', SettledFor(h)') =
                     IF h = claims[c].claimant THEN Worth(claims, SettledFor(h)) + claims[c].amount
                                               ELSE Worth(claims, SettledFor(h))
<1> DEFINE k == claims[c].policy
           n == claims[c].amount
           q == policies[k]
           t == WrappingAdd(q.totalClaimed, n)
<1>1. /\ k \in DOMAIN policies /\ RecordOK(q)
      /\ n \in I128 /\ n \in ClaimAmounts /\ n > 0
      /\ q.totalClaimed >= 0 /\ q.coverage \in CoveragesOffered
  <2>1. claims[c] \in ClaimRecord /\ k \in DOMAIN policies
    BY DEF RecordsOK
  <2> QED
    BY <2>1, PolicyFacts DEF CountedOK, AmountsOK, ClaimRecord
<1>2. t = q.totalClaimed + n /\ t \in Int /\ t >= 0
  <2>1. n + q.coverage <= I128Max
    OBVIOUS
  <2>2. q.totalClaimed <= q.coverage \/ q.totalClaimed <= 0
    BY <1>1 DEF RecordOK
  <2>3. q.coverage \in Int /\ q.totalClaimed \in Int /\ n \in Int /\ n <= I128Max
    BY <1>1 DEF RecordOK, PolicyRecord, I128
  <2>4. q.totalClaimed + n <= I128Max
    BY <1>1, <2>1, <2>2, <2>3, LedgerAssumption
  <2>5. q.totalClaimed + n >= 0
    BY <1>1, <2>3
  <2> QED
    BY <2>3, <2>4, <2>5, LedgerAssumption DEF WrappingAdd
<1>3. /\ DOMAIN policies' = DOMAIN policies
      /\ \A id \in DOMAIN policies : id # k => policies'[id] = policies[id]
      /\ policies'[k].totalClaimed = q.totalClaimed + n
      /\ policies'[k].coverage = q.coverage
  <2>1. policies \in Seq(PolicyRecord) /\ q \in PolicyRecord
    BY <1>1 DEF PoliciesOK, PolicyTypeOK, RecordOK
  <2>2. policies' = [policies EXCEPT ![k] = [q EXCEPT !.totalClaimed = t]]
    BY DEF SettleClaim, UpdateClaimed
  <2>3. [q EXCEPT !.totalClaimed = t].totalClaimed = t
        /\ [q EXCEPT !.totalClaimed = t].coverage = q.coverage
    BY <2>1 DEF PolicyRecord
  <2> HIDE DEF t
  <2> QED BY <1>1, <1>2, <2>1, <2>2, <2>3
<1>4. \A id \in DOMAIN policies : policies[id].totalClaimed \in Int
  BY PolicyFacts DEF RecordOK, I128
<1>5. /\ ClaimedOn(policies) \in Int
      /\ ClaimedOn(policies') = ClaimedOn(policies) + n
  <2>1. IsFiniteSet(DOMAIN policies)
    BY PositionsFinite DEF PoliciesOK, PolicyTypeOK
  <2>2. n \in Int
    BY <1>1 DEF I128
  <2> HIDE DEF k, n
  <2> QED BY <1>1, <1>3, <1>4, <2>1, <2>2, ClaimedMore
<1>6. /\ claims \in Seq(ClaimRecord)
      /\ claims[c].status # "Settled"
      /\ claims' = [claims EXCEPT ![c].status = "Settled"]
      /\ "Settled" \in ClaimStatus
  BY DEF SettleClaim, CloseSettled, RecordsOK, ClaimStatus
<1>7. /\ claims' \in Seq(ClaimRecord)
      /\ DOMAIN claims' = DOMAIN claims
      /\ claims'[c].status = "Settled"
      /\ \A d \in DOMAIN claims : /\ claims'[d].policy = claims[d].policy
                                  /\ claims'[d].amount = claims[d].amount
                                  /\ claims'[d].claimant = claims[d].claimant
      /\ \A d \in DOMAIN claims : d # c => claims'[d] = claims[d]
  BY <1>6, StatusStep
<1>8. /\ \A id : Worth(claims', SettledOf(id)') =
                   IF id = k THEN Worth(claims, SettledOf(id)) + n
                             ELSE Worth(claims, SettledOf(id))
      /\ \A h : Worth(claims', SettledFor(h)') =
                   IF h = claims[c].claimant THEN Worth(claims, SettledFor(h)) + n
                                             ELSE Worth(claims, SettledFor(h))
  BY <1>6, <1>7, SettledMore
<1>9. AmountsOK'
  <2>1. \A d \in DOMAIN claims' : claims'[d].amount \in ClaimAmounts /\ claims'[d].amount > 0
    BY <1>7 DEF CountedOK, AmountsOK
  <2>2. q.totalClaimed + n >= 0
    BY <1>2
  <2>3. \A id \in DOMAIN policies' : /\ policies'[id].totalClaimed >= 0
                                     /\ policies'[id].coverage \in CoveragesOffered
    BY <1>1, <1>3, <2>2 DEF CountedOK, AmountsOK
  <2> QED BY <2>1, <2>3 DEF AmountsOK
<1>10. SettledCounted'
  BY <1>1, <1>3, <1>8 DEF CountedOK, SettledCounted
<1>11. CountedOK'
  BY <1>9, <1>10 DEF CountedOK
<1> QED BY <1>1, <1>3, <1>5, <1>8, <1>11

(* There are so many tokens, and the providers have them all in the beginning. *)
LEMMA MintedType == Minted \in Int
<1> DEFINE f == [p \in Providers |-> Supply]
<1>1. \A p \in Providers : f[p] \in Int
  BY PoolAssumption
<1> HIDE DEF f
<1>2. SumFunctionOnSet(f, Providers) \in Int
  BY <1>1, PoolAssumption, SumType
<1> QED BY <1>2 DEF Minted, f

(* Whoever has Supply each has all of them. *)
LEMMA MintedSum ==
  ASSUME NEW f, \A p \in Providers : f[p] = Supply
  PROVE  SumFunctionOnSet(f, Providers) = Minted
<1> DEFINE g == [p \in Providers |-> Supply]
<1>1. \A p \in Providers : f[p] = g[p]
  OBVIOUS
<1> HIDE DEF g
<1>2. SumFunctionOnSet(f, Providers) = SumFunctionOnSet(g, Providers)
  BY <1>1, PoolAssumption, SumAgrees
<1> QED BY <1>2 DEF Minted, g

(* The tokens of the providers, when one account has n more. *)
LEMMA TokensMoved ==
  ASSUME NEW old \in [Accounts -> Nat], NEW new \in [Accounts -> Nat],
         NEW a \in Accounts, NEW n \in Int, new[a] = old[a] + n,
         \A b \in Accounts : b # a => new[b] = old[b]
  PROVE  /\ SumFunctionOnSet(old, Providers) \in Nat
         /\ SumFunctionOnSet(new, Providers) =
              IF a \in Providers THEN SumFunctionOnSet(old, Providers) + n
                                 ELSE SumFunctionOnSet(old, Providers)
<1>1. /\ IsFiniteSet(Providers)
      /\ \A p \in Providers : old[p] \in Nat /\ new[p] \in Nat
  BY PoolAssumption DEF Accounts
<1>2. SumFunctionOnSet(old, Providers) \in Nat
  BY <1>1, SumNonNegative
<1>3. CASE a \in Providers
  <2>1. \A p \in Providers : /\ old[p] \in Int /\ new[p] \in Int
                             /\ p # a => new[p] = old[p]
    BY <1>1 DEF Accounts
  <2>2. SumFunctionOnSet(new, Providers) = SumFunctionOnSet(old, Providers) - old[a] + new[a]
    BY <1>1, <1>3, <2>1, SumUpdate
  <2> QED BY <1>2, <1>3, <2>1, <2>2
<1>4. CASE a \notin Providers
  <2>1. \A p \in Providers : new[p] = old[p]
    BY <1>4 DEF Accounts
  <2> QED BY <1>1, <1>2, <1>4, <2>1, SumAgrees
<1> QED BY <1>2, <1>3, <1>4

(* deposit_liquidity and withdraw_liquidity move a provider's money alone. *)
LEMMA PoolStepFunds ==
  ASSUME FundsOK, PoolUserStep
  PROVE  /\ FundsOK' /\ claimsPaid' = claimsPaid
         /\ \A a \in Accounts \ Providers : balance'[a] = balance[a]
<1> PICK p \in Providers, n \in Amounts : DepositLiquidity(p, n) \/ WithdrawLiquidity(p, n)
  BY DEF PoolUserStep
<1>1. n \in Int /\ p \in Accounts
  BY PoolAssumption DEF Accounts
<1>2. PICK k \in {n, -n} :
        /\ balance' \in [Accounts -> Nat] /\ balance'[p] = balance[p] + k
        /\ \A a \in Accounts : a # p => balance'[a] = balance[a]
        /\ poolTokens' \in Nat /\ poolTokens' = poolTokens - k
        /\ availableCapital' \in Nat /\ claimsPaid' = claimsPaid
  <2>1. CASE DepositLiquidity(p, n)
    BY <1>1, <2>1 DEF DepositLiquidity, TransferIn, FundsOK
  <2>2. CASE WithdrawLiquidity(p, n)
    BY <1>1, <2>2 DEF WithdrawLiquidity, TransferOut, FundsOK
  <2> QED BY <2>1, <2>2
<1>3. /\ SumFunctionOnSet(balance, Providers) \in Nat
      /\ SumFunctionOnSet(balance', Providers) = SumFunctionOnSet(balance, Providers) + k
  <2>1. balance \in [Accounts -> Nat] /\ k \in Int
    BY <1>1 DEF FundsOK
  <2> QED BY <1>1, <1>2, <2>1, TokensMoved
<1>4. Minted' = Minted /\ Minted \in Int
  BY MintedType DEF Minted
<1> QED BY <1>1, <1>2, <1>3, <1>4 DEF FundsOK

(* payout_claim moves its amount from what is available to the recipient. *)
LEMMA PayoutFunds ==
  ASSUME FundsOK, NEW to \in Accounts, NEW n \in Int, PayoutClaim(to, n)
  PROVE  /\ FundsOK'
         /\ claimsPaid' = claimsPaid + n
         /\ n <= availableCapital /\ availableCapital' = availableCapital - n
         /\ n <= Minted
         /\ \A a \in Accounts :
              balance'[a] = IF a = to THEN balance[a] + n ELSE balance[a]
<1>1. /\ balance' \in [Accounts -> Nat] /\ balance'[to] = balance[to] + n
      /\ \A a \in Accounts : a # to => balance'[a] = balance[a]
      /\ poolTokens' \in Nat /\ poolTokens' = poolTokens - n /\ n <= poolTokens /\ n \in Nat
      /\ availableCapital' \in Nat /\ availableCapital' = availableCapital - n
      /\ claimsPaid' = claimsPaid + n
      /\ n <= availableCapital
  BY DEF PayoutClaim, TransferOut, FundsOK
<1>2. /\ SumFunctionOnSet(balance, Providers) \in Nat
      /\ SumFunctionOnSet(balance', Providers) \in Int
      /\ SumFunctionOnSet(balance', Providers) <= SumFunctionOnSet(balance, Providers) + n
  <2>1. balance \in [Accounts -> Nat]
    BY DEF FundsOK
  <2> QED BY <1>1, <2>1, TokensMoved
<1>3. Minted' = Minted /\ Minted \in Int
  BY MintedType DEF Minted
<1> QED BY <1>1, <1>2, <1>3 DEF FundsOK

(* settle_claim: the amount it pays is a number of tokens there are. *)
LEMMA SettleFits ==
  ASSUME SupplyFits \/ AmountsFit, PoliciesOK, RecordsOK, CountedOK, FundsOK,
         NEW c \in DOMAIN claims, SettleClaim(c)
  PROVE  claims[c].amount + policies[claims[c].policy].coverage <= I128Max
<1> DEFINE n == claims[c].amount
           m == policies[claims[c].policy].coverage
<1>1. /\ n \in Int /\ n \in ClaimAmounts /\ claims[c].claimant \in Accounts
      /\ m \in Int /\ m \in CoveragesOffered
  <2>1. claims[c] \in ClaimRecord /\ policies[claims[c].policy] \in PolicyRecord
    BY DEF RecordsOK, PoliciesOK, PolicyTypeOK
  <2> QED
    BY <2>1, ClaimsAssumption DEF CountedOK, AmountsOK, ClaimRecord, PolicyRecord, I128, RecordsOK
<1>2. CASE SupplyFits
  <2>1. n <= Minted
    BY <1>1, PayoutFunds DEF SettleClaim
  <2>2. Minted + m <= I128Max /\ Minted \in Int
    BY <1>1, <1>2, MintedType DEF SupplyFits
  <2> QED BY <1>1, <2>1, <2>2, LedgerAssumption
<1>3. CASE AmountsFit
  BY <1>1, <1>3 DEF AmountsFit
<1> QED BY <1>2, <1>3

\* Inductive when no sum wraps, and what SettledExplainsPaid rests on: beside it
\* the policies and locks in order, and the money that payouts move.
PaidInv ==
  /\ ClaimsInv /\ CountedOK /\ FundsOK
  /\ SettledReceived /\ claimsPaid = ClaimedOn(policies)

(* Nothing is claimed, settled or paid in the beginning. *)
LEMMA PaidInitInv == InsuranceInit => PaidInv
<1> SUFFICES ASSUME InsuranceInit PROVE PaidInv
  OBVIOUS
<1>1. ClaimsInv
  BY ClaimsInitInv
<1>2. policies = <<>> /\ claims = <<>>
  BY DEF InsuranceInit, PolicyInit, ClaimsInit
<1>3. CountedOK
  BY <1>2 DEF CountedOK, AmountsOK, SettledCounted
<1>4. FundsOK
  <2>1. /\ balance \in [Accounts -> Nat] /\ poolTokens = 0
        /\ availableCapital = 0 /\ claimsPaid = 0
        /\ \A p \in Providers : balance[p] = Supply
    BY PoolAssumption DEF InsuranceInit, Accounts
  <2>2. SumFunctionOnSet(balance, Providers) = Minted
    BY <2>1, MintedSum
  <2> QED BY <2>1, <2>2, MintedType DEF FundsOK
<1>5. SettledReceived
  <2>1. ASSUME NEW h \in Holders \ Providers
        PROVE  balance[h] = 0 /\ Worth(claims, SettledFor(h)) = 0
    <3>1. SettledFor(h) = {}
      BY <1>2 DEF SettledFor
    <3>2. balance[h] = 0
      BY ClaimsAssumption DEF InsuranceInit
    <3> QED BY <3>1, <3>2, WorthNone
  <2> QED BY <2>1 DEF SettledReceived
<1>6. claimsPaid = ClaimedOn(policies)
  <2>1. claimsPaid = 0 /\ DOMAIN policies = {}
    BY <1>2 DEF InsuranceInit
  <2> QED BY <2>1, SumEmpty DEF ClaimedOn
<1> QED BY <1>1, <1>3, <1>4, <1>5, <1>6 DEF PaidInv

(* A step of the three contracts keeps the counts and the money, pays holders *)
(* what it settles for them, and the pool pays what the policies count.      *)
LEMMA MoneyStep ==
  ASSUME SupplyFits \/ AmountsFit, ClaimsInv, CountedOK, FundsOK, [InsuranceNext]_vars
  PROVE  /\ CountedOK' /\ FundsOK'
         /\ SettledReceived => SettledReceived'
         /\ \E n \in Int : /\ claimsPaid' = claimsPaid + n
                           /\ ClaimedOn(policies') = ClaimedOn(policies) + n
<1> DEFINE Same == claimsPaid' = claimsPaid /\ ClaimedOn(policies') = ClaimedOn(policies)
           More == \E n \in Int : /\ claimsPaid' = claimsPaid + n
                                  /\ ClaimedOn(policies') = ClaimedOn(policies) + n
<1>0. /\ PoliciesOK /\ RecordsOK /\ claimsPaid \in Int /\ ClaimedOn(policies) \in Int
  BY ClaimsInvParts, ClaimedType DEF FundsOK
<1>s. Same => More
  BY <1>0
<1> SUFFICES CountedOK' /\ FundsOK' /\ (SettledReceived => SettledReceived') /\ More
  OBVIOUS
<1> HIDE DEF More
<1>1. CASE UNCHANGED <<policyVars, poolVars, claimsVars>>
  BY <1>s, <1>1
  DEF CountedOK, AmountsOK, SettledCounted, SettledOf, FundsOK, SettledReceived,
      SettledFor, policyVars, poolVars, claimsVars
<1>2. CASE ClaimsStep /\ UNCHANGED <<now, policyVars, poolVars>>
  <2>1. /\ CountedOK'
        /\ \A h : Worth(claims', SettledFor(h)') = Worth(claims, SettledFor(h))
    BY <1>0, <1>2, ClaimsStepCounted
  <2>2. balance' = balance /\ claimsPaid' = claimsPaid /\ policies' = policies
        /\ availableCapital' = availableCapital /\ poolTokens' = poolTokens
    BY <1>2 DEF poolVars, policyVars
  <2> QED BY <1>s, <2>1, <2>2 DEF FundsOK, SettledReceived
<1>3. CASE /\ PolicyUserStep \/ PolicyGovernanceStep
           /\ UNCHANGED <<now, poolVars, claimsVars>>
  BY <1>0, <1>s, <1>3, PolicyStepCounted
  DEF FundsOK, SettledReceived, SettledFor, claimsVars, poolVars
<1>4. CASE PoolUserStep /\ UNCHANGED <<now, policyVars, claimsVars>>
  <2>1. /\ FundsOK' /\ claimsPaid' = claimsPaid
        /\ \A h \in Holders \ Providers : balance'[h] = balance[h]
    BY <1>4, PoolStepFunds, ClaimsAssumption
  <2>2. policies' = policies /\ claims' = claims
    BY <1>4 DEF policyVars, claimsVars
  <2> QED
    BY <1>s, <2>1, <2>2 DEF CountedOK, AmountsOK, SettledCounted, SettledOf,
                            SettledReceived, SettledFor
<1>5. ASSUME NEW c \in DOMAIN claims, SettleClaim(c)
      PROVE  CountedOK' /\ FundsOK' /\ (SettledReceived => SettledReceived') /\ More
  <2> DEFINE n == claims[c].amount
             to == claims[c].claimant
  <2>1. n \in Int /\ to \in Holders /\ to \in Accounts
    <3>1. claims[c] \in ClaimRecord
      BY <1>0 DEF RecordsOK
    <3> QED BY <3>1, ClaimsAssumption DEF ClaimRecord, I128
  <2>2. PayoutClaim(to, n)
    BY <1>5 DEF SettleClaim
  <2>3. /\ FundsOK' /\ claimsPaid' = claimsPaid + n
        /\ \A a \in Accounts : balance'[a] = IF a = to THEN balance[a] + n ELSE balance[a]
    BY <2>1, <2>2, PayoutFunds
  <2>4. /\ CountedOK'
        /\ ClaimedOn(policies') = ClaimedOn(policies) + n
        /\ \A h : Worth(claims', SettledFor(h)') =
                     IF h = to THEN Worth(claims, SettledFor(h)) + n
                               ELSE Worth(claims, SettledFor(h))
    BY <1>0, <1>5, SettleFits, SettleCounted
  <2>5. SettledReceived => SettledReceived'
    BY <2>3, <2>4, ClaimsAssumption DEF SettledReceived
  <2> QED BY <2>1, <2>3, <2>4, <2>5 DEF More
<1> QED
  BY <1>1, <1>2, <1>3, <1>4, <1>5 DEF InsuranceNext, InsuranceUserNext, vars

(* Every step of the three contracts keeps it. *)
LEMMA PaidInvStep ==
  ASSUME SupplyFits \/ AmountsFit PROVE PaidInv /\ [InsuranceNext]_vars => PaidInv'
<1> SUFFICES ASSUME PaidInv, [InsuranceNext]_vars PROVE PaidInv'
  OBVIOUS
<1>1. /\ ClaimsInv /\ CountedOK /\ FundsOK /\ SettledReceived
      /\ claimsPaid = ClaimedOn(policies)
  BY DEF PaidInv
<1>2. ClaimsInv'
  BY <1>1, ClaimsInvStep
<1>3. CountedOK' /\ FundsOK' /\ SettledReceived' /\ claimsPaid' = ClaimedOn(policies')
  BY <1>1, MoneyStep
<1> QED BY <1>2, <1>3 DEF PaidInv

(* When no coverage is so near i128::MAX that a sum with the tokens there are *)
(* wraps, three contracts and the token tell one story: policies count what   *)
(* was settled, holders have received it, and the pool has paid nothing else, *)
(* whatever amounts are claimed, of which the sum with a coverage may wrap.   *)
THEOREM SettledIsPaid ==
  SupplyFits => (InsuranceSpec => []SettledExplainsPaid)
<1> SUFFICES ASSUME SupplyFits PROVE InsuranceSpec => []SettledExplainsPaid
  OBVIOUS
<1>1. PaidInv => SettledExplainsPaid
  BY DEF PaidInv, CountedOK, SettledCounted, SettledReceived, SettledExplainsPaid
<1>2. PaidInv /\ [InsuranceNext]_vars => PaidInv'
  BY PaidInvStep
<1> QED BY <1>1, <1>2, PaidInitInv, PTL DEF InsuranceSpec

(* No call of holders, Governance or Claims gives an ended policy a status *)
(* that covers again.                                                      *)
LEMMA EndedStep ==
  ASSUME ClaimsInv, [InsuranceNext]_vars
  PROVE  \A id \in DOMAIN policies :
           policies[id].status \in Terminal => policies'[id].status \in Terminal
<1> DEFINE Stays == \A id \in DOMAIN policies :
                      policies[id].status \in Terminal =>
                        policies'[id].status \in Terminal
<1> SUFFICES Stays
  OBVIOUS
<1>1. PoliciesOK /\ RecordsOK
  BY ClaimsInvParts
<1>2. CASE PolicyUserStep \/ PolicyGovernanceStep
  BY <1>1, <1>2, PolicyStepShape
<1>3. ASSUME NEW c \in DOMAIN claims, SettleClaim(c) PROVE Stays
  <2>1. claims[c].policy \in DOMAIN policies
    BY <1>1 DEF RecordsOK
  <2>2. PICK t : policies' = [policies EXCEPT ![claims[c].policy].totalClaimed = t]
    BY <1>3 DEF SettleClaim, UpdateClaimed
  <2>3. ASSUME NEW id \in DOMAIN policies
        PROVE  policies'[id].status = policies[id].status
    <3>1. policies[id] \in PolicyRecord
      BY <1>1 DEF PoliciesOK, PolicyTypeOK
    <3> QED
      BY <2>1, <2>2, <3>1 DEF PolicyRecord
  <2> QED
    BY <2>3
<1>4. CASE UNCHANGED policyVars
  BY <1>4 DEF policyVars
<1> QED
  BY <1>2, <1>3, <1>4 DEF InsuranceNext, InsuranceUserNext, vars

(* A policy that has ended stays ended, whatever is renewed, patched or settled. *)
THEOREM EndedStaysEnded == InsuranceSpec => NeverRevived
<1>1. ClaimsInv /\ [InsuranceNext]_vars =>
        [\A id \in DOMAIN policies :
           policies[id].status \in Terminal =>
             policies'[id].status \in Terminal]_policyVars
  BY EndedStep
<1> QED
  BY <1>1, ClaimsInvariance, PTL DEF InsuranceSpec, NeverRevived

-----------------------------------------------------------------------------
(* The refinement of Indemnity, step by step.                              *)

\* The abstract state, as Indemnity is given it.
Cover == [id \in DOMAIN policies |-> policies[id].coverage]
Paid == [id \in DOMAIN policies |-> policies[id].totalClaimed]
OpenDemand ==
  [id \in DOMAIN policies |->
     IF id \in DOMAIN activeClaim THEN claims[activeClaim[id]].amount ELSE 0]

(* Indemnity, with that state in it. *)
LEMMA AbstractForms ==
  /\ UNCHANGED Abstract!vars <=> UNCHANGED <<Cover, Paid, OpenDemand, availableCapital>>
  /\ Abstract!Init <=>
       Cover = <<>> /\ Paid = <<>> /\ OpenDemand = <<>> /\ availableCapital = 0
  /\ Abstract!Fund <=> availableCapital' >= 0 /\ UNCHANGED <<Cover, Paid, OpenDemand>>
  /\ Abstract!Underwrite <=>
       /\ Len(Cover') = Len(Cover) + 1
       /\ Cover = SubSeq(Cover', 1, Len(Cover))
       /\ Paid' = Append(Paid, 0)
       /\ OpenDemand' = Append(OpenDemand, 0)
       /\ UNCHANGED availableCapital
  /\ \A p :
       /\ Abstract!Recap(p) <=>
            /\ Cover' = [Cover EXCEPT ![p] = Cover'[p]]
            /\ Paid[p] <= Cover'[p]
            /\ UNCHANGED <<Paid, OpenDemand, availableCapital>>
       /\ Abstract!Demand(p) <=>
            /\ OpenDemand[p] = 0
            /\ OpenDemand' = [OpenDemand EXCEPT ![p] = OpenDemand'[p]]
            /\ OpenDemand'[p] > 0
            /\ Paid[p] + OpenDemand'[p] <= Cover[p]
            /\ UNCHANGED <<Cover, Paid, availableCapital>>
       /\ Abstract!Drop(p) <=>
            /\ OpenDemand[p] # 0
            /\ OpenDemand' = [OpenDemand EXCEPT ![p] = 0]
            /\ UNCHANGED <<Cover, Paid, availableCapital>>
       /\ Abstract!Pay(p) <=>
            /\ OpenDemand[p] > 0
            /\ Paid[p] + OpenDemand[p] <= Cover[p]
            /\ OpenDemand[p] <= availableCapital
            /\ Paid' = [Paid EXCEPT ![p] = @ + OpenDemand[p]]
            /\ availableCapital' = availableCapital - OpenDemand[p]
            /\ OpenDemand' = [OpenDemand EXCEPT ![p] = 0]
            /\ UNCHANGED Cover
  BY DEF Abstract!vars, Abstract!Init, Abstract!Fund, Abstract!Underwrite, Abstract!Recap,
         Abstract!Demand, Abstract!Drop, Abstract!Pay, Cover, Paid, OpenDemand

(* The initial states are initial states of Indemnity. *)
LEMMA AbstractInit == InsuranceInit => Abstract!Init
<1> SUFFICES ASSUME InsuranceInit PROVE Abstract!Init
  OBVIOUS
<1>1. DOMAIN policies = {} /\ availableCapital = 0
  BY DEF InsuranceInit, PolicyInit
<1>2. Cover = <<>>
  BY <1>1 DEF Cover
<1>3. Paid = <<>>
  BY <1>1 DEF Paid
<1>4. OpenDemand = <<>>
  BY <1>1 DEF OpenDemand
<1> QED BY <1>1, <1>2, <1>3, <1>4, AbstractForms

\* The types of that state.
AbstractTyped ==
  /\ Len(policies) \in Nat /\ DOMAIN policies = 1 .. Len(policies)
  /\ Cover \in [DOMAIN policies -> Int]
  /\ Paid \in [DOMAIN policies -> Int]
  /\ OpenDemand \in [DOMAIN policies -> Int]

(* The abstract state is typed while policies and claims are in order. *)
LEMMA AbstractTypes == ClaimsInv => AbstractTyped
<1> SUFFICES ASSUME ClaimsInv PROVE AbstractTyped
  OBVIOUS
<1>1. /\ policies \in Seq(PolicyRecord) /\ claims \in Seq(ClaimRecord)
      /\ \A id \in DOMAIN activeClaim : activeClaim[id] \in DOMAIN claims
  BY DEF ClaimsInv, ClaimsTypeOK, PolicyTypeOK
<1>2. \A id \in DOMAIN policies : policies[id].coverage \in Int /\ policies[id].totalClaimed \in Int
  <2>1. \A id \in DOMAIN policies : policies[id] \in PolicyRecord
    BY <1>1
  <2> QED BY <2>1 DEF PolicyRecord
<1>3. \A id \in DOMAIN activeClaim : claims[activeClaim[id]].amount \in Int
  <2>1. \A c \in DOMAIN claims : claims[c] \in ClaimRecord
    BY <1>1
  <2> QED BY <1>1, <2>1 DEF ClaimRecord, I128
<1> QED BY <1>1, <1>2, <1>3 DEF AbstractTyped, Cover, Paid, OpenDemand

(* So it is after a step that keeps them in order. *)
LEMMA AbstractTypesNext == ClaimsInv' => AbstractTyped'
  BY AbstractTypes, PTL

(* A function on the first n numbers, and one that has one more. *)
LEMMA OneMore ==
  ASSUME NEW n \in Nat, NEW f \in [1 .. n -> Int], NEW g \in [1 .. (n + 1) -> Int],
         \A i \in 1 .. n : g[i] = f[i]
  PROVE  /\ g = Append(f, g[n + 1])
         /\ Len(g) = Len(f) + 1
         /\ f = SubSeq(g, 1, Len(f))
<1>1. /\ f \in Seq(Int) /\ g \in Seq(Int)
      /\ Len(f) = n /\ Len(g) = n + 1
  OBVIOUS
<1>2. g = Append(f, g[n + 1])
  BY <1>1
<1>3. f = SubSeq(g, 1, n)
  BY <1>1
<1> QED BY <1>1, <1>2, <1>3

(* issue_policy underwrites. *)
LEMMA IssueRefines ==
  ASSUME ClaimsInv, ClaimsInv', UNCHANGED <<poolVars, claimsVars>>,
         NEW h, NEW c, NEW m, NEW d, IssuePolicy(h, c, m, d)
  PROVE  Abstract!Underwrite
<1> DEFINE n == Len(policies)
<1>1. /\ n \in Nat /\ DOMAIN policies = 1 .. n
      /\ Cover \in [1 .. n -> Int] /\ Paid \in [1 .. n -> Int] /\ OpenDemand \in [1 .. n -> Int]
  BY AbstractTypes DEF AbstractTyped
<1>2. /\ DOMAIN policies' = 1 .. (n + 1)
      /\ policies'[n + 1].totalClaimed = 0
      /\ \A i \in 1 .. n : policies'[i] = policies[i]
  <2>1. policies \in Seq(PolicyRecord)
    BY DEF ClaimsInv, ClaimsTypeOK, PolicyTypeOK
  <2> DEFINE p == [ holder |-> h, coverage |-> c, start |-> now, duration |-> d,
                    status |-> "Active", totalClaimed |-> 0 ]
  <2>2. policies' = Append(policies, p) /\ p.totalClaimed = 0
    BY DEF IssuePolicy
  <2> HIDE DEF p
  <2> QED BY <2>1, <2>2
<1>3. /\ claims' = claims /\ activeClaim' = activeClaim /\ availableCapital' = availableCapital
      /\ n + 1 \notin DOMAIN activeClaim
  <2>1. DOMAIN activeClaim \subseteq 1 .. n
    BY <1>1 DEF ClaimsInv, ClaimsTypeOK
  <2> QED BY <1>1, <2>1 DEF poolVars, claimsVars
<1>4. /\ Cover' \in [1 .. (n + 1) -> Int] /\ Paid' \in [1 .. (n + 1) -> Int]
      /\ OpenDemand' \in [1 .. (n + 1) -> Int]
  BY <1>2, AbstractTypesNext DEF AbstractTyped
<1>5. /\ \A i \in 1 .. n : Cover'[i] = Cover[i] /\ Paid'[i] = Paid[i]
      /\ Paid'[n + 1] = 0
  BY <1>1, <1>2 DEF Cover, Paid
<1>6. /\ \A i \in 1 .. n : OpenDemand'[i] = OpenDemand[i]
      /\ OpenDemand'[n + 1] = 0
  BY <1>1, <1>2, <1>3 DEF OpenDemand
<1> HIDE DEF n
<1>7. /\ Len(Cover') = Len(Cover) + 1
      /\ Cover = SubSeq(Cover', 1, Len(Cover))
      /\ Paid' = Append(Paid, 0)
      /\ OpenDemand' = Append(OpenDemand, 0)
  BY <1>1, <1>4, <1>5, <1>6, OneMore
<1> QED BY <1>3, <1>7, AbstractForms

(* Whatever leaves covers, totals, claims and funds alone changes nothing. *)
LEMMA AbstractStays ==
  ASSUME DOMAIN policies' = DOMAIN policies,
         \A id \in DOMAIN policies : /\ policies'[id].coverage = policies[id].coverage
                                     /\ policies'[id].totalClaimed = policies[id].totalClaimed,
         UNCHANGED <<claims, activeClaim, availableCapital>>
  PROVE  UNCHANGED Abstract!vars
<1>1. Cover' = Cover /\ Paid' = Paid /\ OpenDemand' = OpenDemand
  BY DEF Cover, Paid, OpenDemand
<1> QED BY <1>1, AbstractForms

(* renew_policy, cancel_policy and expire_policy change nothing that is paid. *)
LEMMA LifecycleRefines ==
  ASSUME ClaimsInv, UNCHANGED <<poolVars, claimsVars>>, NEW id \in DOMAIN policies,
         (\E d \in Durations : RenewPolicy(id, d)) \/ CancelPolicy(id) \/ ExpirePolicy(id)
  PROVE  UNCHANGED Abstract!vars
<1>1. PICK p : /\ policies' = [policies EXCEPT ![id] = p]
               /\ p.coverage = policies[id].coverage
               /\ p.totalClaimed = policies[id].totalClaimed
  <2> DEFINE q == policies[id]
  <2>0. q \in PolicyRecord
    BY DEF ClaimsInv, ClaimsTypeOK, PolicyTypeOK
  <2>1. CASE \E d \in Durations : RenewPolicy(id, d)
    <3> PICK d \in Durations : RenewPolicy(id, d)
      BY <2>1
    <3> DEFINE n == (q.duration + d) % (U32Max + 1)
               p == [q EXCEPT !.duration = n, !.status = "Renewed"]
    <3>1. policies' = [policies EXCEPT ![id] = p]
      BY <2>0 DEF RenewPolicy, PolicyRecord
    <3>2. p.coverage = q.coverage /\ p.totalClaimed = q.totalClaimed
      BY <2>0 DEF PolicyRecord
    <3> QED BY <3>1, <3>2
  <2>2. CASE CancelPolicy(id) \/ ExpirePolicy(id)
    <3>1. PICK s : policies' = [policies EXCEPT ![id] = [q EXCEPT !.status = s]]
      BY <2>2 DEF CancelPolicy, ExpirePolicy
    <3>2. /\ [q EXCEPT !.status = s].coverage = q.coverage
          /\ [q EXCEPT !.status = s].totalClaimed = q.totalClaimed
      BY <2>0 DEF PolicyRecord
    <3> QED BY <3>1, <3>2
  <2> QED BY <2>1, <2>2
<1>2. /\ DOMAIN policies' = DOMAIN policies
      /\ \A i \in DOMAIN policies : /\ policies'[i].coverage = policies[i].coverage
                                    /\ policies'[i].totalClaimed = policies[i].totalClaimed
  BY <1>1
<1>3. UNCHANGED <<claims, activeClaim, availableCapital>>
  BY DEF poolVars, claimsVars
<1> QED BY <1>2, <1>3, AbstractStays

(* apply_governance_update changes a cover to no less than what is paid, or not. *)
LEMMA PatchRefines ==
  ASSUME ClaimsInv, UNCHANGED <<poolVars, claimsVars>>, NEW id \in DOMAIN policies,
         NEW patch \in Patches, ApplyGovernanceUpdate(id, patch)
  PROVE  Abstract!Recap(id) \/ UNCHANGED Abstract!vars
<1> DEFINE q == policies[id]
           c == IF patch.coverage = Keep THEN q.coverage ELSE patch.coverage
           s == IF patch.status = Keep THEN q.status ELSE patch.status
           p == [q EXCEPT !.coverage = c, !.status = s]
<1>0. policies \in Seq(PolicyRecord) /\ q \in PolicyRecord
  BY DEF ClaimsInv, ClaimsTypeOK, PolicyTypeOK
<1>1. policies' = [policies EXCEPT ![id] = p]
  BY <1>0 DEF ApplyGovernanceUpdate, Patched, PolicyRecord
<1>2. c = q.coverage \/ q.totalClaimed <= c
  BY DEF ApplyGovernanceUpdate, CoveragePatchAccepted
<1> HIDE DEF c, s
<1>3. p.coverage = c /\ p.totalClaimed = q.totalClaimed
  BY <1>0 DEF PolicyRecord
<1> HIDE DEF p, q
<1>4. /\ DOMAIN policies' = DOMAIN policies
      /\ policies'[id].coverage = c
      /\ \A i \in DOMAIN policies : /\ i # id => policies'[i].coverage = policies[i].coverage
                                    /\ policies'[i].totalClaimed = policies[i].totalClaimed
  BY <1>0, <1>1, <1>3 DEF q
<1>5. UNCHANGED <<claims, activeClaim, availableCapital>>
  BY DEF poolVars, claimsVars
<1>6. CASE c = q.coverage
  BY <1>4, <1>5, <1>6, AbstractStays DEF q
<1>7. CASE q.totalClaimed <= c
  <2>1. Paid' = Paid /\ OpenDemand' = OpenDemand
    BY <1>4, <1>5 DEF Paid, OpenDemand
  <2>2. Cover' = [Cover EXCEPT ![id] = Cover'[id]] /\ Cover'[id] = c
    BY <1>4 DEF Cover
  <2>3. Paid[id] <= Cover'[id]
    BY <1>7, <2>2 DEF Paid, q
  <2> QED BY <1>5, <2>1, <2>2, <2>3, AbstractForms
<1> QED BY <1>2, <1>6, <1>7

(* submit_claim demands its amount, when the sum it is checked by does not wrap. *)
LEMMA SubmitRefines ==
  ASSUME AmountsFit, ClaimsInv, CountedOK, UNCHANGED <<policyVars, poolVars>>,
         NEW id \in DOMAIN policies, NEW n \in ClaimAmounts, SubmitClaim(id, n)
  PROVE  Abstract!Demand(id)
<1> DEFINE q == policies[id]
<1>1. /\ q \in PolicyRecord /\ claims \in Seq(ClaimRecord)
      /\ q.totalClaimed \in I128 /\ q.totalClaimed >= 0
      /\ q.totalClaimed <= q.coverage \/ q.totalClaimed <= 0
      /\ q.coverage \in CoveragesOffered
      /\ n \in I128 /\ n > 0
  BY ClaimsAssumption DEF ClaimsInv, ClaimsTypeOK, PolicyTypeOK, ClaimedWithinCoverage,
                          CountedOK, AmountsOK, SubmitClaim
<1>2. n + q.totalClaimed <= q.coverage
  <2>1. n + q.coverage <= I128Max
    BY <1>1 DEF AmountsFit
  <2>2. q.coverage \in Int /\ n \in Int /\ n <= I128Max /\ q.totalClaimed \in Int
    BY <1>1 DEF PolicyRecord, I128
  <2>3. WrappingAdd(n, q.totalClaimed) <= q.coverage
    BY DEF SubmitClaim
  <2>4. n + q.totalClaimed <= I128Max /\ n + q.totalClaimed >= 0
    BY <1>1, <2>1, <2>2, LedgerAssumption
  <2> QED BY <2>2, <2>3, <2>4, LedgerAssumption DEF WrappingAdd
<1>3. /\ Len(claims') \notin DOMAIN claims /\ claims'[Len(claims')].amount = n
      /\ \A c \in DOMAIN claims : claims'[c] = claims[c]
  <2> DEFINE r == [ policy |-> id, claimant |-> policies[id].holder,
                    amount |-> n, status |-> "Submitted" ]
  <2>1. claims' = Append(claims, r) /\ r.amount = n
    BY DEF SubmitClaim
  <2> HIDE DEF r
  <2> QED BY <1>1, <2>1
<1>4. /\ id \notin DOMAIN activeClaim
      /\ DOMAIN activeClaim' = DOMAIN activeClaim \union {id}
      /\ activeClaim'[id] = Len(claims')
      /\ \A i \in DOMAIN activeClaim : /\ activeClaim'[i] = activeClaim[i]
                                       /\ activeClaim[i] \in DOMAIN claims
  BY DEF SubmitClaim, Locked, ClaimsInv, ClaimsTypeOK
<1>5. policies' = policies /\ availableCapital' = availableCapital
  BY DEF policyVars, poolVars
<1>6. Cover' = Cover /\ Paid' = Paid /\ Cover[id] = q.coverage /\ Paid[id] = q.totalClaimed
  BY <1>5 DEF Cover, Paid
<1>7. /\ OpenDemand[id] = 0 /\ OpenDemand'[id] = n
      /\ OpenDemand' = [OpenDemand EXCEPT ![id] = OpenDemand'[id]]
  BY <1>3, <1>4, <1>5 DEF OpenDemand
<1>8. Paid[id] + OpenDemand'[id] <= Cover[id]
  <2> HIDE DEF q
  <2>1. q.totalClaimed \in Int /\ n \in Int
    BY <1>1 DEF PolicyRecord, I128
  <2>2. q.totalClaimed + n = n + q.totalClaimed
    BY <2>1
  <2> QED BY <1>2, <1>6, <1>7, <2>2
<1> QED BY <1>1, <1>5, <1>6, <1>7, <1>8, AbstractForms

(* start_review and approve_claim leave the amount that is claimed. *)
LEMMA ReviewRefines ==
  ASSUME ClaimsInv, UNCHANGED <<policyVars, poolVars>>,
         NEW c \in DOMAIN claims, StartReview(c) \/ ApproveClaim(c)
  PROVE  UNCHANGED Abstract!vars
<1>0. claims \in Seq(ClaimRecord) /\ policies' = policies
      /\ availableCapital' = availableCapital
      /\ \A id \in DOMAIN activeClaim : activeClaim[id] \in DOMAIN claims
  BY DEF ClaimsInv, ClaimsTypeOK, policyVars, poolVars
<1>1. PICK s \in {"UnderReview", "Approved"} : claims' = [claims EXCEPT ![c].status = s]
  BY DEF StartReview, ApproveClaim
<1>2. activeClaim' = activeClaim
  BY DEF StartReview, ApproveClaim
<1>3. \A d \in DOMAIN claims : claims'[d].amount = claims[d].amount
  <2>1. s \in ClaimStatus
    BY DEF ClaimStatus
  <2> QED BY <1>0, <1>1, <2>1, StatusStep
<1>4. Cover' = Cover /\ Paid' = Paid
  BY <1>0 DEF Cover, Paid
<1>5. OpenDemand' = OpenDemand
  BY <1>0, <1>2, <1>3 DEF OpenDemand
<1> QED BY <1>0, <1>4, <1>5, AbstractForms

(* An open claim is the one its policy's lock names. *)
LEMMA OpenIsDemanded ==
  ASSUME ClaimsInv, CountedOK, NEW c \in DOMAIN claims, claims[c].status \in Open
  PROVE  /\ claims[c].policy \in DOMAIN policies
         /\ claims[c].policy \in DOMAIN activeClaim
         /\ activeClaim[claims[c].policy] = c
         /\ OpenDemand[claims[c].policy] = claims[c].amount
         /\ claims[c].amount \in Int /\ claims[c].amount > 0
<1>1. RecordsOK /\ LocksOK
  BY ClaimsInvParts
<1>2. claims[c] \in ClaimRecord
  BY <1>1 DEF RecordsOK
<1>3. /\ claims[c].policy \in DOMAIN policies
      /\ claims[c].policy \in DOMAIN activeClaim
      /\ activeClaim[claims[c].policy] = c
  BY <1>1 DEF RecordsOK, LocksOK
<1> QED
  BY <1>2, <1>3 DEF OpenDemand, ClaimRecord, I128, CountedOK, AmountsOK

(* Closing a claim leaves its policy without a demand, and others theirs. *)
LEMMA ClosingRefines ==
  ASSUME ClaimsInv, CountedOK, NEW c \in DOMAIN claims, claims[c].status \in Open,
         NEW s \in ClaimStatus, claims' = [claims EXCEPT ![c].status = s],
         activeClaim' = Unlocked(claims[c].policy), DOMAIN policies' = DOMAIN policies
  PROVE  OpenDemand' = [OpenDemand EXCEPT ![claims[c].policy] = 0]
<1>0. claims \in Seq(ClaimRecord)
      /\ \A id \in DOMAIN activeClaim : activeClaim[id] \in DOMAIN claims
  BY DEF ClaimsInv, ClaimsTypeOK
<1>1. \A d \in DOMAIN claims : claims'[d].amount = claims[d].amount
  BY <1>0, StatusStep
<1>2. /\ DOMAIN activeClaim' = DOMAIN activeClaim \ {claims[c].policy}
      /\ \A id \in DOMAIN activeClaim' : activeClaim'[id] = activeClaim[id]
  BY DEF Unlocked
<1> QED BY <1>0, <1>1, <1>2 DEF OpenDemand

(* reject_claim drops the demand. *)
LEMMA RejectRefines ==
  ASSUME ClaimsInv, CountedOK, UNCHANGED <<policyVars, poolVars>>,
         NEW c \in DOMAIN claims, RejectClaim(c)
  PROVE  \E p \in DOMAIN policies : Abstract!Drop(p)
<1>1. claims[c].status \in Open /\ "Rejected" \in ClaimStatus
  BY DEF RejectClaim, Open, ClaimStatus
<1>2. policies' = policies /\ availableCapital' = availableCapital
  BY DEF policyVars, poolVars
<1>3. PICK k \in DOMAIN policies : k = claims[c].policy /\ OpenDemand[k] # 0
  BY <1>1, OpenIsDemanded
<1>4. OpenDemand' = [OpenDemand EXCEPT ![k] = 0]
  BY <1>1, <1>2, <1>3, ClosingRefines DEF RejectClaim
<1>5. Cover' = Cover /\ Paid' = Paid
  BY <1>2 DEF Cover, Paid
<1>6. Abstract!Drop(k)
  BY <1>2, <1>3, <1>4, <1>5, AbstractForms
<1> QED BY <1>3, <1>6

(* settle_claim pays the demand, once and in full. *)
LEMMA SettleRefines ==
  ASSUME AmountsFit, ClaimsInv, CountedOK, FundsOK,
         NEW c \in DOMAIN claims, SettleClaim(c)
  PROVE  \E p \in DOMAIN policies : Abstract!Pay(p)
<1> DEFINE n == claims[c].amount
<1>0. PoliciesOK /\ RecordsOK
  BY ClaimsInvParts
<1>1. claims[c].status \in Open /\ "Settled" \in ClaimStatus
  BY DEF SettleClaim, Open, ClaimStatus
<1>2. PICK k \in DOMAIN policies : k = claims[c].policy /\ OpenDemand[k] = n
  BY <1>0, <1>1, OpenIsDemanded
<1>3. n \in Int /\ n > 0 /\ claims[c].claimant \in Accounts
  <2>1. claims[c] \in ClaimRecord
    BY <1>0 DEF RecordsOK
  <2> QED BY <1>0, <1>1, <2>1, OpenIsDemanded, ClaimsAssumption DEF ClaimRecord
<1>4. /\ DOMAIN policies' = DOMAIN policies
      /\ \A id \in DOMAIN policies :
           /\ policies'[id].coverage = policies[id].coverage
           /\ policies'[id].totalClaimed = IF id = k THEN policies[id].totalClaimed + n
                                                     ELSE policies[id].totalClaimed
  <2>1. n + policies[k].coverage <= I128Max
    BY <1>0, <1>2, SettleFits
  <2> QED BY <1>0, <1>2, <2>1, SettleCounted
<1>5. policies[k].totalClaimed + n <= policies[k].coverage
  <2>1. /\ WrappingAdd(policies[k].totalClaimed, n) <= policies[k].coverage
        /\ policies' = [policies EXCEPT ![k].totalClaimed
                          = WrappingAdd(policies[k].totalClaimed, n)]
    BY <1>2 DEF SettleClaim, UpdateClaimed
  <2>2. policies \in Seq(PolicyRecord) /\ policies[k] \in PolicyRecord
    BY <1>0 DEF PoliciesOK, PolicyTypeOK
  <2>3. policies'[k].totalClaimed = WrappingAdd(policies[k].totalClaimed, n)
    BY <2>1, <2>2 DEF PolicyRecord
  <2> QED BY <1>4, <2>1, <2>3
<1>6. n <= availableCapital /\ availableCapital' = availableCapital - n
  BY <1>0, <1>3, PayoutFunds DEF SettleClaim
<1>7. OpenDemand' = [OpenDemand EXCEPT ![k] = 0]
  BY <1>0, <1>1, <1>2, <1>4, ClosingRefines DEF SettleClaim, CloseSettled
<1> HIDE DEF n
<1>8. /\ Cover' = Cover /\ Paid' = [Paid EXCEPT ![k] = @ + OpenDemand[k]]
      /\ Paid[k] + OpenDemand[k] <= Cover[k]
  BY <1>2, <1>4, <1>5 DEF Cover, Paid
<1>9. Abstract!Pay(k)
  BY <1>2, <1>3, <1>6, <1>7, <1>8, AbstractForms
<1> QED BY <1>9

(* deposit_liquidity and withdraw_liquidity fund. *)
LEMMA PoolRefines ==
  ASSUME FundsOK, PoolUserStep, UNCHANGED <<policyVars, claimsVars>>
  PROVE  Abstract!Fund
<1>1. availableCapital' >= 0
  BY PoolStepFunds DEF FundsOK
<1>2. Cover' = Cover /\ Paid' = Paid /\ OpenDemand' = OpenDemand
  BY DEF policyVars, claimsVars, Cover, Paid, OpenDemand
<1> QED BY <1>1, <1>2, AbstractForms

(* Every step of the three contracts is a step of Indemnity, or none. *)
LEMMA StepRefines ==
  ASSUME AmountsFit
  PROVE  ClaimsInv /\ CountedOK /\ FundsOK /\ ClaimsInv' /\ [InsuranceNext]_vars
           => [Abstract!Next]_(Abstract!vars)
<1> SUFFICES ASSUME ClaimsInv, CountedOK, FundsOK, ClaimsInv', [InsuranceNext]_vars
             PROVE  Abstract!Next \/ UNCHANGED Abstract!vars
  OBVIOUS
<1>1. /\ Abstract!Underwrite => Abstract!Next
      /\ Abstract!Fund => Abstract!Next
      /\ \A p \in DOMAIN policies :
           Abstract!Recap(p) \/ Abstract!Demand(p) \/ Abstract!Drop(p) \/ Abstract!Pay(p)
             => Abstract!Next
  BY DEF Abstract!Next
<1>2. CASE UNCHANGED <<policyVars, poolVars, claimsVars>>
  <2>1. UNCHANGED <<policies, claims, activeClaim, availableCapital>>
    BY <1>2 DEF policyVars, poolVars, claimsVars
  <2> QED BY <2>1, AbstractStays
<1>3. CASE ClaimsStep /\ UNCHANGED <<now, policyVars, poolVars>>
  <2>1. CASE ClaimsSetRole
    <3>1. UNCHANGED <<policies, claims, activeClaim, availableCapital>>
      BY <1>3, <2>1 DEF ClaimsSetRole, policyVars, poolVars
    <3> QED BY <3>1, AbstractStays
  <2>2. CASE \E id \in DOMAIN policies, n \in ClaimAmounts : SubmitClaim(id, n)
    BY <1>1, <1>3, <2>2, SubmitRefines
  <2>3. CASE \E c \in DOMAIN claims : StartReview(c) \/ ApproveClaim(c)
    BY <1>3, <2>3, ReviewRefines
  <2>4. CASE \E c \in DOMAIN claims : RejectClaim(c)
    BY <1>1, <1>3, <2>4, RejectRefines
  <2> QED BY <1>3, <2>1, <2>2, <2>3, <2>4 DEF ClaimsStep
<1>4. CASE PolicyUserStep /\ UNCHANGED <<now, poolVars, claimsVars>>
  <2>1. CASE \E h \in Holders, c \in Coverages, m \in Premiums, d \in Durations :
               IssuePolicy(h, c, m, d)
    BY <1>1, <1>4, <2>1, IssueRefines
  <2>2. CASE \E id \in DOMAIN policies :
               (\E d \in Durations : RenewPolicy(id, d)) \/ CancelPolicy(id) \/ ExpirePolicy(id)
    BY <1>4, <2>2, LifecycleRefines
  <2> QED BY <1>4, <2>1, <2>2 DEF PolicyUserStep
<1>5. CASE PolicyGovernanceStep /\ UNCHANGED <<now, poolVars, claimsVars>>
  <2>1. CASE \E id \in DOMAIN policies, patch \in Patches : ApplyGovernanceUpdate(id, patch)
    BY <1>1, <1>5, <2>1, PatchRefines
  <2>2. CASE \/ PolicySetRole \/ SetClaimsContract \/ SetGovernanceContract
             \/ \E c \in Coverages, m \in Premiums : ApplyGovernanceParams(c, m)
    <3>1. UNCHANGED <<policies, claims, activeClaim, availableCapital>>
      BY <1>5, <2>2 DEF PolicySetRole, SetClaimsContract, SetGovernanceContract,
                        ApplyGovernanceParams, poolVars, claimsVars
    <3> QED BY <3>1, AbstractStays
  <2> QED BY <1>5, <2>1, <2>2 DEF PolicyGovernanceStep
<1>6. CASE PoolUserStep /\ UNCHANGED <<now, policyVars, claimsVars>>
  BY <1>1, <1>6, PoolRefines
<1>7. ASSUME NEW c \in DOMAIN claims, SettleClaim(c) PROVE Abstract!Next
  BY <1>1, <1>7, SettleRefines
<1> QED
  BY <1>2, <1>3, <1>4, <1>5, <1>6, <1>7 DEF InsuranceNext, InsuranceUserNext, vars

(* Policies, claims and the pool together implement Indemnity: when no sum of  *)
(* an amount that is claimed and a coverage wraps, nothing is counted against  *)
(* a policy without an open demand, twice, in part or beyond its cover.        *)
THEOREM CoreImplementsIndemnity ==
  AmountsFit => (InsuranceSpec => ImplementsIndemnity)
<1> SUFFICES ASSUME AmountsFit PROVE InsuranceSpec => ImplementsIndemnity
  OBVIOUS
<1>1. PaidInv /\ [InsuranceNext]_vars => PaidInv'
  BY PaidInvStep
<1>2. PaidInv /\ PaidInv' /\ [InsuranceNext]_vars => [Abstract!Next]_(Abstract!vars)
  BY StepRefines DEF PaidInv
<1> QED
  BY <1>1, <1>2, PaidInitInv, AbstractInit, PTL
  DEF InsuranceSpec, ImplementsIndemnity, Abstract!Spec
=============================================================================
