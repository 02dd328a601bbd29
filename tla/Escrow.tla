------------------------------- MODULE Escrow -------------------------------
(***************************************************************************)
(* The escrow contract (contracts/escrow/src/lib.rs): escrows with a       *)
(* signing committee and an optional time lock, replay protection by       *)
(* nonces, and a circuit breaker over all of it.  The contract keeps the   *)
(* amounts and moves no token.                                             *)
(***************************************************************************)
EXTENDS Ledger, BreakerOps, Sequences, FiniteSetsExt

CONSTANTS
  People,            \* accounts that buy and sign
  Committees,        \* participants offered: sequences of accounts
  MaxParticipants,   \* MAX_PARTICIPANTS
  EscrowAmounts,     \* i128 amounts offered to create_escrow_advanced
  DepositAmounts,    \* i128 amounts offered to deposit_funds
  ApprovalsOffered,  \* ApprovalTypes offered to sign_approval
  RequiredOffered,   \* required_signatures offered
  LocksOffered,      \* release_time_lock offered: times or None
  EscrowPauses,      \* durations offered to pause
  MaxEscrows,        \* bound on EscrowCount
  EscrowGovernor           \* the account holding Governance

ApprovalType == {"Release", "Refund", "EmergencyOverride"}
EscrowStatus == {"Created", "Funded", "Active", "Released"}

ASSUME EscrowAssumption ==
  /\ ApprovalsOffered \subseteq ApprovalType
  /\ \A c \in Committees : c \in Seq(People)
  /\ EscrowAmounts \subseteq I128 /\ DepositAmounts \subseteq I128
  /\ RequiredOffered \subseteq Nat
  /\ LocksOffered \subseteq Nat \union {None}
  /\ MaxEscrows \in Nat
  /\ MaxParticipants \in Nat
  /\ EscrowPauses \subseteq Nat
  /\ MaxTime <= U64Max

VARIABLES
  escrows,        \* Escrow(id) with its MultiSig(id); the count is its length
  signatures,     \* Signature(id, type, signer)
  sigCount,       \* SigCount(id, type)
  nonces,         \* Nonce(buyer)
  storage,        \* Version and FeeBps
  escrowBreaker   \* the circuit breaker

escrowRecords == <<escrows, signatures, sigCount, nonces>>
escrowVars == <<escrowRecords, storage, escrowBreaker>>

SignersOf(e) == {e.signers[i] : i \in DOMAIN e.signers}

\* init writes V2 and a fee of zero; a contract deployed before the migration
\* has neither.
EscrowInit ==
  /\ now = 0
  /\ escrows = <<>>
  /\ signatures = {}
  /\ sigCount = [k \in {} |-> 0]
  /\ nonces = [p \in People |-> 0]
  /\ storage \in {[version |-> 1, fee |-> None], [version |-> 2, fee |-> 0]}
  /\ escrowBreaker = Cleared

\* Mutant: the answer of the breaker is not looked at.
RequireNotPaused_Ignored == escrowBreaker' = SyncResult(escrowBreaker, now)

\* require_not_paused synchronises the breaker; an Err rolls that back.
RequireNotPaused ==
  /\ ~IsPaused(escrowBreaker, now)
  /\ escrowBreaker' = SyncResult(escrowBreaker, now)

ValidMultisig(required, committee) ==
  /\ committee # <<>>
  /\ 1 <= required /\ required <= Len(committee)

\* Mutant: the nonce may skip ahead.
NonceAccepted_Ahead(buyer, nonce) == nonce > nonces[buyer]

NonceAccepted(buyer, nonce) == nonce = nonces[buyer] + 1

CreateEscrow(buyer, amount, committee, required, lock, nonce) ==
  /\ RequireNotPaused
  /\ amount > 0
  /\ NonceAccepted(buyer, nonce)
  /\ Len(committee) <= MaxParticipants
  /\ ValidMultisig(required, committee)
  /\ lock # None => lock > now
  /\ nonces' = [nonces EXCEPT ![buyer] = nonce]
  /\ escrows' = Append(escrows,
       [ buyer |-> buyer, amount |-> amount, deposited |-> 0,
         status |-> "Created", lock |-> lock, required |-> required,
         signers |-> committee ])
  /\ UNCHANGED <<signatures, sigCount, storage>>

\* Mutant: what is already deposited is not counted.
DepositFunds_Alone(id, amount) ==
  LET e == escrows[id]
  IN  /\ RequireNotPaused
      /\ amount > 0
      /\ e.status \in {"Created", "Funded"}
      /\ amount <= e.amount
      /\ escrows' = [escrows EXCEPT
           ![id].deposited = @ + amount,
           ![id].status = IF amount >= e.amount THEN "Active" ELSE "Funded"]
      /\ UNCHANGED <<signatures, sigCount, nonces, storage>>

\* deposit_funds, by anyone; the checked sum stays below the amount.
DepositFunds(id, amount) ==
  LET e == escrows[id]
      total == e.deposited + amount
  IN  /\ RequireNotPaused
      /\ amount > 0
      /\ e.status \in {"Created", "Funded"}
      /\ total <= e.amount
      /\ escrows' = [escrows EXCEPT
           ![id].deposited = total,
           ![id].status = IF total >= e.amount THEN "Active" ELSE "Funded"]
      /\ UNCHANGED <<signatures, sigCount, nonces, storage>>

Count(id, type) ==
  IF <<id, type>> \in DOMAIN sigCount THEN sigCount[<<id, type>>] ELSE 0

\* Mutant: refund signatures count for the release.
ReleaseFunds_AnySignature(id) ==
  LET e == escrows[id]
  IN  /\ RequireNotPaused
      /\ e.status = "Active"
      /\ e.lock # None => now >= e.lock
      /\ Count(id, "Release") + Count(id, "Refund") >= e.required
      /\ escrows' = [escrows EXCEPT ![id].status = "Released",
                                    ![id].deposited = 0]
      /\ UNCHANGED <<signatures, sigCount, nonces, storage>>

\* release_funds, by anyone.
ReleaseFunds(id) ==
  LET e == escrows[id]
  IN  /\ RequireNotPaused
      /\ e.status = "Active"
      /\ e.lock # None => now >= e.lock
      /\ Count(id, "Release") >= e.required
      /\ escrows' = [escrows EXCEPT ![id].status = "Released",
                                    ![id].deposited = 0]
      /\ UNCHANGED <<signatures, sigCount, nonces, storage>>

\* Mutant: a signer may sign again.
SignApproval_Again(id, type, signer) ==
  /\ RequireNotPaused
  /\ signer \in SignersOf(escrows[id])
  /\ signatures' = signatures \union {<<id, type, signer>>}
  /\ sigCount' = [k \in DOMAIN sigCount \union {<<id, type>>} |->
       IF k = <<id, type>> THEN Count(id, type) + 1 ELSE sigCount[k]]
  /\ UNCHANGED <<escrows, nonces, storage>>

\* sign_approval, whatever the status of the escrow.
SignApproval(id, type, signer) ==
  /\ RequireNotPaused
  /\ signer \in SignersOf(escrows[id])
  /\ <<id, type, signer>> \notin signatures
  /\ signatures' = signatures \union {<<id, type, signer>>}
  /\ sigCount' = [k \in DOMAIN sigCount \union {<<id, type>>} |->
       IF k = <<id, type>> THEN Count(id, type) + 1 ELSE sigCount[k]]
  /\ UNCHANGED <<escrows, nonces, storage>>

\* migrate, by the Admin: V1 to V2 once.
MigrateEscrow ==
  /\ storage.version = 1
  /\ storage' = [version |-> 2, fee |-> IF storage.fee = None THEN 0
                                        ELSE storage.fee]
  /\ UNCHANGED <<escrowRecords, escrowBreaker>>

\* pause and emergency_pause by Governance, resume by the Admin, is_paused.
BreakerStep ==
  /\ \/ \E d \in EscrowPauses :
          /\ PauseAccepted(escrowBreaker, now, d)
          /\ escrowBreaker' = PauseResult(escrowBreaker, now, d, EscrowGovernor)
     \/ escrowBreaker' = EmergencyResult(escrowBreaker, now, EscrowGovernor)
     \/ /\ ResumeSchedules(escrowBreaker, now)
        /\ escrowBreaker' = ResumeScheduledResult(escrowBreaker, now)
     \/ ResumeCompletes(escrowBreaker, now) /\ escrowBreaker' = Cleared
     \/ escrowBreaker' = SyncResult(escrowBreaker, now)
  /\ UNCHANGED <<escrowRecords, storage>>

EscrowNext ==
  \/ /\ Len(escrows) < MaxEscrows
     /\ \E b \in People, n \in EscrowAmounts, c \in Committees,
           r \in RequiredOffered, l \in LocksOffered,
           nonce \in 1 .. MaxEscrows + 1 :
          CreateEscrow(b, n, c, r, l, nonce)
  \/ \E id \in DOMAIN escrows :
       \/ \E n \in DepositAmounts : DepositFunds(id, n)
       \/ ReleaseFunds(id)
       \/ \E t \in ApprovalsOffered, p \in People : SignApproval(id, t, p)
  \/ MigrateEscrow \/ BreakerStep

EscrowStep ==
  \/ EscrowNext /\ UNCHANGED now
  \/ Tick /\ UNCHANGED escrowVars

EscrowSpec == EscrowInit /\ [][EscrowStep]_<<now, escrowVars>>

-----------------------------------------------------------------------------
EscrowData ==
  [ buyer : People, amount : Nat \ {0}, deposited : Nat,
    status : EscrowStatus, lock : Nat \union {None}, required : Nat \ {0},
    signers : Committees ]

\* Escrows, signatures, nonces and the breaker have their types, and the fee
\* is set in every contract at version 2.
EscrowTypeOK ==
  /\ now \in 0 .. MaxTime
  /\ escrows \in Seq(EscrowData)
  /\ signatures \subseteq (DOMAIN escrows) \X ApprovalType \X People
  /\ DOMAIN sigCount \subseteq (DOMAIN escrows) \X ApprovalType
  /\ nonces \in [People -> Nat]
  /\ storage \in {[version |-> 1, fee |-> None], [version |-> 2, fee |-> 0]}
  /\ escrowBreaker \in BreakerState({EscrowGovernor})

\* The signature counter release_funds trusts counts distinct signers, every
\* one of them in the committee (docs/verification.md:56).
SigCountIsSignatures ==
  \A id \in DOMAIN escrows, t \in ApprovalType :
    LET signed == {p \in People : <<id, t, p>> \in signatures}
    IN  Count(id, t) = Cardinality(signed) /\ signed \subseteq SignersOf(escrows[id])

\* The status says how much is held: nothing, part or all of the amount, and
\* nothing again after the release.
StatusFollowsDeposit ==
  \A id \in DOMAIN escrows :
    LET e == escrows[id]
    IN  CASE e.status \in {"Created", "Released"} -> e.deposited = 0
          [] e.status = "Funded" -> 0 < e.deposited /\ e.deposited < e.amount
          [] e.status = "Active" -> e.deposited = e.amount

\* Money is released after the lock, with the signatures the escrow asked for
\* when it was created, each for a release, however the calls are ordered.
ReleasedWasApproved ==
  \A id \in DOMAIN escrows : escrows[id].status = "Released" =>
    /\ escrows[id].lock # None => now >= escrows[id].lock
    /\ Cardinality({p \in SignersOf(escrows[id]) :
                      <<id, "Release", p>> \in signatures})
         >= escrows[id].required

\* A nonce creates one escrow: a buyer's nonce is the number of the escrows
\* created for it (docs/verification.md:55), so no request is replayed.
NonceCountsEscrows ==
  \A b \in People :
    nonces[b] = Cardinality({id \in DOMAIN escrows : escrows[id].buyer = b})

\* Nothing is created, deposited, signed or released while the breaker's
\* effective state is paused.
FrozenWhilePaused ==
  [][ IsPaused(escrowBreaker, now) => UNCHANGED escrowRecords ]_escrowVars

\* What the contract keeps beside its records agrees with them: the cached
\* signature counts with the signatures, a status with the deposit, a buyer's
\* nonce with the escrows the buyer has created.
SummariesAgree == SigCountIsSignatures /\ StatusFollowsDeposit /\ NonceCountsEscrows

\* The two together: what a release trusts is what was signed, and what was
\* released had all of it.
EscrowIsHonest == SummariesAgree /\ ReleasedWasApproved
=============================================================================
