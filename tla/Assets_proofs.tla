---------------------------- MODULE Assets_proofs ----------------------------
(***************************************************************************)
(* TLAPS proofs about the contracts of MCAssets, each on its own under the *)
(* clock of the ledger: they hold for every set of accounts, every         *)
(* threshold and every amount.                                             *)
(***************************************************************************)
EXTENDS MCAssets, Operators_proofs

(* A sequence with one of its elements replaced, if it has that element.     *)
LEMMA SeqUpdate ==
  ASSUME NEW S, NEW s \in Seq(S), NEW i, NEW e \in S
  PROVE  /\ [s EXCEPT ![i] = e] \in Seq(S) /\ Len([s EXCEPT ![i] = e]) = Len(s)
         /\ DOMAIN [s EXCEPT ![i] = e] = DOMAIN s
<1>1. CASE i \in DOMAIN s
  BY <1>1
<1>2. CASE i \notin DOMAIN s
  <2>1. [s EXCEPT ![i] = e] = s
    BY <1>2
  <2> QED
    BY <2>1
<1> QED
  BY <1>1, <1>2

-----------------------------------------------------------------------------
(* The bridge.                                                             *)

BridgeStatus == {"Pending", "Locked", "Completed", "Failed"}

BridgeRequest ==
  [sender : Senders, required : MinSignatures .. MaxSignatures, signatures : SUBSET Signers,
   status : BridgeStatus, expires : Nat \union {None}]

\* Executions of a request, with the one that its lock allows.
Due(r, n) == n + (IF r.status = "Locked" THEN 1 ELSE 0)

\* The further signers pay for the executions beyond the first.
Earned(r, n) ==
  /\ n \in Nat /\ IsFiniteSet(r.signatures)
  /\ Due(r, n) > 0 => Due(r, n) + r.required <= Cardinality(r.signatures) + 1

\* The inductive invariant: the types the count needs, and the count.
BridgeInv ==
  /\ now \in Nat /\ operators \subseteq Signers
  /\ request \in Seq(BridgeRequest) /\ runs \in Seq(Nat) /\ DOMAIN runs = DOMAIN request
  /\ \A id \in DOMAIN request : Earned(request[id], runs[id])

(* A further signature, whatever it says, keeps the count: it is one signer  *)
(* more, and it locks the request at most once.                              *)
LEMMA SignatureEarns ==
  ASSUME NEW r \in BridgeRequest, NEW n, Earned(r, n), NEW op \in Signers \ r.signatures,
         NEW q \in BridgeRequest, q.required = r.required,
         q.signatures = r.signatures \union {op},
         \/ q.status \in {r.status, "Failed"}
         \/ q.status = "Locked" /\ Cardinality(q.signatures) >= r.required
  PROVE  Earned(q, n)
<1>1. /\ IsFiniteSet(q.signatures) /\ Cardinality(q.signatures) = Cardinality(r.signatures) + 1
      /\ Cardinality(r.signatures) \in Nat
  BY FS_AddElement, FS_CardinalityType DEF Earned
<1>2. r.required \in Nat
  BY BridgeAssumption DEF BridgeRequest
<1>3. CASE q.status = r.status
  BY <1>1, <1>2, <1>3 DEF Earned, Due
<1>4. CASE q.status = "Failed"
  BY <1>1, <1>2, <1>4 DEF Earned, Due
<1>5. CASE q.status = "Locked" /\ Cardinality(q.signatures) >= r.required
  BY <1>1, <1>2, <1>5 DEF Earned, Due
<1> QED
  BY <1>3, <1>4, <1>5

LEMMA InitiateEarns ==
  ASSUME BridgeInv, NEW s \in Senders, NEW n \in MinSignatures .. MaxSignatures,
         NEW t \in Timeouts, InitiateBridge(s, n, t), UNCHANGED now
  PROVE  BridgeInv'
<1> DEFINE r == [sender |-> s, required |-> n, signatures |-> {}, status |-> "Pending",
                 expires |-> IF t = None THEN None ELSE now + t]
<1>1. r \in BridgeRequest /\ Earned(r, 0)
  <2>1. r \in BridgeRequest
    BY BridgeAssumption DEF BridgeInv, BridgeRequest, BridgeStatus
  <2>2. Earned(r, 0)
    BY FS_EmptySet DEF Earned, Due
  <2> QED
    BY <2>1, <2>2
<1>2. request' = Append(request, r) /\ runs' = Append(runs, 0) /\ UNCHANGED <<operators, now>>
  BY DEF InitiateBridge
<1> HIDE DEF r
<1>3. Len(runs) = Len(request)
  BY DEF BridgeInv
<1>4. /\ request' \in Seq(BridgeRequest) /\ DOMAIN request' = 1 .. Len(request) + 1
      /\ runs' \in Seq(Nat) /\ DOMAIN runs' = 1 .. Len(request) + 1
      /\ \A id \in 1 .. Len(request) : request'[id] = request[id] /\ runs'[id] = runs[id]
      /\ request'[Len(request) + 1] = r /\ runs'[Len(request) + 1] = 0
  BY <1>1, <1>2, <1>3 DEF BridgeInv
<1>5. ASSUME NEW id \in DOMAIN request' PROVE Earned(request'[id], runs'[id])
  <2>1. CASE id \in 1 .. Len(request)
    BY <1>4, <2>1 DEF BridgeInv
  <2>2. CASE id = Len(request) + 1
    BY <1>1, <1>4, <2>2
  <2> QED
    BY <1>4, <1>5, <2>1, <2>2 DEF BridgeInv
<1> QED
  BY <1>2, <1>4, <1>5 DEF BridgeInv

(* A step that changes one request, and the executions counted for it.       *)
LEMMA OneRequestEarns ==
  ASSUME BridgeInv, NEW id \in DOMAIN request, NEW q \in BridgeRequest, NEW n, Earned(q, n),
         request' = [request EXCEPT ![id] = q], runs' = [runs EXCEPT ![id] = n],
         UNCHANGED <<now, operators>>
  PROVE  BridgeInv'
<1>1. n \in Nat
  BY DEF Earned
<1>2. /\ request' \in Seq(BridgeRequest) /\ DOMAIN request' = DOMAIN request
      /\ runs' \in Seq(Nat) /\ DOMAIN runs' = DOMAIN runs
  BY <1>1 DEF BridgeInv
<1>3. \A i \in DOMAIN request' : Earned(request'[i], runs'[i])
  BY <1>2 DEF BridgeInv
<1> QED
  BY <1>2, <1>3 DEF BridgeInv

LEMMA SignEarns ==
  ASSUME BridgeInv, NEW id \in DOMAIN request, NEW op \in Signers, NEW approve \in BOOLEAN,
         SignBridge(op, id, approve), UNCHANGED now
  PROVE  BridgeInv'
<1> DEFINE r == request[id]
           signed == r.signatures \union {op}
           q == [r EXCEPT !.signatures = signed,
                   !.status = IF ~approve THEN "Failed"
                              ELSE IF Cardinality(signed) >= r.required THEN "Locked" ELSE @]
<1>1. r \in BridgeRequest /\ Earned(r, runs[id]) /\ op \notin r.signatures
  BY DEF BridgeInv, SignBridge
<1>2. /\ q \in BridgeRequest /\ q.required = r.required /\ q.signatures = signed
      /\ \/ q.status \in {r.status, "Failed"}
         \/ q.status = "Locked" /\ Cardinality(signed) >= r.required
  BY <1>1 DEF BridgeRequest, BridgeStatus
<1>3. /\ request' = [request EXCEPT ![id] = q]
      /\ runs' = [runs EXCEPT ![id] = runs[id]] /\ UNCHANGED <<now, operators>>
  <2>1. request' = [request EXCEPT ![id] = q] /\ UNCHANGED <<now, operators>> /\ runs' = runs
    BY DEF SignBridge
  <2>2. runs = [runs EXCEPT ![id] = runs[id]]
    BY DEF BridgeInv
  <2> QED
    BY <2>1, <2>2
<1> HIDE DEF q
<1>4. Earned(q, runs[id])
  BY <1>1, <1>2, SignatureEarns
<1> QED
  BY <1>2, <1>3, <1>4, OneRequestEarns

LEMMA ExecuteEarns ==
  ASSUME BridgeInv, NEW id \in DOMAIN request, NEW op \in Signers,
         ExecuteBridge(op, id), UNCHANGED now
  PROVE  BridgeInv'
<1> DEFINE r == request[id]
           q == [r EXCEPT !.status = "Completed"]
<1>1. r \in BridgeRequest /\ Earned(r, runs[id]) /\ r.status = "Locked"
  BY DEF BridgeInv, ExecuteBridge
<1>2. /\ q \in BridgeRequest /\ q.required = r.required /\ q.signatures = r.signatures
      /\ q.status = "Completed"
  BY <1>1 DEF BridgeRequest, BridgeStatus
<1>3. request' = [request EXCEPT ![id] = q] /\ runs' = [runs EXCEPT ![id] = runs[id] + 1]
      /\ UNCHANGED <<now, operators>>
  BY DEF BridgeInv, ExecuteBridge
<1> HIDE DEF q
<1>4. Earned(q, runs[id] + 1)
  BY <1>1, <1>2 DEF Earned, Due
<1> QED
  BY <1>2, <1>3, <1>4, OneRequestEarns

LEMMA RecoverEarns ==
  ASSUME BridgeInv, NEW id \in DOMAIN request, NEW retry \in BOOLEAN,
         RecoverBridge(id, retry), UNCHANGED now
  PROVE  BridgeInv'
<1>1. CASE retry
  <2> DEFINE q == [request[id] EXCEPT !.status = "Pending", !.signatures = {}]
  <2>1. request[id] \in BridgeRequest
    BY DEF BridgeInv
  <2>2. q \in BridgeRequest /\ q.signatures = {} /\ q.status = "Pending"
    BY <2>1 DEF BridgeRequest, BridgeStatus
  <2>3. request' = [request EXCEPT ![id] = q] /\ runs' = [runs EXCEPT ![id] = 0]
        /\ UNCHANGED <<now, operators>>
    BY <1>1 DEF RecoverBridge
  <2> HIDE DEF q
  <2>4. Earned(q, 0)
    BY <2>2, FS_EmptySet DEF Earned, Due
  <2> QED
    BY <2>2, <2>3, <2>4, OneRequestEarns
<1>2. CASE ~retry
  BY <1>2 DEF RecoverBridge, BridgeInv
<1> QED
  BY <1>1, <1>2

LEMMA BridgeInitInv == now = 0 /\ BridgeInit => BridgeInv
  BY BridgeAssumption DEF BridgeInit, BridgeInv

LEMMA BridgeStepInv == BridgeInv /\ [BridgeStep]_<<now, bridgeVars>> => BridgeInv'
<1> SUFFICES ASSUME BridgeInv, [BridgeStep]_<<now, bridgeVars>> PROVE BridgeInv'
  OBVIOUS
<1>1. CASE UNCHANGED bridgeVars /\ (Tick \/ UNCHANGED now)
  BY <1>1 DEF bridgeVars, BridgeInv, Tick
<1>2. ASSUME BridgeNext, UNCHANGED now PROVE BridgeInv'
  <2>1. ASSUME NEW s \in Senders, NEW n \in MinSignatures .. MaxSignatures,
               NEW t \in Timeouts, InitiateBridge(s, n, t)
        PROVE  BridgeInv'
    BY <1>2, <2>1, InitiateEarns
  <2>2. ASSUME NEW id \in DOMAIN request, NEW op \in Signers, NEW approve \in BOOLEAN,
               SignBridge(op, id, approve)
        PROVE  BridgeInv'
    BY <1>2, <2>2, SignEarns
  <2>3. ASSUME NEW id \in DOMAIN request, NEW op \in Signers, ExecuteBridge(op, id)
        PROVE  BridgeInv'
    BY <1>2, <2>3, ExecuteEarns
  <2>4. ASSUME NEW id \in DOMAIN request, NEW retry \in BOOLEAN, RecoverBridge(id, retry)
        PROVE  BridgeInv'
    BY <1>2, <2>4, RecoverEarns
  <2>5. ASSUME NEW op \in Signers, AddBridgeOperator(op) \/ RemoveBridgeOperator(op)
        PROVE  BridgeInv'
    BY <1>2, <2>5 DEF BridgeInv, AddBridgeOperator, RemoveBridgeOperator
  <2>6. CASE BridgeBreakerStep
    BY <1>2, <2>6 DEF BridgeInv, BridgeBreakerStep
  <2> QED
    BY <1>2, <2>1, <2>2, <2>3, <2>4, <2>5, <2>6 DEF BridgeNext
<1> QED
  BY <1>1, <1>2 DEF BridgeStep

(* However requests are signed, rejected, executed and recovered, and the    *)
(* operators change meanwhile: what a request can be executed for, and has   *)
(* been, since its last recovery was signed by as many distinct operators as *)
(* it asked for, and one more for each execution after the first.            *)
THEOREM ExecutionsAreSigned == BridgeSpec => []EachExecutionIsSigned
<1>1. BridgeInv => EachExecutionIsSigned
  BY DEF BridgeInv, Earned, Due, EachExecutionIsSigned
<1> QED
  BY <1>1, BridgeInitInv, BridgeStepInv, PTL DEF BridgeSpec

-----------------------------------------------------------------------------
(* The property token.                                                     *)

TransferRecord ==
  [token : Nat, chain : Chains, sender : Owners, required : MinSigs .. MaxSigs,
   signatures : SUBSET Guards, expires : Nat,
   status : {"Pending", "Locked", "Completed", "Failed"}]

TokenTyped ==
  /\ now \in Nat /\ guards \subseteq Guards
  /\ tokenOwner \in Seq(Owners \union {Zero, None})
  /\ transfers \in Seq(TransferRecord) /\ pendingOf \in Seq(Nat \union {None})

\* A slot is empty or names a request of its token that is open.
SlotIsOpen(slot, t, requests_) ==
  slot # None => /\ slot \in DOMAIN requests_
                 /\ requests_[slot].token = t
                 /\ requests_[slot].status \in {"Pending", "Locked"}

\* The inductive invariant: the types, and every slot with the request it names.
TokenInv ==
  TokenTyped /\ \A t \in DOMAIN pendingOf : SlotIsOpen(pendingOf[t], t, transfers)

(* New tokens have no slot taken.                                            *)
LEMMA MintInv ==
  ASSUME TokenInv, NEW o \in Owners, NEW b, MintTo(o, b), UNCHANGED <<transfers, guards, now>>
  PROVE  TokenInv'
<1>1. TokenTyped'
  BY DEF TokenInv, TokenTyped, MintTo
<1>2. ASSUME NEW t \in DOMAIN pendingOf' PROVE SlotIsOpen(pendingOf'[t], t, transfers')
  <2>1. /\ pendingOf' = Append(pendingOf, None) /\ pendingOf \in Seq(Nat \union {None})
        /\ transfers' = transfers
    BY DEF MintTo, TokenInv, TokenTyped
  <2>2. CASE t \in DOMAIN pendingOf
    BY <2>1, <2>2 DEF TokenInv
  <2>3. CASE t \notin DOMAIN pendingOf
    <3>1. pendingOf'[t] = None
      BY <2>1, <2>3
    <3> QED
      BY <3>1 DEF SlotIsOpen
  <2> QED
    BY <2>2, <2>3
<1> QED
  BY <1>1, <1>2 DEF TokenInv

LEMMA TransferInv ==
  ASSUME TokenInv, NEW o \in Owners, NEW t \in DOMAIN tokenOwner, NEW c \in Chains,
         NEW n \in MinSigs .. MaxSigs, NEW d \in RequestTimeouts,
         InitiateTransfer(o, t, c, n, d), UNCHANGED now
  PROVE  TokenInv'
<1> DEFINE r == [token |-> t, chain |-> c, sender |-> o, required |-> n, signatures |-> {},
                 expires |-> now + d, status |-> "Pending"]
<1>1. r \in TransferRecord /\ r.token = t /\ r.status = "Pending"
  BY TokenAssumption DEF TokenInv, TokenTyped, TransferRecord
<1>2. /\ transfers' = Append(transfers, r)
      /\ pendingOf' = [pendingOf EXCEPT ![t] = Len(transfers) + 1]
      /\ UNCHANGED <<now, guards, tokenOwner>>
  BY DEF InitiateTransfer, tokenVars
<1> HIDE DEF r
<1>3. TokenTyped'
  <2>1. Len(transfers) + 1 \in Nat \union {None} /\ pendingOf \in Seq(Nat \union {None})
    BY DEF TokenInv, TokenTyped
  <2>2. pendingOf' \in Seq(Nat \union {None})
    BY <1>2, <2>1, SeqUpdate
  <2> QED
    BY <1>1, <1>2, <2>2 DEF TokenInv, TokenTyped
<1>4. /\ DOMAIN transfers \subseteq DOMAIN transfers'
      /\ \A i \in DOMAIN transfers : transfers'[i] = transfers[i]
      /\ Len(transfers) + 1 \in DOMAIN transfers' /\ transfers'[Len(transfers) + 1] = r
  BY <1>1, <1>2 DEF TokenInv, TokenTyped
<1>5. ASSUME NEW u \in DOMAIN pendingOf' PROVE SlotIsOpen(pendingOf'[u], u, transfers')
  <2>1. u \in DOMAIN pendingOf /\ SlotIsOpen(pendingOf[u], u, transfers)
    BY <1>2 DEF TokenInv, TokenTyped
  <2>2. CASE u = t
    BY <1>1, <1>2, <1>4, <2>1, <2>2 DEF SlotIsOpen
  <2>3. CASE u # t
    BY <1>2, <1>4, <2>1, <2>3 DEF SlotIsOpen
  <2> QED
    BY <2>2, <2>3
<1> QED
  BY <1>3, <1>5 DEF TokenInv

(* A change of one request: either it stays open, or it gives its token's    *)
(* slot back.                                                                *)
LEMMA RequestChanges ==
  ASSUME TokenInv, NEW r \in DOMAIN transfers, NEW q \in TransferRecord,
         q.token = transfers[r].token,
         transfers' = [transfers EXCEPT ![r] = q],
         \/ pendingOf' = [pendingOf EXCEPT ![q.token] = None]
         \/ q.status \in {"Pending", "Locked"}
              /\ (pendingOf' = pendingOf \/ pendingOf' = [pendingOf EXCEPT ![q.token] = r]),
         tokenOwner' \in Seq(Owners \union {Zero, None}), UNCHANGED <<now, guards>>
  PROVE  TokenInv'
<1>1. r \in Nat
  BY DEF TokenInv, TokenTyped
<1>2. TokenTyped'
  <2>1. transfers' \in Seq(TransferRecord)
    BY SeqUpdate DEF TokenInv, TokenTyped
  <2>2. pendingOf' \in Seq(Nat \union {None})
    <3>1. pendingOf \in Seq(Nat \union {None}) /\ r \in Nat \union {None}
      BY <1>1 DEF TokenInv, TokenTyped
    <3>2. /\ [pendingOf EXCEPT ![q.token] = None] \in Seq(Nat \union {None})
          /\ [pendingOf EXCEPT ![q.token] = r] \in Seq(Nat \union {None})
      BY <3>1, SeqUpdate
    <3> QED
      BY <3>1, <3>2
  <2> QED
    BY <2>1, <2>2 DEF TokenInv, TokenTyped
<1>3. ASSUME NEW u \in DOMAIN pendingOf' PROVE SlotIsOpen(pendingOf'[u], u, transfers')
  <2>1. /\ u \in DOMAIN pendingOf /\ SlotIsOpen(pendingOf[u], u, transfers)
        /\ DOMAIN transfers' = DOMAIN transfers /\ transfers'[r] = q
        /\ \A i \in DOMAIN transfers \ {r} : transfers'[i] = transfers[i]
    BY DEF TokenInv, TokenTyped
  <2>2. CASE pendingOf' = [pendingOf EXCEPT ![q.token] = None]
    <3>1. CASE u = q.token
      BY <2>1, <2>2, <3>1 DEF SlotIsOpen
    <3>2. CASE u # q.token
      BY <2>1, <2>2, <3>2 DEF SlotIsOpen
    <3> QED
      BY <3>1, <3>2
  <2>3. CASE q.status \in {"Pending", "Locked"} /\ pendingOf' = pendingOf
    BY <2>1, <2>3 DEF SlotIsOpen
  <2>4. CASE q.status \in {"Pending", "Locked"} /\ pendingOf' = [pendingOf EXCEPT ![q.token] = r]
    <3>1. CASE u = q.token
      BY <2>1, <2>4, <3>1 DEF SlotIsOpen
    <3>2. CASE u # q.token
      BY <2>1, <2>4, <3>2 DEF SlotIsOpen
    <3> QED
      BY <3>1, <3>2
  <2> QED
    BY <2>2, <2>3, <2>4
<1> QED
  BY <1>2, <1>3 DEF TokenInv

LEMMA SignTransferInv ==
  ASSUME TokenInv, NEW r \in DOMAIN transfers, NEW op \in Guards, NEW approve \in BOOLEAN,
         SignTransfer(op, r, approve), UNCHANGED now
  PROVE  TokenInv'
<1> DEFINE signed == transfers[r].signatures \union {op}
           locks == approve /\ ValidSignatures(signed) >= transfers[r].required
           q == [transfers[r] EXCEPT !.signatures = signed,
                   !.status = IF locks THEN "Locked" ELSE IF approve THEN @ ELSE "Failed"]
<1>1. transfers[r] \in TransferRecord /\ transfers[r].status = "Pending"
  BY DEF TokenInv, TokenTyped, SignTransfer
<1>2. /\ q \in TransferRecord /\ q.token = transfers[r].token
      /\ approve => q.status \in {"Pending", "Locked"}
  BY <1>1 DEF TransferRecord
<1>3. /\ transfers' = [transfers EXCEPT ![r] = q] /\ UNCHANGED <<now, guards>>
      /\ pendingOf' = IF approve THEN pendingOf
                      ELSE [pendingOf EXCEPT ![transfers[r].token] = None]
  BY DEF SignTransfer, adminVars
<1>4. tokenOwner' \in Seq(Owners \union {Zero, None})
  BY SeqUpdate DEF SignTransfer, TokenInv, TokenTyped
<1> HIDE DEF q
<1> QED
  BY <1>2, <1>3, <1>4, RequestChanges

LEMMA ExecuteTransferInv ==
  ASSUME TokenInv, NEW r \in DOMAIN transfers, NEW op \in Guards,
         ExecuteTransfer(op, r), UNCHANGED now
  PROVE  TokenInv'
<1> DEFINE q == [transfers[r] EXCEPT !.status = "Completed"]
<1>1. transfers[r] \in TransferRecord
  BY DEF TokenInv, TokenTyped
<1>2. q \in TransferRecord /\ q.token = transfers[r].token
  BY <1>1 DEF TransferRecord
<1>3. /\ transfers' = [transfers EXCEPT ![r] = q] /\ UNCHANGED <<now, guards>>
      /\ pendingOf' = [pendingOf EXCEPT ![transfers[r].token] = None]
      /\ tokenOwner' \in Seq(Owners \union {Zero, None})
  BY DEF ExecuteTransfer, adminVars, tokenVars, TokenInv, TokenTyped
<1> HIDE DEF q
<1> QED
  BY <1>2, <1>3, RequestChanges

LEMMA RecoverTransferInv ==
  ASSUME TokenInv, NEW r \in DOMAIN transfers, NEW a, RecoverTransfer(r, a), UNCHANGED now
  PROVE  TokenInv'
<1>1. transfers[r] \in TransferRecord
  BY DEF TokenInv, TokenTyped
<1>2. tokenOwner' \in Seq(Owners \union {Zero, None}) /\ UNCHANGED <<now, guards>>
  <2>1. /\ tokenOwner \in Seq(Owners \union {Zero, None})
        /\ transfers[r].sender \in Owners \union {Zero, None}
    BY <1>1 DEF TokenInv, TokenTyped, TransferRecord
  <2>2. \A t : [tokenOwner EXCEPT ![t] = transfers[r].sender] \in Seq(Owners \union {Zero, None})
    BY <2>1, SeqUpdate
  <2> QED
    BY <2>1, <2>2 DEF RecoverTransfer, adminVars
<1>3. CASE a = "RetryBridge"
  <2> DEFINE q == [transfers[r] EXCEPT !.status = "Pending", !.signatures = {}]
  <2>1. q \in TransferRecord /\ q.token = transfers[r].token /\ q.status = "Pending"
    BY <1>1 DEF TransferRecord
  <2>2. /\ transfers' = [transfers EXCEPT ![r] = q]
        /\ pendingOf' = [pendingOf EXCEPT ![transfers[r].token] = r]
    BY <1>3 DEF RecoverTransfer
  <2> HIDE DEF q
  <2> QED
    BY <1>2, <2>1, <2>2, RequestChanges
<1>4. CASE a # "RetryBridge"
  <2>1. UNCHANGED <<transfers, pendingOf>>
    BY <1>4 DEF RecoverTransfer
  <2> QED
    BY <1>2, <2>1 DEF TokenInv, TokenTyped
<1> QED
  BY <1>3, <1>4

LEMMA TokenInitInv == now = 0 /\ TokenInit => TokenInv
  BY TokenAssumption DEF TokenInit, TokenInv, TokenTyped

(* What a step of the token may do to a request or to an owner: the cases    *)
(* that the two theorems below are about.                                    *)
LEMMA TokenCases ==
  ASSUME TokenInv, TokenNext
  PROVE  \/ \E o \in Owners, b \in BOOLEAN :
              MintTo(o, b) /\ UNCHANGED <<transfers, guards>>
         \/ \E o \in Owners, t \in DOMAIN tokenOwner, c \in Chains, n \in MinSigs .. MaxSigs,
              d \in RequestTimeouts : InitiateTransfer(o, t, c, n, d)
         \/ \E o \in Owners, t \in DOMAIN tokenOwner, c \in Chains : BurnBridged(o, t, c)
         \/ \E r \in DOMAIN transfers :
              \/ \E op \in Guards, approve \in BOOLEAN : SignTransfer(op, r, approve)
              \/ \E op \in Guards : ExecuteTransfer(op, r)
              \/ \E a \in {"UnlockToken", "RefundGas", "RetryBridge", "CancelBridge"} :
                   RecoverTransfer(r, a)
         \/ UNCHANGED <<tokenOwner, transfers, pendingOf>> /\ guards' \subseteq Guards
<1>1. guards \subseteq Guards
  BY DEF TokenInv, TokenTyped
<1>2. ASSUME NEW o \in Owners, RegisterProperty(o)
      PROVE  MintTo(o, FALSE) /\ UNCHANGED <<transfers, guards>>
  BY <1>2 DEF RegisterProperty, adminVars
<1>3. ASSUME NEW o, NEW t, NEW p, NEW c,
             ApproveToken(o, p, t) \/ TransferFrom(c, o, p, t)
      PROVE  UNCHANGED <<tokenOwner, transfers, pendingOf, guards>>
  BY <1>3 DEF ApproveToken, TransferFrom, requestVars
<1>4. ASSUME NEW t, NEW b, VerifyCompliance(t, b)
      PROVE  UNCHANGED <<tokenOwner, transfers, pendingOf, guards>>
  BY <1>4 DEF VerifyCompliance, requestVars, adminVars
<1>5. ASSUME NEW op \in Guards, AddGuard(op) \/ RemoveGuard(op)
      PROVE  UNCHANGED <<tokenOwner, transfers, pendingOf>> /\ guards' \subseteq Guards
  BY <1>1, <1>5 DEF AddGuard, RemoveGuard, tokenVars, requestVars
<1>6. ASSUME ProposeCodeHash \/ CommitCodeHash \/ ResumeToken
      PROVE  UNCHANGED <<tokenOwner, transfers, pendingOf, guards>>
  BY <1>6 DEF ProposeCodeHash, CommitCodeHash, ResumeToken, tokenVars, requestVars
<1>7. ASSUME NEW op, NEW r, NEW c, NEW t, NEW o \in Owners, ReceiveBridged(op, r, c, t, o)
      PROVE  MintTo(o, TRUE) /\ UNCHANGED <<transfers, guards>>
  BY <1>7 DEF ReceiveBridged, adminVars
<1> QED
  BY <1>1, <1>2, <1>3, <1>4, <1>5, <1>6, <1>7 DEF TokenNext, RequestNext

LEMMA TokenStepInv == TokenInv /\ [TokenStep]_<<now, allTokenVars>> => TokenInv'
<1> SUFFICES ASSUME TokenInv, [TokenStep]_<<now, allTokenVars>> PROVE TokenInv'
  OBVIOUS
<1>1. CASE UNCHANGED allTokenVars /\ (Tick \/ UNCHANGED now)
  BY <1>1 DEF allTokenVars, tokenVars, requestVars, adminVars, TokenInv, TokenTyped, Tick
<1>2. ASSUME TokenNext, UNCHANGED now PROVE TokenInv'
  <2>1. ASSUME NEW o \in Owners, NEW t, NEW c, BurnBridged(o, t, c) PROVE TokenInv'
    <3>1. tokenOwner' \in Seq(Owners \union {Zero, None})
      BY <2>1, SeqUpdate DEF BurnBridged, TokenInv, TokenTyped
    <3> QED
      BY <1>2, <2>1, <3>1 DEF BurnBridged, TokenInv, TokenTyped, adminVars
  <2>2. CASE UNCHANGED <<tokenOwner, transfers, pendingOf>> /\ guards' \subseteq Guards
    BY <1>2, <2>2 DEF TokenInv, TokenTyped
  <2> QED
    BY <1>2, <2>1, <2>2, TokenCases, MintInv, TransferInv, SignTransferInv, ExecuteTransferInv,
       RecoverTransferInv
<1> QED
  BY <1>1, <1>2 DEF TokenStep

(* The slot that keeps a token to one request never outlives it: whichever   *)
(* requests are signed, rejected, executed and retried, in any order, the    *)
(* token is barred from the bridge only by a request of its own that is open.*)
THEOREM SlotsAreOpen == TokenSpec => []PendingSlotIsOpen
<1>1. TokenInv => PendingSlotIsOpen
  BY DEF TokenInv, SlotIsOpen, PendingSlotIsOpen
<1> QED
  BY <1>1, TokenInitInv, TokenStepInv, PTL DEF TokenSpec

(* A token that goes from an owner to the zero account goes there in the     *)
(* signature that locks its request.                                         *)
LEMMA LockIsSigned ==
  ASSUME TokenInv, TokenNext, NEW t \in DOMAIN tokenOwner,
         tokenOwner[t] \in Owners, tokenOwner'[t] = Zero
  PROVE  \E r \in DOMAIN transfers :
           /\ transfers[r].token = t /\ transfers'[r].status = "Locked"
           /\ Cardinality(transfers'[r].signatures \intersect guards) >= transfers[r].required
<1>1. tokenOwner \in Seq(Owners \union {Zero, None}) /\ Zero \notin Owners /\ Zero # None
  BY TokenAssumption DEF TokenInv, TokenTyped
<1>2. tokenOwner' # tokenOwner
  BY <1>1
<1>3. ASSUME NEW o \in Owners, NEW b, MintTo(o, b) PROVE FALSE
  <2>1. tokenOwner'[t] = tokenOwner[t]
    BY <1>1, <1>3 DEF MintTo
  <2> QED
    BY <1>1, <2>1
<1>4. ASSUME NEW o \in Owners, NEW u, NEW c, BurnBridged(o, u, c) PROVE FALSE
  BY <1>1, <1>4 DEF BurnBridged
<1>5. ASSUME NEW r \in DOMAIN transfers, NEW a, RecoverTransfer(r, a) PROVE FALSE
  <2>1. transfers[r] \in TransferRecord
    BY DEF TokenInv, TokenTyped
  <2>2. transfers[r].sender \in Owners
    BY <2>1 DEF TransferRecord
  <2> QED
    BY <1>1, <1>5, <2>2 DEF RecoverTransfer
<1>6. PICK r \in DOMAIN transfers, op \in Guards, approve \in BOOLEAN :
        SignTransfer(op, r, approve)
  BY <1>2, <1>3, <1>4, <1>5, TokenCases DEF InitiateTransfer, ExecuteTransfer, tokenVars
<1> DEFINE signed == transfers[r].signatures \union {op}
           locks == approve /\ ValidSignatures(signed) >= transfers[r].required
<1>7. locks /\ transfers[r].token = t
  BY <1>1, <1>2, <1>6 DEF SignTransfer
<1>8. transfers'[r].status = "Locked" /\ transfers'[r].signatures = signed
  <2>1. transfers \in Seq(TransferRecord) /\ transfers[r] \in TransferRecord
    BY DEF TokenInv, TokenTyped
  <2> QED
    BY <1>6, <1>7, <2>1 DEF SignTransfer, TransferRecord
<1> QED
  BY <1>7, <1>8 DEF ValidSignatures

(* A token is taken from its owner only in the step that locks a request of  *)
(* that token, and only if as many of the operators of that moment have      *)
(* signed it as it asked for: no refused, retried or removed signature       *)
(* counts.                                                                   *)
THEOREM OwnersAreProtected == TokenSpec => OnlyOperatorsLock
<1> DEFINE Protected ==
      \A t \in DOMAIN tokenOwner :
        tokenOwner[t] \in Owners /\ tokenOwner'[t] = Zero =>
          \E r \in DOMAIN transfers :
            /\ transfers[r].token = t /\ transfers'[r].status = "Locked"
            /\ Cardinality(transfers'[r].signatures \intersect guards) >= transfers[r].required
<1>1. TokenInv /\ [TokenStep]_<<now, allTokenVars>> => [Protected]_allTokenVars
  <2>1. ASSUME TokenInv, TokenNext PROVE Protected
    BY <2>1, LockIsSigned
  <2> HIDE DEF Protected
  <2> QED
    BY <2>1 DEF TokenStep
<1> QED
  BY <1>1, TokenInitInv, TokenStepInv, PTL DEF TokenSpec, OnlyOperatorsLock


-----------------------------------------------------------------------------
(* The shares of a property token.                                         *)

SharesTyped ==
  /\ shares \in [Holders -> Nat] /\ escrow \in [Holders -> Nat] /\ issued \in Nat
  /\ asks \in [Holders -> [price : Nat, amount : Nat] \union {NoAsk}]

\* The inductive invariant: what SharesAccounted says is inductive with the types.
SharesInv == SharesTyped /\ SharesAccounted

\* What f adds up to over all holders.
HeldIn(f) == SumFunctionOnSet(f, Holders)

(* Shares are added to one account, or taken from it.                        *)
LEMMA HeldPlus ==
  ASSUME NEW f \in [Holders -> Nat], NEW g, NEW h \in Holders, NEW n \in Int,
         g[h] = f[h] + n, \A k \in Holders \ {h} : g[k] = f[k]
  PROVE  /\ HeldIn(f) \in Nat /\ f[h] <= HeldIn(f)
         /\ HeldIn(g) = HeldIn(f) + n
<1>1. HeldIn(f) \in Nat /\ f[h] <= HeldIn(f)
  BY SharesAssumption, SumBounds DEF HeldIn
<1>2. IsFiniteSet(Holders) /\ \A k \in Holders : f[k] \in Int
  BY SharesAssumption
<1>3. HeldIn(g) = HeldIn(f) + n
  <2>1. SumFunctionOnSet(g, Holders) = SumFunctionOnSet(f, Holders) + n
    BY ONLY <1>2, h \in Holders, n \in Int, g[h] = f[h] + n,
            \A k \in Holders \ {h} : g[k] = f[k], SumPlus
  <2> QED
    BY <2>1 DEF HeldIn
<1> QED
  BY <1>1, <1>3

(* One account hands shares to another.                                      *)
LEMMA HeldMoves ==
  ASSUME NEW f \in [Holders -> Nat], NEW g, NEW h \in Holders, NEW k \in Holders \ {h},
         NEW n \in Nat, g[h] = f[h] - n, g[k] = f[k] + n,
         \A i \in Holders \ {h, k} : g[i] = f[i]
  PROVE  HeldIn(g) = HeldIn(f)
<1>1. PICK m : m = [i \in Holders |-> IF i = h THEN f[h] + (-n) ELSE f[i]]
  OBVIOUS
<1>2. /\ -n \in Int /\ m[h] = f[h] + (-n) /\ \A i \in Holders \ {h} : m[i] = f[i]
      /\ m[k] = f[k] /\ \A i \in Holders \ {k} : g[i] = m[i]
  BY <1>1
<1>3. \A i \in Holders : f[i] \in Int /\ m[i] \in Int
  BY <1>1
<1> HIDE <1>1
<1>4. HeldIn(m) = HeldIn(f) + (-n) /\ HeldIn(f) \in Nat
  BY <1>2, HeldPlus
<1>5. HeldIn(g) = HeldIn(m) + n
  <2>1. IsFiniteSet(Holders) /\ g[k] = m[k] + n /\ \A i \in Holders : m[i] \in Int
    BY <1>2, <1>3, SharesAssumption
  <2>2. SumFunctionOnSet(g, Holders) = SumFunctionOnSet(m, Holders) + n
    BY <1>2, <2>1, SumPlus
  <2> QED
    BY <2>2 DEF HeldIn
<1> QED
  BY <1>4, <1>5

LEMMA HeldInType == ASSUME SharesTyped PROVE HeldIn(shares) \in Nat /\ HeldIn(escrow) \in Nat
  BY SharesAssumption, SumBounds DEF HeldIn, SharesTyped

(* At the start the owner of the token has the one unit.                     *)
LEMMA SharesInitInv == SharesInit => SharesInv
<1> SUFFICES ASSUME SharesInit PROVE SharesInv
  OBVIOUS
<1>1. SharesTyped /\ AskIsBacked
  BY DEF SharesInit, SharesTyped, AskIsBacked
<1>2. \A h \in Holders : escrow[h] = 0
  BY DEF SharesInit
<1>3. HeldIn(escrow) = 0
  BY <1>2, SharesAssumption, SumOfZeros DEF HeldIn
<1>4. PICK zero : zero = [h \in Holders |-> 0]
  OBVIOUS
<1>5. /\ zero \in [Holders -> Nat] /\ \A h \in Holders : zero[h] = 0
      /\ shares[Issuer] = zero[Issuer] + 1 /\ \A h \in Holders \ {Issuer} : shares[h] = zero[h]
  BY <1>4, SharesAssumption DEF SharesInit
<1> HIDE <1>4
<1>6. HeldIn(zero) = 0
  BY <1>5, SharesAssumption, SumOfZeros DEF HeldIn
<1>7. HeldIn(shares) = HeldIn(zero) + 1
  BY <1>5, SharesAssumption, HeldPlus
<1>8. SharesExplained
  BY <1>3, <1>6, <1>7 DEF SharesExplained, HeldIn, SharesInit
<1> QED
  BY <1>1, <1>8 DEF SharesInv, SharesAccounted

LEMMA IssueInv ==
  ASSUME SharesInv, NEW h \in Holders, NEW n \in Amounts, IssueShares(h, n) PROVE SharesInv'
<1>1. n \in Nat
  BY SharesAssumption
<1>2. SharesTyped' /\ AskIsBacked' /\ UNCHANGED escrow /\ issued' = issued + n
  BY <1>1 DEF SharesInv, SharesTyped, SharesAccounted, AskIsBacked, IssueShares, marketVars
<1>3. /\ shares \in [Holders -> Nat] /\ shares'[h] = shares[h] + n
      /\ \A k \in Holders \ {h} : shares'[k] = shares[k]
  BY DEF SharesInv, SharesTyped, IssueShares
<1>4. HeldIn(shares') = HeldIn(shares) + n
  BY <1>1, <1>3, HeldPlus
<1> QED
  BY <1>1, <1>2, <1>4, HeldInType
  DEF SharesInv, SharesTyped, SharesAccounted, SharesExplained, HeldIn

(* The unit that total_shares does not count may be redeemed as well: then   *)
(* the total saturates at zero, and nobody holds anything.                   *)
LEMMA RedeemInv ==
  ASSUME SharesInv, NEW h \in Holders, NEW n \in Amounts, RedeemShares(h, n) PROVE SharesInv'
<1>1. n \in Nat /\ n <= shares[h] /\ -n \in Int
  BY SharesAssumption DEF RedeemShares
<1>2. SharesTyped' /\ AskIsBacked' /\ UNCHANGED escrow /\ issued' = Monus(issued, n)
  BY <1>1 DEF SharesInv, SharesTyped, SharesAccounted, AskIsBacked, RedeemShares, marketVars, Monus
<1>3. /\ shares \in [Holders -> Nat] /\ shares'[h] = shares[h] + (-n)
      /\ \A k \in Holders \ {h} : shares'[k] = shares[k]
  BY <1>1 DEF SharesInv, SharesTyped, RedeemShares
<1>4. /\ HeldIn(shares') = HeldIn(shares) + (-n) /\ shares[h] <= HeldIn(shares)
      /\ HeldIn(shares) \in Nat /\ shares[h] \in Nat
  BY <1>1, <1>3, HeldPlus
<1>5. /\ HeldIn(shares) + HeldIn(escrow) - issued \in {0, 1}
      /\ HeldIn(escrow) \in Nat /\ issued \in Nat
  BY HeldInType DEF SharesInv, SharesTyped, SharesAccounted, SharesExplained, HeldIn
<1>6. HeldIn(shares') + HeldIn(escrow) - issued' \in {0, 1}
  BY <1>1, <1>2, <1>4, <1>5 DEF Monus
<1> QED
  BY <1>2, <1>6 DEF SharesInv, SharesAccounted, SharesExplained, HeldIn

(* A transfer, with or without the dividends settled.                        *)
LEMMA MoveInv ==
  ASSUME SharesInv, NEW h \in Holders, NEW k \in Holders \ {h}, NEW n \in Amounts,
         shares[h] >= n, shares' = Move(h, k, n), UNCHANGED <<issued, marketVars>>
  PROVE  SharesInv'
<1>1. n \in Nat
  BY SharesAssumption
<1>2. /\ shares \in [Holders -> Nat] /\ shares' \in [Holders -> Nat]
      /\ shares'[h] = shares[h] - n /\ shares'[k] = shares[k] + n
      /\ \A i \in Holders \ {h, k} : shares'[i] = shares[i]
  BY <1>1 DEF SharesInv, SharesTyped, Move
<1>3. HeldIn(shares') = HeldIn(shares)
  BY <1>1, <1>2, HeldMoves
<1> QED
  BY <1>2, <1>3
  DEF SharesInv, SharesTyped, SharesAccounted, SharesExplained, AskIsBacked, HeldIn, marketVars

(* Shares go into escrow, come back, or go on to a buyer: what one account   *)
(* loses in the one function an account gains in the other.                  *)
LEMMA EscrowMoves ==
  ASSUME SharesInv, NEW h \in Holders, NEW k \in Holders, NEW n \in Int,
         shares'[h] = shares[h] + n, \A i \in Holders \ {h} : shares'[i] = shares[i],
         escrow'[k] = escrow[k] + (-n), \A i \in Holders \ {k} : escrow'[i] = escrow[i],
         UNCHANGED issued
  PROVE  SharesExplained'
<1>1. shares \in [Holders -> Nat] /\ escrow \in [Holders -> Nat] /\ -n \in Int
  BY DEF SharesInv, SharesTyped
<1>2. HeldIn(shares') = HeldIn(shares) + n
  BY <1>1, HeldPlus
<1>3. HeldIn(escrow') = HeldIn(escrow) + (-n)
  BY <1>1, HeldPlus
<1>4. HeldIn(shares) \in Nat /\ HeldIn(escrow) \in Nat /\ issued' = issued /\ issued \in Nat
  BY HeldInType DEF SharesInv, SharesTyped
<1>5. /\ HeldIn(shares') \in Int /\ HeldIn(escrow') \in Int
      /\ HeldIn(shares') + HeldIn(escrow') = HeldIn(shares) + HeldIn(escrow)
  BY <1>2, <1>3, <1>4
<1>6. HeldIn(shares) + HeldIn(escrow) - issued \in {0, 1}
  BY DEF SharesInv, SharesAccounted, SharesExplained, HeldIn
<1>7. HeldIn(shares') + HeldIn(escrow') - issued' \in {0, 1}
  BY <1>4, <1>5, <1>6
<1> QED
  BY <1>7 DEF SharesExplained, HeldIn

LEMMA PlaceAskInv ==
  ASSUME SharesInv, NEW h \in Holders, NEW p \in AskPrices, NEW n \in Amounts, PlaceAsk(h, p, n)
  PROVE  SharesInv'
<1>1. n \in Nat /\ -n \in Int /\ [price |-> p, amount |-> n] \in [price : Nat, amount : Nat]
  BY SharesAssumption
<1>2. /\ shares'[h] = shares[h] + (-n) /\ \A i \in Holders \ {h} : shares'[i] = shares[i]
      /\ escrow'[h] = escrow[h] + (-(-n)) /\ \A i \in Holders \ {h} : escrow'[i] = escrow[i]
      /\ issued' = issued
  BY <1>1 DEF SharesInv, SharesTyped, PlaceAsk
<1>3. SharesTyped'
  BY <1>1 DEF SharesInv, SharesTyped, PlaceAsk
<1>4. AskIsBacked'
  BY <1>1 DEF SharesInv, SharesTyped, SharesAccounted, AskIsBacked, PlaceAsk
<1>5. SharesExplained'
  BY <1>1, <1>2, EscrowMoves
<1> QED
  BY <1>3, <1>4, <1>5 DEF SharesInv, SharesAccounted

LEMMA CancelAskInv ==
  ASSUME SharesInv, NEW h \in Holders, CancelAsk(h) PROVE SharesInv'
<1> DEFINE n == asks[h].amount
<1>1. asks[h] \in [price : Nat, amount : Nat] /\ n \in Nat /\ n = escrow[h]
  BY DEF SharesInv, SharesTyped, CancelAsk
<1>2. /\ shares'[h] = shares[h] + n /\ \A i \in Holders \ {h} : shares'[i] = shares[i]
      /\ escrow'[h] = escrow[h] + (-n) /\ \A i \in Holders \ {h} : escrow'[i] = escrow[i]
      /\ issued' = issued
  BY <1>1 DEF SharesInv, SharesTyped, CancelAsk
<1>3. SharesTyped'
  BY <1>1 DEF SharesInv, SharesTyped, CancelAsk
<1>4. AskIsBacked'
  BY DEF SharesInv, SharesTyped, SharesAccounted, AskIsBacked, CancelAsk
<1>5. SharesExplained'
  <2> HIDE DEF n
  <2> QED
    BY <1>1, <1>2, EscrowMoves
<1> QED
  BY <1>3, <1>4, <1>5 DEF SharesInv, SharesAccounted

LEMMA BuyInv ==
  ASSUME SharesInv, NEW b \in Holders, NEW h \in Holders, NEW n \in Amounts, BuyShares(b, h, n)
  PROVE  SharesInv'
<1>1. /\ n \in Nat /\ asks[h] \in [price : Nat, amount : Nat]
      /\ n <= asks[h].amount /\ n <= escrow[h] /\ asks[h].amount <= escrow[h]
  BY SharesAssumption DEF SharesInv, SharesTyped, SharesAccounted, AskIsBacked, BuyShares
<1>2. /\ shares'[b] = shares[b] + n /\ \A i \in Holders \ {b} : shares'[i] = shares[i]
      /\ escrow'[h] = escrow[h] + (-n) /\ \A i \in Holders \ {h} : escrow'[i] = escrow[i]
      /\ issued' = issued
  BY <1>1 DEF SharesInv, SharesTyped, BuyShares
<1> DEFINE left == [asks[h] EXCEPT !.amount = @ - n]
<1>3. left \in [price : Nat, amount : Nat] /\ left.amount = asks[h].amount - n
  BY <1>1
<1>4. asks' = [asks EXCEPT ![h] = IF n = asks[h].amount THEN NoAsk ELSE left]
  BY DEF BuyShares
<1> HIDE DEF left
<1>5. SharesTyped'
  BY <1>1, <1>3, <1>4 DEF SharesInv, SharesTyped, BuyShares
<1>6. AskIsBacked'
  <2>1. ASSUME NEW i \in Holders, asks'[i] # NoAsk PROVE asks'[i].amount <= escrow'[i]
    <3>1. CASE i = h
      BY <1>1, <1>2, <1>3, <1>4, <2>1, <3>1 DEF SharesInv, SharesTyped
    <3>2. CASE i # h
      BY <1>2, <1>4, <2>1, <3>2 DEF SharesInv, SharesTyped, SharesAccounted, AskIsBacked
    <3> QED
      BY <3>1, <3>2
  <2> QED
    BY <2>1 DEF AskIsBacked
<1>7. SharesExplained'
  BY <1>1, <1>2, EscrowMoves
<1> QED
  BY <1>5, <1>6, <1>7 DEF SharesInv, SharesAccounted

LEMMA SharesStepInv == SharesInv /\ [SharesNext]_shareVars => SharesInv'
<1> SUFFICES ASSUME SharesInv, [SharesNext]_shareVars PROVE SharesInv'
  OBVIOUS
<1>1. CASE UNCHANGED <<shares, issued, marketVars>>
  BY <1>1 DEF SharesInv, SharesTyped, SharesAccounted, SharesExplained, AskIsBacked, marketVars
<1>2. ASSUME NEW h \in Holders, NEW k \in Holders \ {h}, NEW n \in Amounts,
             TransferShares(h, k, n) \/ BatchTransfer(h, k, n)
      PROVE  SharesInv'
  BY <1>2, MoveInv DEF TransferShares, BatchTransfer
<1>3. ASSUME NEW h, WithdrawDividends(h) \/ ComplianceChanges(h) PROVE SharesInv'
  BY <1>1, <1>3 DEF WithdrawDividends, ComplianceChanges
<1>4. ASSUME NEW h, NEW v, VoteShares(h, v) \/ DepositDividends(v) \/ CreateShareProposal(v)
      PROVE  SharesInv'
  BY <1>1, <1>4 DEF VoteShares, DepositDividends, CreateShareProposal
<1>5. ASSUME ExecuteShareProposal PROVE SharesInv'
  BY <1>1, <1>5 DEF ExecuteShareProposal
<1>6. ASSUME UNCHANGED shareVars PROVE SharesInv'
  BY <1>1, <1>6 DEF shareVars
<1> QED
  BY <1>2, <1>3, <1>4, <1>5, <1>6, IssueInv, RedeemInv, PlaceAskInv, CancelAskInv, BuyInv
  DEF SharesNext

(* No share is made or lost by transfers, asks, purchases, cancellations and *)
(* redemptions, and no ask is ever larger than its seller's escrow.          *)
LEMMA SharesBalance == SharesSpec => []SharesAccounted
<1>1. SharesInv => SharesAccounted
  BY DEF SharesInv
<1> QED
  BY <1>1, SharesInitInv, SharesStepInv, PTL DEF SharesSpec


-----------------------------------------------------------------------------
(* The fractional ledger.                                                  *)

Modulus == U128Max + 1
SumOfBalances(f) == SumFunctionOnSet(f, Partners)

\* Two numbers that differ by a multiple of 2^128.
Congruent(x, y) == \E k \in Int : x - y = k * Modulus

FractionTyped ==
  /\ balances \in [Partners -> Nat] /\ minted \in Nat /\ doubled \in Nat
  /\ dividendPerShare \in Nat /\ lastClaimed \in [Partners -> Nat]

\* The inductive invariant, with the supply as a congruence.
FractionInv ==
  /\ FractionTyped
  /\ Congruent(minted + doubled, SumOfBalances(balances))
  /\ \A p \in Partners : lastClaimed[p] <= dividendPerShare

(* Both sides of a congruence may be changed by the same number, and what is *)
(* congruent leaves no remainder.                                            *)
LEMMA CongruentPlus ==
  ASSUME NEW x \in Int, NEW y \in Int, NEW n \in Int, Congruent(x, y)
  PROVE  Congruent(x + n, y + n)
<1>1. (x + n) - (y + n) = x - y
  OBVIOUS
<1> QED
  BY <1>1 DEF Congruent

LEMMA CongruentRest ==
  ASSUME NEW x \in Int, NEW y \in Int
  PROVE  Congruent(x, y) => (x - y) % Modulus = 0
<1>1. Modulus \in Nat \ {0}
  BY FractionalAssumption DEF Modulus
<1>2. \A k \in Int : (k * Modulus) % Modulus = 0
  BY <1>1
<1> QED
  BY <1>2 DEF Congruent

(* A wrapped number is congruent to the number.                              *)
LEMMA CongruentWrap ==
  ASSUME NEW x \in Int, NEW d \in Int, NEW y \in Int, Congruent(x + d, y)
  PROVE  x % Modulus \in Nat /\ Congruent((x % Modulus) + d, y)
<1>1. Modulus \in Nat \ {0}
  BY FractionalAssumption DEF Modulus
<1> DEFINE q == x \div Modulus
<1>2. q \in Int /\ x % Modulus = x - q * Modulus /\ x % Modulus \in Nat /\ q * Modulus \in Int
  BY <1>1
<1>3. PICK k \in Int : (x + d) - y = k * Modulus
  BY DEF Congruent
<1>4. k * Modulus - q * Modulus = (k - q) * Modulus /\ k - q \in Int
  BY <1>1, <1>2
<1> HIDE DEF q
<1>5. ((x % Modulus) + d) - y = (k - q) * Modulus
  BY <1>2, <1>3, <1>4
<1> QED
  BY <1>2, <1>4, <1>5 DEF Congruent

(* One balance changes.                                                      *)
LEMMA BalancePlus ==
  ASSUME NEW f \in [Partners -> Nat], NEW g, NEW p \in Partners, NEW n \in Int,
         g[p] = f[p] + n, \A k \in Partners \ {p} : g[k] = f[k]
  PROVE  SumOfBalances(f) \in Int /\ SumOfBalances(g) = SumOfBalances(f) + n
<1>1. IsFiniteSet(Partners) /\ \A k \in Partners : f[k] \in Int
  BY FractionalAssumption
<1>2. /\ SumFunctionOnSet(f, Partners) \in Int
      /\ SumFunctionOnSet(g, Partners) = SumFunctionOnSet(f, Partners) + n
  BY ONLY <1>1, p \in Partners, n \in Int, g[p] = f[p] + n,
          \A k \in Partners \ {p} : g[k] = f[k], SumPlus
<1> QED
  BY <1>2 DEF SumOfBalances

LEMMA FractionInitInv == FractionalInit => FractionInv
<1> SUFFICES ASSUME FractionalInit PROVE FractionInv
  OBVIOUS
<1>1. FractionTyped /\ \A p \in Partners : lastClaimed[p] <= dividendPerShare
  BY DEF FractionalInit, FractionTyped
<1>2. IsFiniteSet(Partners) /\ \A p \in Partners : balances[p] = 0
  BY FractionalAssumption DEF FractionalInit
<1>3. SumOfBalances(balances) = 0
  BY <1>2, SumOfZeros DEF SumOfBalances
<1>4. Modulus \in Nat
  BY FractionalAssumption DEF Modulus
<1>5. (minted + doubled) - SumOfBalances(balances) = 0 * Modulus
  BY <1>3, <1>4 DEF FractionalInit
<1> QED
  BY <1>1, <1>5 DEF FractionInv, Congruent

LEMMA MintFractionInv ==
  ASSUME FractionInv, NEW p \in Partners, NEW n \in ShareAmounts, Mint(p, n) PROVE FractionInv'
<1>1. n \in Nat /\ n \in Int
  BY FractionalAssumption
<1>2. FractionTyped' /\ (\A k \in Partners : lastClaimed[k] <= dividendPerShare)'
  BY <1>1 DEF FractionInv, FractionTyped, Mint, payoutVars
<1>3. /\ balances \in [Partners -> Nat] /\ balances'[p] = balances[p] + n
      /\ \A k \in Partners \ {p} : balances'[k] = balances[k]
  BY DEF FractionInv, FractionTyped, Mint
<1>4. /\ SumOfBalances(balances) \in Int
      /\ SumOfBalances(balances') = SumOfBalances(balances) + n
  BY <1>1, <1>3, BalancePlus
<1>5. minted + doubled \in Int /\ minted' + doubled' = (minted + doubled) + n
  BY <1>1 DEF FractionInv, FractionTyped, Mint
<1>6. Congruent(minted' + doubled', SumOfBalances(balances'))
  BY <1>1, <1>4, <1>5, CongruentPlus DEF FractionInv
<1> QED
  BY <1>2, <1>6 DEF FractionInv

LEMMA BurnInv ==
  ASSUME FractionInv, NEW by, NEW p \in Partners, NEW n \in ShareAmounts, Burn(by, p, n)
  PROVE  FractionInv'
<1>1. n \in Nat /\ -n \in Int /\ n <= balances[p] /\ minted' = (minted - n) % Modulus
  BY FractionalAssumption DEF Burn, Modulus
<1>2. /\ minted - n \in Int /\ doubled \in Int /\ minted + doubled \in Int
      /\ (minted - n) + doubled = (minted + doubled) + (-n) /\ doubled' = doubled
  BY <1>1 DEF FractionInv, FractionTyped, Burn
<1>3. /\ balances \in [Partners -> Nat] /\ balances'[p] = balances[p] + (-n)
      /\ \A k \in Partners \ {p} : balances'[k] = balances[k]
  BY <1>1 DEF FractionInv, FractionTyped, Burn
<1>4. /\ SumOfBalances(balances) \in Int /\ SumOfBalances(balances') \in Int
      /\ SumOfBalances(balances') = SumOfBalances(balances) + (-n)
  <2>1. /\ SumOfBalances(balances) \in Int
        /\ SumOfBalances(balances') = SumOfBalances(balances) + (-n)
    BY <1>1, <1>3, BalancePlus
  <2> QED
    BY <1>1, <2>1
<1>5. Congruent((minted - n) + doubled, SumOfBalances(balances'))
  BY <1>1, <1>2, <1>4, CongruentPlus DEF FractionInv
<1>6. minted' \in Nat /\ Congruent(minted' + doubled', SumOfBalances(balances'))
  BY <1>1, <1>2, <1>4, <1>5, CongruentWrap
<1>7. FractionTyped' /\ (\A k \in Partners : lastClaimed[k] <= dividendPerShare)'
  BY <1>1, <1>6 DEF FractionInv, FractionTyped, Burn, payoutVars
<1> QED
  BY <1>6, <1>7 DEF FractionInv

(* Both balances are read before either is written: a transfer to oneself    *)
(* adds what the history counts.                                             *)
LEMMA TransferFractionInv ==
  ASSUME FractionInv, NEW p \in Partners, NEW to \in Partners, NEW n \in ShareAmounts,
         TransferFraction(p, to, n)
  PROVE  FractionInv'
<1>1. n \in Nat /\ n \in Int /\ -n \in Int /\ n <= balances[p]
  BY FractionalAssumption DEF TransferFraction
<1>2. FractionTyped' /\ (\A k \in Partners : lastClaimed[k] <= dividendPerShare)'
  BY <1>1 DEF FractionInv, FractionTyped, TransferFraction, payoutVars
<1>3. /\ balances \in [Partners -> Nat] /\ balances' \in [Partners -> Nat]
      /\ minted + doubled \in Int /\ Congruent(minted + doubled, SumOfBalances(balances))
  BY <1>2 DEF FractionInv, FractionTyped
<1>4. CASE p = to
  <2>1. balances'[p] = balances[p] + n /\ \A k \in Partners \ {p} : balances'[k] = balances[k]
    BY <1>1, <1>3, <1>4 DEF TransferFraction
  <2>2. /\ SumOfBalances(balances) \in Int
        /\ SumOfBalances(balances') = SumOfBalances(balances) + n
    BY <1>1, <1>3, <2>1, BalancePlus
  <2>3. minted' + doubled' = (minted + doubled) + n
    BY <1>1, <1>4 DEF FractionInv, FractionTyped, TransferFraction
  <2>4. Congruent(minted' + doubled', SumOfBalances(balances'))
    BY <1>1, <1>3, <2>2, <2>3, CongruentPlus
  <2> QED
    BY <1>2, <2>4 DEF FractionInv
<1>5. CASE p # to
  <2>1. PICK m : m = [k \in Partners |-> IF k = p THEN balances[p] - n ELSE balances[k]]
    OBVIOUS
  <2>2. /\ m \in [Partners -> Nat] /\ m[p] = balances[p] + (-n)
        /\ \A k \in Partners \ {p} : m[k] = balances[k]
    BY <1>1, <1>3, <2>1
  <2>3. balances'[to] = m[to] + n /\ \A k \in Partners \ {to} : balances'[k] = m[k]
    BY <1>1, <1>3, <1>5, <2>1 DEF TransferFraction
  <2> HIDE <2>1
  <2>4. /\ SumOfBalances(balances) \in Int
        /\ SumOfBalances(m) = SumOfBalances(balances) + (-n)
    BY <1>1, <1>3, <2>2, BalancePlus
  <2>5. SumOfBalances(balances') = SumOfBalances(m) + n
    BY <1>1, <2>2, <2>3, BalancePlus
  <2>6. SumOfBalances(balances') = SumOfBalances(balances)
    BY <1>1, <2>4, <2>5
  <2>7. minted' + doubled' = minted + doubled
    BY <1>5 DEF FractionInv, FractionTyped, TransferFraction
  <2> QED
    BY <1>2, <1>3, <2>6, <2>7 DEF FractionInv
<1> QED
  BY <1>4, <1>5

LEMMA DistributeInv ==
  ASSUME FractionInv, NEW n \in Payments, DistributeDividends(n) PROVE FractionInv'
<1>1. n \div minted \in Nat
  BY FractionalAssumption DEF FractionInv, FractionTyped, DistributeDividends
<1> QED
  BY <1>1 DEF FractionInv, FractionTyped, DistributeDividends

LEMMA FractionStepInv == FractionInv /\ [FractionalNext]_fractionalVars => FractionInv'
<1> SUFFICES ASSUME FractionInv, [FractionalNext]_fractionalVars PROVE FractionInv'
  OBVIOUS
<1>1. ASSUME NEW p \in Partners, ClaimDividends(p) PROVE FractionInv'
  <2>1. /\ UNCHANGED <<balances, minted, doubled, dividendPerShare>>
        /\ lastClaimed' = [lastClaimed EXCEPT ![p] = dividendPerShare]
        /\ lastClaimed \in [Partners -> Nat] /\ dividendPerShare \in Nat
        /\ \A k \in Partners : lastClaimed[k] <= dividendPerShare
    BY <1>1 DEF FractionInv, FractionTyped, ClaimDividends
  <2>2. lastClaimed' \in [Partners -> Nat] /\ \A k \in Partners : lastClaimed'[k] <= dividendPerShare
    BY <2>1
  <2> QED
    BY <2>1, <2>2 DEF FractionInv, FractionTyped
<1>2. CASE UNCHANGED <<balances, minted, doubled, payoutVars>>
  BY <1>2 DEF FractionInv, FractionTyped, payoutVars
<1>3. ASSUME NEW p, NEW b, SetKyc(p, b) PROVE FractionInv'
  BY <1>2, <1>3 DEF SetKyc
<1>4. ASSUME SetAuthorizedMinter \/ UNCHANGED fractionalVars PROVE FractionInv'
  BY <1>2, <1>4 DEF SetAuthorizedMinter, fractionalVars, payoutVars
<1> QED
  BY <1>1, <1>3, <1>4, MintFractionInv, BurnInv, TransferFractionInv, DistributeInv
  DEF FractionalNext

LEMMA FractionBalance == FractionalSpec => []SupplyIsHeld
<1>1. FractionInv => SupplyIsHeld
  <2> SUFFICES ASSUME FractionInv PROVE SupplyIsHeld
    OBVIOUS
  <2>1. IsFiniteSet(Partners) /\ \A k \in Partners : balances[k] \in Int
    BY FractionalAssumption DEF FractionInv, FractionTyped
  <2>2. SumOfBalances(balances) \in Int
    BY <2>1, SumType DEF SumOfBalances
  <2>3. (minted + doubled - SumOfBalances(balances)) % Modulus = 0
    BY <2>2, CongruentRest DEF FractionInv, FractionTyped
  <2> QED
    BY <2>3 DEF FractionInv, SupplyIsHeld, SumOfBalances, Modulus
<1> QED
  BY <1>1, FractionInitInv, FractionStepInv, PTL DEF FractionalSpec

(* In both contracts that keep shares, none is made or lost by what moves    *)
(* them.  The ask of a seller is never larger than the escrow behind it; the *)
(* fractional supply, which burning takes below zero and around, differs     *)
(* from what the partners hold by the transfers to oneself, modulo 2^128.    *)
THEOREM SharesAreKept == SharesSpec /\ FractionalSpec => []ShareLedgersBalance
  BY SharesBalance, FractionBalance, PTL DEF ShareLedgersBalance


-----------------------------------------------------------------------------
(* The fee manager.                                                        *)

OpConfig == [base : Nat, min : Nat, max : Nat]

Auction ==
  [bid : Nat, bidder : Collectors \union {Nobody}, end : Nat, settled : BOOLEAN,
   bids : [Collectors -> Nat]]

FeesTyped ==
  /\ now \in Nat /\ opsSince \in Nat /\ opsCount \in Nat /\ base \in Nat
  /\ opConfig \in OpConfig \union {Nobody} /\ rate \in 0 .. 10000
  /\ validators \in SUBSET Collectors /\ rewards \in [Collectors -> Nat]
  /\ treasury \in Nat /\ collected \in Nat /\ distributed \in Nat /\ claimed \in Nat
  /\ auctions \in Seq(Auction)

\* The money of the fee manager.
Funded ==
  /\ distributed = claimed + SumFunctionOnSet(rewards, Collectors)
  /\ distributed + treasury <= collected

\* No bid on record is above the one that leads, which is its bidder's.
Leads(a) ==
  /\ \A c \in Collectors : a.bids[c] <= a.bid
  /\ IF a.bidder = Nobody THEN ~a.settled ELSE a.bid = a.bids[a.bidder]

\* The inductive invariant.
FeesInv == FeesTyped /\ Funded /\ \A id \in DOMAIN auctions : Leads(auctions[id])

(* A fee is a natural number, whatever the congestion.                       *)
LEMMA FeeType == ASSUME FeesTyped PROVE CalculateFee \in Nat
<1>1. CongestionIndex \in Nat
  <2>1. (opsCount * 100) \div CongestionWindow \in Nat
    BY FeesAssumption DEF FeesTyped
  <2> QED
    BY <2>1 DEF CongestionIndex, Smaller
<1>2. ASSUME NEW c \in OpConfig PROVE DynamicFee(c) \in Nat
  <2>1. DemandFactor \in Nat
    BY <1>1 DEF DemandFactor
  <2>2. (CongestionIndex * 80 * 200) \div 10000 \in Nat /\ Smaller(DemandFactor, 5000) \in Nat
    BY <1>1, <2>1 DEF Smaller
  <2> DEFINE factor == 10000 + (CongestionIndex * 80 * 200) \div 10000 + Smaller(DemandFactor, 5000)
  <2>3. factor \in Nat
    BY <2>2
  <2> HIDE DEF factor
  <2>4. (c.base * factor) \div 10000 \in Nat
    BY <2>3 DEF OpConfig
  <2> QED
    BY <2>4 DEF DynamicFee, Smaller, Larger, OpConfig, factor
<1>3. [base |-> base, min |-> MinFee, max |-> MaxFee] \in OpConfig
  BY FeesAssumption DEF FeesTyped, OpConfig
<1> QED
  BY <1>2, <1>3 DEF CalculateFee, FeesTyped

(* Money comes in, with or without an auction.                               *)
LEMMA CollectInv ==
  ASSUME FeesInv, NEW n \in Nat, treasury' = treasury + n, collected' = collected + n,
         UNCHANGED <<now, configVars, distributed, rewards, claimed>>,
         opsSince' \in Nat, opsCount' \in Nat, auctions' \in Seq(Auction),
         \A id \in DOMAIN auctions' : Leads(auctions'[id])
  PROVE  FeesInv'
<1>1. FeesTyped /\ Funded
  BY DEF FeesInv
<1>2. /\ treasury' \in Nat /\ collected' \in Nat
      /\ UNCHANGED <<now, base, opConfig, rate, validators, distributed, rewards, claimed>>
  BY <1>1 DEF FeesTyped, configVars
<1>3. FeesTyped'
  BY ONLY <1>1, <1>2, opsSince' \in Nat, opsCount' \in Nat, auctions' \in Seq(Auction)
     DEF FeesTyped
<1>4. Funded'
  <2>1. treasury \in Nat /\ collected \in Nat /\ distributed \in Nat
    BY <1>1 DEF FeesTyped
  <2> QED
    BY ONLY <1>1, <1>2, <2>1, n \in Nat, treasury' = treasury + n, collected' = collected + n
       DEF Funded
<1> QED
  BY <1>3, <1>4 DEF FeesInv

LEMMA RecordInv ==
  ASSUME FeesInv, NEW n \in FeeAmounts, RecordFee(n), UNCHANGED now PROVE FeesInv'
<1>1. n \in Nat
  BY FeesAssumption
<1>2. opsSince' \in Nat /\ opsCount' \in Nat
  BY FeesAssumption DEF RecordFee, FeesInv, FeesTyped, Smaller
<1>3. auctions' = auctions /\ auctions \in Seq(Auction)
  BY DEF RecordFee, FeesInv, FeesTyped
<1> QED
  BY <1>1, <1>2, <1>3, CollectInv DEF RecordFee, FeesInv

LEMMA CreateAuctionInv == ASSUME FeesInv, CreateAuction, UNCHANGED now PROVE FeesInv'
<1> DEFINE a == [bid |-> 0, bidder |-> Nobody, end |-> now + BidTime, settled |-> FALSE,
                 bids |-> [c \in Collectors |-> 0]]
<1>1. a \in Auction /\ Leads(a)
  <2>1. now + BidTime \in Nat
    BY FeesAssumption DEF FeesInv, FeesTyped
  <2>2. a \in Auction
    BY <2>1 DEF Auction
  <2>3. a.bid = 0 /\ a.bidder = Nobody /\ ~a.settled /\ \A c \in Collectors : a.bids[c] = 0
    OBVIOUS
  <2> QED
    BY <2>2, <2>3 DEF Leads
<1>2. auctions' = Append(auctions, a) /\ auctions \in Seq(Auction)
  BY DEF CreateAuction, FeesInv, FeesTyped
<1> HIDE DEF a
<1>3. /\ auctions' \in Seq(Auction)
      /\ \A id \in DOMAIN auctions' : \/ id \in DOMAIN auctions /\ auctions'[id] = auctions[id]
                                      \/ auctions'[id] = a
  BY <1>1, <1>2
<1>4. \A id \in DOMAIN auctions' : Leads(auctions'[id])
  BY <1>1, <1>3 DEF FeesInv
<1>5. CalculateFee \in Nat /\ opsSince' \in Nat /\ opsCount' \in Nat
  <2>1. FeesTyped
    BY DEF FeesInv
  <2>2. UNCHANGED <<opsSince, opsCount>>
    BY DEF CreateAuction, opsVars
  <2> QED
    BY ONLY <2>1, <2>2, FeeType DEF FeesTyped
<1> QED
  BY <1>3, <1>4, <1>5, CollectInv DEF CreateAuction

(* One auction changes.                                                      *)
LEMMA OneAuctionInv ==
  ASSUME FeesInv, NEW id \in DOMAIN auctions, NEW a \in Auction, Leads(a),
         auctions' = [auctions EXCEPT ![id] = a], UNCHANGED <<now, configVars, opsVars, moneyVars>>
  PROVE  FeesInv'
<1>1. auctions \in Seq(Auction)
  BY DEF FeesInv, FeesTyped
<1>2. auctions' \in Seq(Auction) /\ DOMAIN auctions' = DOMAIN auctions
  BY <1>1, SeqUpdate
<1>3. \A i \in DOMAIN auctions' : Leads(auctions'[i])
  BY <1>1, <1>2 DEF FeesInv
<1>4. FeesTyped /\ Funded
  BY DEF FeesInv
<1>5. FeesTyped' /\ Funded'
  BY ONLY <1>2, <1>4, UNCHANGED <<now, configVars, opsVars, moneyVars>>
     DEF FeesTyped, Funded, configVars, opsVars, moneyVars
<1> QED
  BY <1>3, <1>5 DEF FeesInv

LEMMA PlaceBidInv ==
  ASSUME FeesInv, NEW c \in Collectors, NEW id \in DOMAIN auctions, NEW n \in Bids,
         PlaceBid(c, id, n), UNCHANGED now
  PROVE  FeesInv'
<1> DEFINE a == auctions[id]
           b == [a EXCEPT !.bid = n, !.bidder = c, !.bids[c] = n]
<1>1. a \in Auction /\ Leads(a) /\ n \in Nat /\ n > a.bid /\ Nobody \notin Collectors
  <2>1. a \in Auction /\ Leads(a)
    BY DEF FeesInv, FeesTyped
  <2>2. n > a.bid
    BY DEF PlaceBid
  <2> QED
    BY <2>1, <2>2, FeesAssumption
<1>2. /\ b.bid = n /\ b.bidder = c /\ b.settled = a.settled /\ b.end = a.end
      /\ b.bids = [a.bids EXCEPT ![c] = n] /\ b \in Auction
  BY <1>1 DEF Auction
<1>3. auctions' = [auctions EXCEPT ![id] = b]
  BY DEF PlaceBid
<1> HIDE DEF b
<1>4. Leads(b)
  BY <1>1, <1>2 DEF Leads, Auction
<1> QED
  BY <1>2, <1>3, <1>4, OneAuctionInv DEF PlaceBid

LEMMA SettleInv ==
  ASSUME FeesInv, NEW id \in DOMAIN auctions, SettleAuction(id), UNCHANGED now
  PROVE  FeesInv'
<1> DEFINE a == auctions[id]
           b == [a EXCEPT !.settled = TRUE]
<1>1. a \in Auction /\ Leads(a) /\ a.bidder # Nobody
  BY DEF FeesInv, FeesTyped, SettleAuction
<1>2. /\ b.bid = a.bid /\ b.bidder = a.bidder /\ b.bids = a.bids /\ b \in Auction
  BY <1>1 DEF Auction
<1>3. auctions' = [auctions EXCEPT ![id] = b]
  BY DEF SettleAuction
<1> HIDE DEF b
<1>4. Leads(b)
  BY <1>1, <1>2 DEF Leads
<1> QED
  BY <1>2, <1>3, <1>4, OneAuctionInv DEF SettleAuction

\* PerValidator, of a treasury t, a rate r and k validators.
Portion(t, r, k) == ((t * r) \div 10000) \div k

(* What the validators are given is no more than the treasury holds.         *)
LEMMA PortionFits ==
  ASSUME NEW t \in Nat, NEW r \in Nat, r <= 10000, NEW k \in Nat, k # 0
  PROVE  Portion(t, r, k) \in Nat /\ Portion(t, r, k) * k <= t
<1> DEFINE p == t * r
           q == p \div 10000
<1>1. p \in Nat /\ p <= t * 10000
  OBVIOUS
<1> HIDE DEF p
<1>2. q \in Nat /\ q <= t
  BY <1>1
<1> HIDE DEF q
<1>3. q \div k \in Nat /\ (q \div k) * k <= q /\ (q \div k) * k \in Int
  BY <1>2
<1>4. q \div k \in Nat /\ (q \div k) * k <= t
  BY <1>2, <1>3
<1> QED
  BY <1>4 DEF p, q, Portion

LEMMA DistributeFeesInv == ASSUME FeesInv, DistributeFees, UNCHANGED now PROVE FeesInv'
<1>1. CASE validators = {}
  BY <1>1 DEF FeesInv, FeesTyped, Funded, DistributeFees, configVars, opsVars
<1>2. CASE validators # {}
  <2> DEFINE k == Cardinality(validators)
             n == PerValidator
  <2>1. k \in Nat \ {0} /\ IsFiniteSet(Collectors)
    <3>1. IsFiniteSet(validators) /\ IsFiniteSet(Collectors)
      BY FeesAssumption, FS_Subset DEF FeesInv, FeesTyped
    <3> QED
      BY <1>2, <3>1, FS_CardinalityType, FS_EmptySet
  <2>2. n \in Nat /\ n * k <= treasury
    <3>1. treasury \in Nat /\ rate \in Nat /\ rate <= 10000
      BY DEF FeesInv, FeesTyped
    <3>2. n = Portion(treasury, rate, k)
      BY DEF PerValidator, Portion
    <3> HIDE DEF n, k
    <3>3. Portion(treasury, rate, k) \in Nat /\ Portion(treasury, rate, k) * k <= treasury
      BY <2>1, <3>1, PortionFits
    <3> QED
      BY <3>2, <3>3
  <2>3. n * k \in Nat
    BY <2>1, <2>2
  <2>4. /\ rewards' = [c \in Collectors |-> rewards[c] + IF c \in validators THEN n ELSE 0]
        /\ distributed' = distributed + n * k /\ treasury' = 0
    BY <1>2 DEF DistributeFees
  <2>5. /\ rewards' \in [Collectors -> Nat]
        /\ \A c \in Collectors : rewards'[c] = rewards[c] + (IF c \in validators THEN n ELSE 0)
    BY <2>2, <2>4 DEF FeesInv, FeesTyped
  <2> HIDE DEF n, k
  <2>6. /\ rewards \in [Collectors -> Int] /\ validators \in SUBSET Collectors
        /\ \A c \in Collectors : rewards[c] \in Int
    BY DEF FeesInv, FeesTyped
  <2>7. SumFunctionOnSet(rewards', Collectors) = SumFunctionOnSet(rewards, Collectors) + n * k
    BY <2>1, <2>2, <2>5, <2>6, SumOfEqualParts DEF k
  <2>8. SumFunctionOnSet(rewards, Collectors) \in Int
    BY <2>1, <2>6, SumType
  <2>9. Funded'
    <3>1. /\ distributed = claimed + SumFunctionOnSet(rewards, Collectors)
          /\ distributed + treasury <= collected
          /\ treasury \in Nat /\ collected \in Nat /\ distributed \in Nat /\ claimed \in Nat
          /\ claimed' = claimed /\ collected' = collected
      BY DEF DistributeFees, FeesInv, FeesTyped, Funded
    <3>2. distributed' = claimed' + SumFunctionOnSet(rewards', Collectors)
      BY <2>3, <2>4, <2>7, <2>8, <3>1
    <3>3. distributed' + treasury' <= collected'
      BY <2>2, <2>3, <2>4, <3>1
    <3> QED
      BY <3>2, <3>3 DEF Funded
  <2>10. FeesTyped'
    <3>1. FeesTyped
      BY DEF FeesInv
    <3>2. UNCHANGED <<now, base, opConfig, rate, validators, opsSince, opsCount, collected, claimed,
                      auctions>>
      BY DEF DistributeFees, configVars, opsVars
    <3>3. treasury' \in Nat /\ distributed' \in Nat
      BY <2>3, <2>4, <3>1 DEF FeesTyped
    <3> QED
      BY ONLY <2>5, <3>1, <3>2, <3>3 DEF FeesTyped
  <2> QED
    BY <2>9, <2>10 DEF FeesInv, DistributeFees
<1> QED
  BY <1>1, <1>2

LEMMA ClaimFeesInv ==
  ASSUME FeesInv, NEW c \in Collectors, ClaimFeeRewards(c), UNCHANGED now PROVE FeesInv'
<1>1. /\ rewards \in [Collectors -> Nat] /\ rewards' \in [Collectors -> Nat]
      /\ -rewards[c] \in Int /\ rewards'[c] = rewards[c] + (-rewards[c])
      /\ \A d \in Collectors \ {c} : rewards'[d] = rewards[d]
      /\ claimed' = claimed + rewards[c] /\ UNCHANGED <<treasury, collected, distributed>>
  BY DEF FeesInv, FeesTyped, ClaimFeeRewards
<1>2. IsFiniteSet(Collectors) /\ \A d \in Collectors : rewards[d] \in Int
  BY <1>1, FeesAssumption
<1>3. /\ SumFunctionOnSet(rewards, Collectors) \in Int
      /\ SumFunctionOnSet(rewards', Collectors)
           = SumFunctionOnSet(rewards, Collectors) + (-rewards[c])
  BY <1>1, <1>2, SumPlus
<1>4. Funded'
  <2>1. /\ distributed = claimed + SumFunctionOnSet(rewards, Collectors)
        /\ distributed + treasury <= collected /\ claimed \in Nat
    BY DEF FeesInv, FeesTyped, Funded
  <2>2. distributed' = claimed' + SumFunctionOnSet(rewards', Collectors)
    BY <1>1, <1>2, <1>3, <2>1
  <2> QED
    BY <1>1, <2>1, <2>2 DEF Funded
<1>5. FeesTyped'
  BY <1>1 DEF FeesInv, FeesTyped, ClaimFeeRewards, configVars, opsVars
<1> QED
  BY <1>4, <1>5 DEF FeesInv, ClaimFeeRewards

LEMMA FeesInitInv == now = 0 /\ FeesInit => FeesInv
<1> SUFFICES ASSUME now = 0, FeesInit PROVE FeesInv
  OBVIOUS
<1>1. IsFiniteSet(Collectors) /\ \A c \in Collectors : rewards[c] = 0
  BY FeesAssumption DEF FeesInit
<1>2. SumFunctionOnSet(rewards, Collectors) = 0
  BY <1>1, SumOfZeros
<1> QED
  BY <1>2, FeesAssumption DEF FeesInit, FeesInv, FeesTyped, Funded

LEMMA FeesStepInv == FeesInv /\ [FeesStep]_<<now, feeVars>> => FeesInv'
<1> SUFFICES ASSUME FeesInv, [FeesStep]_<<now, feeVars>> PROVE FeesInv'
  OBVIOUS
<1>1. ASSUME UNCHANGED <<moneyVars, auctions>>, FeesTyped' PROVE FeesInv'
  BY <1>1 DEF FeesInv, Funded, moneyVars
<1>2. CASE UNCHANGED feeVars /\ (Tick \/ UNCHANGED now)
  <2>1. FeesTyped'
    BY <1>2 DEF FeesInv, FeesTyped, feeVars, configVars, opsVars, moneyVars, Tick
  <2> QED
    BY <1>1, <1>2, <2>1 DEF feeVars, configVars
<1>3. ASSUME UNCHANGED now, UpdateFeeParams PROVE FeesInv'
  <2>1. base' \in Nat
    <3>1. MinFee \in Nat /\ MaxFee \in Nat /\ base \in Nat
      BY FeesAssumption DEF FeesInv, FeesTyped
    <3>2. (base * 105) \div 100 \in Nat /\ (base * 95) \div 100 \in Nat
      BY <3>1
    <3>3. \/ base' = Smaller((base * 105) \div 100, MaxFee)
          \/ base' = Larger((base * 95) \div 100, MinFee) \/ base' = base
      BY <1>3 DEF UpdateFeeParams
    <3> QED
      BY <3>1, <3>2, <3>3 DEF Smaller, Larger
  <2>2. FeesTyped'
    BY <1>3, <2>1 DEF UpdateFeeParams, FeesInv, FeesTyped, opsVars, moneyVars
  <2> QED
    BY <1>1, <1>3, <2>2 DEF UpdateFeeParams
<1>4. ASSUME UNCHANGED now, NEW c \in OpConfigs, SetOperationConfig(c) PROVE FeesInv'
  <2>1. FeesTyped'
    BY <1>4, FeesAssumption
    DEF SetOperationConfig, FeesInv, FeesTyped, OpConfig, opsVars, moneyVars
  <2> QED
    BY <1>1, <1>4, <2>1 DEF SetOperationConfig
<1>5. ASSUME UNCHANGED now, NEW c \in Collectors, AddValidator(c) \/ RemoveValidator(c)
      PROVE  FeesInv'
  <2>1. /\ UNCHANGED <<now, base, opConfig, rate, opsVars, moneyVars, auctions>>
        /\ validators' \subseteq Collectors
    BY <1>5 DEF AddValidator, RemoveValidator, FeesInv, FeesTyped
  <2>2. FeesTyped'
    BY <2>1 DEF FeesInv, FeesTyped, opsVars, moneyVars
  <2> QED
    BY <1>1, <2>1, <2>2
<1>6. ASSUME UNCHANGED now, NEW bp \in Rates, SetDistributionRates(bp) PROVE FeesInv'
  <2>1. /\ UNCHANGED <<now, base, opConfig, validators, opsVars, moneyVars, auctions>>
        /\ rate' \in 0 .. 10000
    BY <1>6, FeesAssumption DEF SetDistributionRates
  <2>2. FeesTyped'
    BY <2>1 DEF FeesInv, FeesTyped, opsVars, moneyVars
  <2> QED
    BY <1>1, <2>1, <2>2
<1> QED
  BY <1>2, <1>3, <1>4, <1>5, <1>6, RecordInv, CreateAuctionInv, PlaceBidInv, SettleInv,
     DistributeFeesInv, ClaimFeesInv
  DEF FeesStep, FeesNext

(* What validators were credited they have or have claimed, it never exceeds *)
(* what was collected, and an auction is settled to the highest bid on       *)
(* record: for any fees, rates, validators and bids, in any order.           *)
THEOREM FeesStayHonest == FeesSpec => []FeesAreHonest
<1>1. FeesInv => FeesAreHonest
  BY DEF FeesInv, Funded, Leads, FeesAreHonest, RewardsAreFunded, WinnerIsHighest
<1> QED
  BY <1>1, FeesInitInv, FeesStepInv, PTL DEF FeesSpec

-----------------------------------------------------------------------------
(* The compliance registry.                                                *)

FileStatus == {"Verified", "Rejected", "Expired"}
Consents == {"NotGiven", "Given", "Withdrawn"}

ComplianceFile ==
  [status : FileStatus, risk : RiskLevels \union {"Medium", "High", "Prohibited"},
   expiry : Nat, retention : Nat, aml : BOOLEAN, sanctions : BOOLEAN, consent : Consents]

KycRequest == [account : Customers, done : BOOLEAN]

Actions == 0 .. 3

\* The trail has the action after the k-th entry.
ShownAfter(log, k, action) == \E i \in DOMAIN log : i > k /\ log[i] = action

\* The flags of a file are what the trail shows after a verification that no
\* other has followed.
Backed(f, log) ==
  \E k \in DOMAIN log :
    /\ log[k] = 0 /\ ~ShownAfter(log, k, 0)
    /\ f.aml => ShownAfter(log, k, 1)
    /\ f.sanctions => ShownAfter(log, k, 2)
    /\ f.consent = "Given" => ShownAfter(log, k, 3)

FileFits(f, log) == f = NoFile \/ (f \in ComplianceFile /\ Backed(f, log))

\* The inductive invariant.
RegistryInv ==
  /\ now \in Nat
  /\ file \in [Customers -> ComplianceFile \union {NoFile}]
  /\ audit \in [Customers -> Seq(Actions)]
  /\ kycRequests \in Seq(KycRequest)
  /\ rules \in [level : Nat, retention : Nat]
  /\ \A c \in Customers : FileFits(file[c], audit[c])

(* What a further entry shows, and where.                                    *)
LEMMA ShownAfterAppend ==
  ASSUME NEW log \in Seq(Actions), NEW a \in Actions
  PROVE  /\ Append(log, a) \in Seq(Actions)
         /\ \A k \in DOMAIN log, b \in Actions :
              /\ k \in DOMAIN Append(log, a) /\ Append(log, a)[k] = log[k]
              /\ ShownAfter(Append(log, a), k, b) <=> ShownAfter(log, k, b) \/ a = b
         /\ LET n == Len(log) + 1
            IN  /\ n \in DOMAIN Append(log, a) /\ Append(log, a)[n] = a
                /\ \A b : ~ShownAfter(Append(log, a), n, b)
<1> DEFINE l == Append(log, a)
           n == Len(log) + 1
<1>1. /\ l \in Seq(Actions) /\ DOMAIN l = 1 .. n /\ DOMAIN log = 1 .. Len(log) /\ n \in Nat
      /\ Len(log) \in Nat /\ l[n] = a /\ \A i \in 1 .. Len(log) : l[i] = log[i]
  OBVIOUS
<1> HIDE DEF l
<1>2. ASSUME NEW k \in DOMAIN log, NEW b \in Actions
      PROVE  ShownAfter(l, k, b) <=> ShownAfter(log, k, b) \/ a = b
  <2>1. k \in 1 .. Len(log)
    BY <1>1
  <2>2. ASSUME ShownAfter(l, k, b), a # b PROVE ShownAfter(log, k, b)
    BY <1>1, <2>1, <2>2 DEF ShownAfter
  <2>3. ASSUME ShownAfter(log, k, b) PROVE ShownAfter(l, k, b)
    BY <1>1, <2>1, <2>3 DEF ShownAfter
  <2>4. ASSUME a = b PROVE ShownAfter(l, k, b)
    BY <1>1, <2>1, <2>4 DEF ShownAfter
  <2> QED
    BY <2>2, <2>3, <2>4
<1>3. \A b : ~ShownAfter(l, n, b)
  BY <1>1 DEF ShownAfter
<1>4. \A k \in DOMAIN log : k \in DOMAIN l /\ l[k] = log[k]
  BY <1>1
<1> QED
  BY <1>1, <1>2, <1>3, <1>4 DEF l

(* A verification is the last one, and nothing has been checked since.       *)
LEMMA VerifiedIsBacked ==
  ASSUME NEW log \in Seq(Actions), NEW f \in ComplianceFile,
         ~f.aml, ~f.sanctions, f.consent = "NotGiven"
  PROVE  Append(log, 0) \in Seq(Actions) /\ Backed(f, Append(log, 0))
<1> DEFINE l == Append(log, 0)
           n == Len(log) + 1
<1>1. l \in Seq(Actions) /\ n \in DOMAIN l /\ l[n] = 0 /\ \A b : ~ShownAfter(l, n, b)
  BY ShownAfterAppend DEF Actions
<1> HIDE DEF l, n
<1>2. Backed(f, l)
  BY <1>1 DEF Backed
<1> QED
  BY <1>1, <1>2 DEF l

(* A check that is logged sets no flag but its own.                          *)
LEMMA LoggedIsBacked ==
  ASSUME NEW log \in Seq(Actions), NEW a \in 1 .. 3, NEW f \in ComplianceFile, Backed(f, log),
         NEW g \in ComplianceFile,
         g.aml => f.aml \/ a = 1, g.sanctions => f.sanctions \/ a = 2,
         g.consent = "Given" => f.consent = "Given" \/ a = 3
  PROVE  Append(log, a) \in Seq(Actions) /\ Backed(g, Append(log, a))
<1> DEFINE l == Append(log, a)
<1>1. PICK k \in DOMAIN log : /\ log[k] = 0 /\ ~ShownAfter(log, k, 0)
                              /\ f.aml => ShownAfter(log, k, 1)
                              /\ f.sanctions => ShownAfter(log, k, 2)
                              /\ f.consent = "Given" => ShownAfter(log, k, 3)
  BY DEF Backed
<1>2. /\ l \in Seq(Actions) /\ k \in DOMAIN l /\ l[k] = log[k]
      /\ \A b \in Actions : ShownAfter(l, k, b) <=> ShownAfter(log, k, b) \/ a = b
  BY ShownAfterAppend DEF Actions
<1>3. 0 \in Actions /\ 1 \in Actions /\ 2 \in Actions /\ 3 \in Actions /\ a # 0
  BY DEF Actions
<1> HIDE DEF l
<1>4. Backed(g, l)
  BY <1>1, <1>2, <1>3 DEF Backed
<1> QED
  BY <1>2, <1>4 DEF l

(* A step that changes one file and its trail.                               *)
LEMMA OneFileInv ==
  ASSUME RegistryInv, NEW c \in Customers, NEW f, NEW log \in Seq(Actions), f \in ComplianceFile,
         FileFits(f, log), file' = [file EXCEPT ![c] = f], audit' = [audit EXCEPT ![c] = log],
         kycRequests' \in Seq(KycRequest), UNCHANGED <<now, rules>>
  PROVE  RegistryInv'
<1>1. /\ file' \in [Customers -> ComplianceFile \union {NoFile}]
      /\ audit' \in [Customers -> Seq(Actions)]
      /\ file'[c] = f /\ audit'[c] = log
      /\ \A d \in Customers \ {c} : file'[d] = file[d] /\ audit'[d] = audit[d]
  BY DEF RegistryInv
<1>2. \A d \in Customers : FileFits(file'[d], audit'[d])
  BY <1>1 DEF RegistryInv
<1> QED
  BY <1>1, <1>2 DEF RegistryInv

LEMMA VerifyInv ==
  ASSUME RegistryInv, NEW by, NEW c \in Customers, NEW risk \in RiskLevels, NEW d \in Documents,
         Verify(by, c, risk, d), kycRequests' \in Seq(KycRequest),
         UNCHANGED <<now, rules>>
  PROVE  RegistryInv'
<1> DEFINE f == [status |-> "Verified", risk |-> risk, expiry |-> now + Validity,
                 retention |-> now + rules.retention,
                 aml |-> FALSE, sanctions |-> FALSE, consent |-> "NotGiven"]
           log == Append(audit[c], 0)
<1>1. /\ f \in ComplianceFile /\ ~f.aml /\ ~f.sanctions /\ f.consent = "NotGiven"
      /\ audit[c] \in Seq(Actions)
  BY RegistryAssumption DEF RegistryInv, ComplianceFile, FileStatus, Consents
<1>2. file' = [file EXCEPT ![c] = f] /\ audit' = [audit EXCEPT ![c] = log]
  BY DEF Verify, LogAudit, RegistryInv
<1> HIDE DEF f
<1>3. log \in Seq(Actions) /\ FileFits(f, log)
  BY <1>1, VerifiedIsBacked DEF FileFits
<1> HIDE DEF log
<1> QED
  BY <1>1, <1>2, <1>3, OneFileInv

(* What AfterAml and AfterSanctions make of a file.                          *)
LEMMA AfterAmlIs ==
  ASSUME NEW f \in ComplianceFile, NEW passed \in BOOLEAN, NEW count
  PROVE  LET g == AfterAml(f, passed, count)
         IN  g \in ComplianceFile /\ g.sanctions = f.sanctions /\ g.consent = f.consent
  BY DEF AfterAml, ComplianceFile, FileStatus

LEMMA AfterSanctionsIs ==
  ASSUME NEW f \in ComplianceFile, NEW passed \in BOOLEAN
  PROVE  LET g == AfterSanctions(f, passed)
         IN  g \in ComplianceFile /\ g.aml = f.aml /\ g.consent = f.consent
  BY DEF AfterSanctions, ComplianceFile, FileStatus

(* The file of a customer on file, and what its trail backs.                 *)
LEMMA OnFile ==
  ASSUME RegistryInv, NEW c \in Customers, IsOnFile(c)
  PROVE  file[c] \in ComplianceFile /\ Backed(file[c], audit[c]) /\ audit[c] \in Seq(Actions)
  BY DEF RegistryInv, IsOnFile, FileFits

LEMMA CheckInv ==
  ASSUME RegistryInv, NEW c \in Customers, IsOnFile(c), NEW g \in ComplianceFile, NEW a \in {1, 2, 3},
         g.aml => file[c].aml \/ a = 1, g.sanctions => file[c].sanctions \/ a = 2,
         g.consent = "Given" => file[c].consent = "Given" \/ a = 3,
         file' = [file EXCEPT ![c] = g], LogAudit(c, a), UNCHANGED <<now, kycRequests, rules>>
  PROVE  RegistryInv'
<1> DEFINE log == Append(audit[c], a)
<1>1. audit' = [audit EXCEPT ![c] = log]
  BY DEF LogAudit, RegistryInv
<1>2. log \in Seq(Actions) /\ FileFits(g, log)
  BY OnFile, LoggedIsBacked, a \in 1 .. 3 DEF FileFits
<1>3. kycRequests' \in Seq(KycRequest)
  BY DEF RegistryInv
<1> HIDE DEF log
<1> QED
  BY <1>1, <1>2, <1>3, OneFileInv

(* A step that changes a file without a trace and gives it no flag.          *)
LEMMA SilentInv ==
  ASSUME RegistryInv, NEW c \in Customers, IsOnFile(c), NEW g \in ComplianceFile,
         g.aml = file[c].aml, g.sanctions = file[c].sanctions, g.consent = file[c].consent,
         file' = [file EXCEPT ![c] = g], UNCHANGED <<now, audit, kycRequests, rules>>
  PROVE  RegistryInv'
<1>1. FileFits(g, audit[c])
  BY OnFile DEF FileFits, Backed
<1>2. audit' = [audit EXCEPT ![c] = audit[c]] /\ audit[c] \in Seq(Actions)
  BY DEF RegistryInv
<1>3. kycRequests' \in Seq(KycRequest)
  BY DEF RegistryInv
<1> QED
  BY <1>1, <1>2, <1>3, OneFileInv

LEMMA AmlInv ==
  ASSUME RegistryInv, NEW by, NEW c \in Customers, NEW passed \in BOOLEAN, NEW factors,
         UpdateAmlStatus(by, c, passed, factors), UNCHANGED now
  PROVE  RegistryInv'
<1> DEFINE g == AfterAml(file[c], passed, factors.count)
<1>1. IsOnFile(c) /\ LogAudit(c, 1) /\ UNCHANGED <<kycRequests, rules>>
      /\ file' = [file EXCEPT ![c] = g]
  BY DEF UpdateAmlStatus, RegistryInv
<1>2. g \in ComplianceFile /\ g.sanctions = file[c].sanctions /\ g.consent = file[c].consent
  BY <1>1, OnFile, AfterAmlIs
<1> HIDE DEF g
<1> QED
  BY <1>1, <1>2, CheckInv

LEMMA SanctionsInv ==
  ASSUME RegistryInv, NEW by, NEW c \in Customers, NEW passed \in BOOLEAN,
         UpdateSanctionsStatus(by, c, passed), UNCHANGED now
  PROVE  RegistryInv'
<1> DEFINE g == AfterSanctions(file[c], passed)
<1>1. IsOnFile(c) /\ LogAudit(c, 2) /\ UNCHANGED <<kycRequests, rules>>
      /\ file' = [file EXCEPT ![c] = g]
  BY DEF UpdateSanctionsStatus, RegistryInv
<1>2. g \in ComplianceFile /\ g.aml = file[c].aml /\ g.consent = file[c].consent
  BY <1>1, OnFile, AfterSanctionsIs
<1> HIDE DEF g
<1> QED
  BY <1>1, <1>2, CheckInv

LEMMA ConsentInv ==
  ASSUME RegistryInv, NEW by, NEW c \in Customers, NEW consent \in {"Given", "Withdrawn"},
         UpdateConsent(by, c, consent), UNCHANGED now
  PROVE  RegistryInv'
<1> DEFINE g == [file[c] EXCEPT !.consent = consent]
<1>1. IsOnFile(c) /\ LogAudit(c, 3) /\ UNCHANGED <<kycRequests, rules>>
      /\ file' = [file EXCEPT ![c] = g]
  BY DEF UpdateConsent, RegistryInv
<1>2. g \in ComplianceFile /\ g.aml = file[c].aml /\ g.sanctions = file[c].sanctions
  BY <1>1, OnFile DEF ComplianceFile, Consents
<1> HIDE DEF g
<1> QED
  BY <1>1, <1>2, CheckInv

\* revoke_verification and request_data_deletion.
LEMMA StatusInv ==
  ASSUME RegistryInv, NEW c \in Customers, IsOnFile(c), NEW status \in FileStatus,
         file' = [file EXCEPT ![c].status = status],
         UNCHANGED <<now, audit, kycRequests, rules>>
  PROVE  RegistryInv'
<1> DEFINE g == [file[c] EXCEPT !.status = status]
<1>1. file' = [file EXCEPT ![c] = g]
  BY DEF RegistryInv
<1>2. /\ g \in ComplianceFile /\ g.aml = file[c].aml /\ g.sanctions = file[c].sanctions
      /\ g.consent = file[c].consent
  BY OnFile DEF ComplianceFile
<1> HIDE DEF g
<1> QED
  BY <1>1, <1>2, SilentInv

(* A batch of checks, of those of some customers that are on file.           *)
LEMMA BatchInv ==
  ASSUME RegistryInv, NEW checked \in SUBSET Customers, NEW a \in {1, 2},
         file' = [c \in Customers |-> file'[c]], audit' = [c \in Customers |-> audit'[c]],
         \A c \in checked :
           /\ IsOnFile(c) /\ audit'[c] = Append(audit[c], a)
           /\ file'[c] \in ComplianceFile /\ file'[c].consent = file[c].consent
           /\ a = 1 => file'[c].sanctions = file[c].sanctions
           /\ a = 2 => file'[c].aml = file[c].aml,
         \A c \in Customers \ checked : file'[c] = file[c] /\ audit'[c] = audit[c],
         UNCHANGED <<now, kycRequests, rules>>
  PROVE  RegistryInv'
<1>1. ASSUME NEW c \in checked
      PROVE  /\ audit'[c] \in Seq(Actions) /\ file'[c] \in ComplianceFile
             /\ FileFits(file'[c], audit'[c])
  <2>1. /\ c \in Customers /\ IsOnFile(c) /\ audit'[c] = Append(audit[c], a)
        /\ file'[c] \in ComplianceFile /\ file'[c].consent = file[c].consent
        /\ file'[c].aml => file[c].aml \/ a = 1
        /\ file'[c].sanctions => file[c].sanctions \/ a = 2
    OBVIOUS
  <2>2. file[c] \in ComplianceFile /\ Backed(file[c], audit[c]) /\ audit[c] \in Seq(Actions)
    BY <2>1, OnFile
  <2> DEFINE g == file'[c]
             log == audit[c]
  <2>3. Append(log, a) \in Seq(Actions) /\ Backed(g, Append(log, a))
    <3> HIDE DEF g, log
    <3> QED
      BY <2>1, <2>2, LoggedIsBacked DEF g, log
  <2> QED
    BY <2>1, <2>3 DEF FileFits
<1>2. ASSUME NEW c \in Customers \ checked
      PROVE  /\ audit'[c] \in Seq(Actions) /\ file'[c] \in ComplianceFile \union {NoFile}
             /\ FileFits(file'[c], audit'[c])
  BY DEF RegistryInv
<1>3. /\ file' \in [Customers -> ComplianceFile \union {NoFile}]
      /\ audit' \in [Customers -> Seq(Actions)]
      /\ \A c \in Customers : FileFits(file'[c], audit'[c])
  BY <1>1, <1>2
<1> QED
  BY <1>3 DEF RegistryInv

LEMMA BatchAmlInv ==
  ASSUME RegistryInv, NEW by, NEW factorsOf \in [Customers -> Factors],
         BatchAmlCheck(by, factorsOf), UNCHANGED now
  PROVE  RegistryInv'
<1> DEFINE checked == {c \in DOMAIN factorsOf : IsOnFile(c)}
           Passed(f) == f.count < 3 /\ f.funds
           After(c) == AfterAml(file[c], Passed(factorsOf[c]), factorsOf[c].count)
<1>1. /\ file' = [c \in Customers |-> IF c \in checked THEN After(c) ELSE file[c]]
      /\ audit' = [c \in Customers |-> IF c \in checked THEN Append(audit[c], 1) ELSE audit[c]]
      /\ UNCHANGED <<kycRequests, rules>> /\ checked \in SUBSET Customers
  BY DEF BatchAmlCheck
<1>2. ASSUME NEW c \in checked
      PROVE  /\ IsOnFile(c) /\ After(c) \in ComplianceFile /\ After(c).consent = file[c].consent
             /\ After(c).sanctions = file[c].sanctions
  BY OnFile, AfterAmlIs
<1> HIDE DEF checked, After
<1>3. /\ file' = [c \in Customers |-> file'[c]] /\ audit' = [c \in Customers |-> audit'[c]]
      /\ \A c \in checked : file'[c] = After(c) /\ audit'[c] = Append(audit[c], 1)
      /\ \A c \in Customers \ checked : file'[c] = file[c] /\ audit'[c] = audit[c]
  BY <1>1
<1> DEFINE a == 1
<1>4. \A c \in checked :
        /\ IsOnFile(c) /\ audit'[c] = Append(audit[c], a)
        /\ file'[c] \in ComplianceFile /\ file'[c].consent = file[c].consent
        /\ a = 1 => file'[c].sanctions = file[c].sanctions
        /\ a = 2 => file'[c].aml = file[c].aml
  BY <1>2, <1>3
<1>5. a \in {1, 2}
  OBVIOUS
<1> HIDE DEF a
<1> QED
  BY <1>1, <1>3, <1>4, <1>5, BatchInv

LEMMA BatchSanctionsInv ==
  ASSUME RegistryInv, NEW by, NEW passedOf \in [Customers -> BOOLEAN],
         BatchSanctionsCheck(by, passedOf), UNCHANGED now
  PROVE  RegistryInv'
<1> DEFINE After(c) == AfterSanctions(file[c], passedOf[c])
           checked == DOMAIN passedOf
<1>1. /\ file' = [c \in Customers |-> IF c \in checked THEN After(c) ELSE file[c]]
      /\ audit' = [c \in Customers |-> IF c \in checked THEN Append(audit[c], 2) ELSE audit[c]]
      /\ UNCHANGED <<kycRequests, rules>> /\ checked \in SUBSET Customers
  BY DEF BatchSanctionsCheck
<1>2. ASSUME NEW c \in checked
      PROVE  /\ IsOnFile(c) /\ After(c) \in ComplianceFile /\ After(c).consent = file[c].consent
             /\ After(c).aml = file[c].aml
  BY OnFile, AfterSanctionsIs DEF BatchSanctionsCheck
<1> HIDE DEF checked, After
<1>3. /\ file' = [c \in Customers |-> file'[c]] /\ audit' = [c \in Customers |-> audit'[c]]
      /\ \A c \in checked : file'[c] = After(c) /\ audit'[c] = Append(audit[c], 2)
      /\ \A c \in Customers \ checked : file'[c] = file[c] /\ audit'[c] = audit[c]
  BY <1>1
<1> DEFINE a == 2
<1>4. \A c \in checked :
        /\ IsOnFile(c) /\ audit'[c] = Append(audit[c], a)
        /\ file'[c] \in ComplianceFile /\ file'[c].consent = file[c].consent
        /\ a = 1 => file'[c].sanctions = file[c].sanctions
        /\ a = 2 => file'[c].aml = file[c].aml
  BY <1>2, <1>3
<1>5. a \in {1, 2}
  OBVIOUS
<1> HIDE DEF a
<1> QED
  BY <1>1, <1>3, <1>4, <1>5, BatchInv

LEMMA RequestInv ==
  ASSUME RegistryInv, NEW c \in Customers, CreateVerificationRequest(c), UNCHANGED now
  PROVE  RegistryInv'
<1>1. kycRequests' \in Seq(KycRequest)
  BY DEF CreateVerificationRequest, RegistryInv, KycRequest
<1> QED
  BY <1>1 DEF CreateVerificationRequest, RegistryInv

LEMMA ProcessRequestInv ==
  ASSUME RegistryInv, NEW by, NEW id \in DOMAIN kycRequests, NEW risk \in RiskLevels,
         NEW d \in Documents, ProcessVerificationRequest(by, id, risk, d), UNCHANGED now
  PROVE  RegistryInv'
<1> DEFINE q == [kycRequests[id] EXCEPT !.done = TRUE]
<1>1. kycRequests \in Seq(KycRequest)
  BY DEF RegistryInv
<1>2. kycRequests[id] \in KycRequest
  BY <1>1
<1>3. kycRequests' = [kycRequests EXCEPT ![id] = q]
  BY DEF ProcessVerificationRequest
<1>4. kycRequests[id].account \in Customers /\ q \in KycRequest
  BY <1>2 DEF KycRequest
<1> HIDE DEF q
<1>5. kycRequests' \in Seq(KycRequest)
  BY <1>1, <1>3, <1>4, SeqUpdate
<1> QED
  BY <1>4, <1>5, VerifyInv DEF ProcessVerificationRequest

LEMMA RegistryInitInv == now = 0 /\ RegistryInit => RegistryInv
  BY RegistryAssumption DEF RegistryInit, RegistryInv, FileFits

LEMMA RegistryStepInv == RegistryInv /\ [RegistryStep]_<<now, registryVars>> => RegistryInv'
<1> SUFFICES ASSUME RegistryInv, [RegistryStep]_<<now, registryVars>> PROVE RegistryInv'
  OBVIOUS
<1>1. CASE UNCHANGED registryVars /\ (Tick \/ UNCHANGED now)
  BY <1>1 DEF registryVars, RegistryInv, Tick
<1>2. ASSUME RegistryNext, UNCHANGED now PROVE RegistryInv'
  <2>1. ASSUME NEW by \in Officers, NEW c \in Customers, NEW risk \in RiskLevels,
               NEW d \in Documents, SubmitVerification(by, c, risk, d)
        PROVE  RegistryInv'
    <3>1. kycRequests' \in Seq(KycRequest)
      BY <2>1 DEF SubmitVerification, RegistryInv
    <3> QED
      BY <1>2, <2>1, <3>1, VerifyInv DEF SubmitVerification
  <2>2. ASSUME NEW by \in Officers, NEW c \in Customers, NEW passed \in BOOLEAN,
               UpdateSanctionsStatus(by, c, passed)
        PROVE  RegistryInv'
    BY <1>2, <2>2, SanctionsInv
  <2>3. ASSUME NEW by \in Officers, NEW c \in Customers, NEW passed \in BOOLEAN,
               NEW factors \in Factors, UpdateAmlStatus(by, c, passed, factors)
        PROVE  RegistryInv'
    BY <1>2, <2>3, AmlInv
  <2>4. ASSUME NEW by \in Officers, NEW c \in Customers, RevokeVerification(by, c)
        PROVE  RegistryInv'
    BY <1>2, <2>4, StatusInv DEF RevokeVerification, FileStatus
  <2>5. ASSUME NEW by \in Officers, NEW id \in DOMAIN kycRequests, NEW risk \in RiskLevels,
               NEW d \in Documents, ProcessVerificationRequest(by, id, risk, d)
        PROVE  RegistryInv'
    BY <1>2, <2>5, ProcessRequestInv
  <2>6. ASSUME NEW by \in Officers, NEW factorsOf \in [Customers -> Factors],
               BatchAmlCheck(by, factorsOf)
        PROVE  RegistryInv'
    BY <1>2, <2>6, BatchAmlInv
  <2>7. ASSUME NEW by \in Officers, NEW passedOf \in [Customers -> BOOLEAN],
               BatchSanctionsCheck(by, passedOf)
        PROVE  RegistryInv'
    BY <1>2, <2>7, BatchSanctionsInv
  <2>8. ASSUME NEW o \in Officers, AddVerifier(o) PROVE RegistryInv'
    BY <1>2, <2>8 DEF AddVerifier, RegistryInv
  <2>9. ASSUME NEW c \in Customers, NEW by \in Customers \union Officers,
               NEW consent \in {"Given", "Withdrawn"}, UpdateConsent(by, c, consent)
        PROVE  RegistryInv'
    BY <1>2, <2>9, ConsentInv
  <2>10. ASSUME NEW c \in Customers, RequestDataDeletion(c) PROVE RegistryInv'
    BY <1>2, <2>10, StatusInv DEF RequestDataDeletion, FileStatus
  <2>11. ASSUME NEW c \in Customers, CreateVerificationRequest(c) PROVE RegistryInv'
    BY <1>2, <2>11, RequestInv
  <2>12. ASSUME NEW r \in Rules, UpdateJurisdictionRules(r) PROVE RegistryInv'
    BY <1>2, <2>12, RegistryAssumption DEF UpdateJurisdictionRules, RegistryInv
  <2> QED
    BY <1>2, <2>1, <2>2, <2>3, <2>4, <2>5, <2>6, <2>7, <2>8, <2>9, <2>10, <2>11, <2>12
    DEF RegistryNext
<1> QED
  BY <1>1, <1>2 DEF RegistryStep

(* The last verification in a trail is the one that no other follows.        *)
LEMMA LastVerification ==
  ASSUME NEW log \in Seq(Actions), NEW k \in DOMAIN log, log[k] = 0, ~ShownAfter(log, k, 0)
  PROVE  SelectLastInSeq(log, LAMBDA a : a = 0) = k
<1> DEFINE I == {i \in 1 .. Len(log) : log[i] = 0}
<1>1. k \in I /\ \A i \in I : i <= k /\ i \in Int
  BY DEF ShownAfter
<1>2. Max(I) = k
  <2>1. /\ k \in I /\ \A i \in I : k >= i
        /\ \A x : (x \in I /\ \A i \in I : x >= i) => x = k
    BY <1>1
  <2> HIDE DEF I
  <2> QED
    BY <2>1 DEF Max
<1> QED
  BY <1>1, <1>2 DEF SelectLastInSeq

(* A transaction is allowed only on the strength of the last verification:   *)
(* the audit trail shows an AML check, a sanctions check and a consent after *)
(* it, whatever was verified, rejected, revoked or checked in batches.       *)
THEOREM ChecksFollowVerification == RegistrySpec => []CompliantIsAudited
<1>1. RegistryInv => CompliantIsAudited
  <2> SUFFICES ASSUME RegistryInv, NEW c \in Customers, TransactionAllowed(c)
               PROVE  LET last == SelectLastInSeq(audit[c], LAMBDA a : a = 0)
                      IN  /\ last > 0
                          /\ \A action \in 1 .. 3 :
                               \E i \in last + 1 .. Len(audit[c]) : audit[c][i] = action
    BY DEF CompliantIsAudited
  <2>1. /\ file[c].aml /\ file[c].sanctions /\ file[c].consent = "Given"
        /\ Backed(file[c], audit[c]) /\ audit[c] \in Seq(Actions)
    BY OnFile DEF TransactionAllowed, IsCompliant
  <2> DEFINE log == audit[c]
  <2>2. PICK k \in DOMAIN log : /\ log[k] = 0 /\ ~ShownAfter(log, k, 0)
                                /\ ShownAfter(log, k, 1) /\ ShownAfter(log, k, 2)
                                /\ ShownAfter(log, k, 3)
    BY <2>1 DEF Backed
  <2>3. SelectLastInSeq(log, LAMBDA a : a = 0) = k
    BY <2>1, <2>2, LastVerification
  <2>4. k \in Nat /\ k > 0 /\ Len(log) \in Nat /\ DOMAIN log = 1 .. Len(log)
    BY <2>1
  <2>5. \A action \in 1 .. 3 : ShownAfter(log, k, action)
    BY <2>2
  <2> HIDE DEF log
  <2>6. \A action \in 1 .. 3 : \E i \in k + 1 .. Len(log) : log[i] = action
    BY <2>4, <2>5 DEF ShownAfter
  <2> QED
    BY <2>3, <2>4, <2>6 DEF log
<1> QED
  BY <1>1, RegistryInitInv, RegistryStepInv, PTL DEF RegistrySpec

-----------------------------------------------------------------------------
(* The oracle.                                                             *)

Source == [kind : {"Feed", "Manual", "AIModel"}, weight : Nat, active : BOOLEAN]
Valuation == [price : Nat, confidence : Nat, method : {"MarketData", "Manual", "Hybrid"},
              low : Nat, high : Nat]

InRange(v) == v.method = "MarketData" => v.price \in v.low .. v.high /\ v.confidence \in 0 .. 100

OracleInv ==
  /\ sources \in [Sources -> Source \union {None}] /\ active \subseteq Sources
  /\ past \in Seq(Valuation) /\ Len(past) <= HistoryCap
  /\ \A i \in DOMAIN past : InRange(past[i])
  /\ valuation # None => valuation \in Valuation /\ Last(past) = valuation

LEMMA OracleConstants ==
  /\ IsFiniteSet(Sources) /\ MinSources \in Nat /\ HistoryCap \in Nat /\ HistoryCap > 0
  /\ SourceConfigs \subseteq Source /\ FeedPrices \subseteq Nat /\ GivenPrices \subseteq Nat
  /\ Confidences \subseteq Nat /\ Fallback \in Nat /\ ManualPrice \in Nat
  BY OracleAssumption DEF Source

(* The least and the greatest of finitely many numbers.                      *)
LEMMA MinMaxOf ==
  ASSUME NEW S \in SUBSET Nat, IsFiniteSet(S), S # {}
  PROVE  /\ Min(S) \in S /\ \A x \in S : Min(S) <= x
         /\ Max(S) \in S /\ \A x \in S : x <= Max(S)
<1>1. \E x \in S : \A y \in S : x <= y
  <2>1. PICK Above : Above = {{y \in S : y <= x} : x \in S}
    OBVIOUS
  <2>2. Above \in SUBSET SUBSET S /\ Above # {}
    BY <2>1
  <2>3. PICK T \in Above : \A U \in SUBSET T : U # T => U \notin Above
    BY <2>2, MinimalSubset
  <2>4. PICK x \in S : T = {y \in S : y <= x}
    BY <2>1
  <2>5. ASSUME NEW y \in S, y < x PROVE FALSE
    <3>1. PICK U : U = {z \in S : z <= y}
      OBVIOUS
    <3>2. U \in Above
      BY ONLY <2>1, <2>5, <3>1
    <3>3. x \in T /\ x \notin U /\ U \subseteq T
      <4>1. x \in Nat /\ y \in Nat /\ \A z \in S : z \in Nat
        OBVIOUS
      <4>2. x \in T /\ x \notin U
        BY ONLY x \in S, <2>4, <2>5, <3>1, <4>1
      <4>3. ASSUME NEW z \in U PROVE z \in T
        BY ONLY z \in U, <2>4, <2>5, <3>1, <4>1
      <4> QED
        BY <4>2, <4>3
    <3> QED
      BY <2>3, <3>2, <3>3
  <2> QED
    BY <2>5
<1>2. \E x \in S : \A y \in S : x >= y
  <2>1. PICK Below : Below = {{y \in S : y >= x} : x \in S}
    OBVIOUS
  <2>2. Below \in SUBSET SUBSET S /\ Below # {}
    BY <2>1
  <2>3. PICK T \in Below : \A U \in SUBSET T : U # T => U \notin Below
    BY <2>2, MinimalSubset
  <2>4. PICK x \in S : T = {y \in S : y >= x}
    BY <2>1
  <2>5. ASSUME NEW y \in S, y > x PROVE FALSE
    <3>1. PICK U : U = {z \in S : z >= y}
      OBVIOUS
    <3>2. U \in Below
      BY ONLY <2>1, <2>5, <3>1
    <3>3. x \in T /\ x \notin U /\ U \subseteq T
      <4>1. x \in Nat /\ y \in Nat /\ \A z \in S : z \in Nat
        OBVIOUS
      <4>2. x \in T /\ x \notin U
        BY ONLY x \in S, <2>4, <2>5, <3>1, <4>1
      <4>3. ASSUME NEW z \in U PROVE z \in T
        BY ONLY z \in U, <2>4, <2>5, <3>1, <4>1
      <4> QED
        BY <4>2, <4>3
    <3> QED
      BY <2>3, <3>2, <3>3
  <2> QED
    BY <2>5
<1>3. Min(S) \in S /\ \A x \in S : Min(S) <= x
  BY <1>1 DEF Min
<1>4. Max(S) \in S /\ \A x \in S : Max(S) >= x
  BY <1>2 DEF Max
<1> QED
  BY <1>3, <1>4

(* A sum of products lies between the bounds of one factor, times the sum of *)
(* the other: the mean lies between the bounds.                              *)
LEMMA MeanWithin ==
  ASSUME NEW S, IsFiniteSet(S), NEW p, NEW w, NEW q, NEW lo \in Nat, NEW hi \in Nat,
         \A s \in S : /\ p[s] \in Nat /\ lo <= p[s] /\ p[s] <= hi
                      /\ w[s] \in Nat /\ q[s] = p[s] * w[s],
         SumFunctionOnSet(w, S) # 0
  PROVE  SumFunctionOnSet(q, S) \div SumFunctionOnSet(w, S) \in lo .. hi
<1>1. PICK l, h : l = [s \in S |-> lo * w[s]] /\ h = [s \in S |-> hi * w[s]]
  OBVIOUS
<1>2. ASSUME NEW s \in S
      PROVE  /\ w[s] \in Int /\ q[s] \in Nat
             /\ l[s] \in Int /\ l[s] = lo * w[s] /\ l[s] <= q[s]
             /\ h[s] \in Int /\ h[s] = hi * w[s] /\ q[s] <= h[s]
  <2>1. PICK a \in Nat, b \in Nat : a = p[s] /\ b = w[s]
    BY <1>2
  <2>2. lo * b \in Int /\ hi * b \in Int /\ a * b \in Nat
    OBVIOUS
  <2>3. lo <= a /\ a <= hi
    BY <1>2, <2>1
  <2>4. lo * b <= a * b /\ a * b <= hi * b
    BY ONLY <2>3, lo \in Nat, hi \in Nat, a \in Nat, b \in Nat
  <2> QED
    BY <1>1, <1>2, <2>1, <2>2, <2>4
<1>3. PICK W \in Nat : W = SumFunctionOnSet(w, S) /\ W > 0
  <2>1. SumFunctionOnSet(w, S) \in Nat
    BY SumNonNegative
  <2> QED
    BY <2>1
<1>4. PICK Q \in Nat : Q = SumFunctionOnSet(q, S)
  BY <1>2, SumNonNegative
<1>6. SumFunctionOnSet(l, S) = lo * SumFunctionOnSet(w, S)
  <2>1. \A s \in S : w[s] \in Int /\ l[s] = lo * w[s]
    BY <1>2
  <2> QED
    BY <2>1, SumScaled
<1>7. SumFunctionOnSet(h, S) = hi * SumFunctionOnSet(w, S)
  <2>1. \A s \in S : w[s] \in Int /\ h[s] = hi * w[s]
    BY <1>2
  <2> QED
    BY <2>1, SumScaled
<1>8. SumFunctionOnSet(l, S) <= SumFunctionOnSet(q, S) /\ SumFunctionOnSet(q, S) <= SumFunctionOnSet(h, S)
  <2>1. \A s \in S : l[s] \in Int /\ q[s] \in Int /\ l[s] <= q[s]
    BY <1>2
  <2>2. \A s \in S : q[s] \in Int /\ h[s] \in Int /\ q[s] <= h[s]
    BY <1>2
  <2> QED
    BY <2>1, <2>2, SumMonotone
<1>9. lo * W <= Q /\ Q <= hi * W
  <2>1. lo * W \in Int /\ hi * W \in Int
    OBVIOUS
  <2> QED
    BY <1>3, <1>4, <1>6, <1>7, <1>8, <2>1
<1>10. PICK d \in Nat : d = Q \div W /\ d * W <= Q /\ Q < d * W + W
  BY <1>3, RoundsDown
<1>11. lo <= d
  <2> SUFFICES ASSUME d + 1 <= lo PROVE FALSE
    OBVIOUS
  <2>1. (d + 1) * W <= lo * W
    OBVIOUS
  <2>2. (d + 1) * W = d * W + W /\ d * W \in Int /\ lo * W \in Int
    OBVIOUS
  <2> QED
    BY <1>9, <1>10, <2>1, <2>2
<1>12. d <= hi
  <2> SUFFICES ASSUME hi + 1 <= d PROVE FALSE
    OBVIOUS
  <2>1. (hi + 1) * W <= d * W
    OBVIOUS
  <2>2. (hi + 1) * W = hi * W + W /\ d * W \in Int /\ hi * W \in Int
    OBVIOUS
  <2> QED
    BY <1>3, <1>9, <1>10, <2>1, <2>2
<1> QED
  BY <1>3, <1>4, <1>10, <1>11, <1>12

LEMMA SumOfNaturals ==
  ASSUME NEW S, IsFiniteSet(S), NEW f, DOMAIN f = S, \A s \in S : f[s] \in Nat
  PROVE  Total(f) \in Nat
  BY SumNonNegative DEF Total

LEMMA NewtonIs ==
  ASSUME NEW v \in Nat, NEW x \in Nat PROVE NewtonStep(v, x) \in Nat
<1>1. CASE x > 0
  <2>1. v \div x \in Nat
    BY <1>1, RoundsDown
  <2>2. PICK y \in Nat : y = x + v \div x
    BY <2>1
  <2>3. y \div 2 \in Nat
    BY ONLY y \in Nat, RoundsDown
  <2> QED
    BY <1>1, <2>2, <2>3 DEF NewtonStep
<1>2. CASE ~(x > 0)
  BY <1>2 DEF NewtonStep
<1> QED
  BY <1>1, <1>2

(* A confidence score is a percentage, whatever the prices are.              *)
LEMMA ConfidenceIs ==
  ASSUME NEW prices, IsFiniteSet(DOMAIN prices), DOMAIN prices # {},
         \A s \in DOMAIN prices : prices[s] \in Nat
  PROVE  ConfidenceScore(prices) \in 0 .. 100
<1>1. PICK n \in Nat : n = Cardinality(DOMAIN prices) /\ n > 0
  <2>1. Cardinality(DOMAIN prices) \in Nat
    BY FS_CardinalityType
  <2>2. Cardinality(DOMAIN prices) # 0
    BY FS_EmptySet
  <2> QED
    BY <2>1, <2>2
<1>2. Mean(prices) \in Nat
  <2>1. Total(prices) \in Nat
    BY SumOfNaturals
  <2> QED
    BY <1>1, <2>1, RoundsDown DEF Mean
<1>3. PICK v \in Nat : v = Variance(prices)
  <2>1. PICK f : f = [s \in DOMAIN prices |-> Distance(prices[s], Mean(prices)) * Distance(prices[s], Mean(prices))]
    OBVIOUS
  <2>2. ASSUME NEW s \in DOMAIN prices PROVE f[s] \in Nat
    <3>1. PICK d \in Nat : d = Distance(prices[s], Mean(prices))
      BY <1>2 DEF Distance
    <3>2. d * d \in Nat
      OBVIOUS
    <3> QED
      BY <2>1, <3>1, <3>2
  <2>3. Total(f) \in Nat
    BY <2>1, <2>2, SumOfNaturals
  <2> QED
    BY <1>1, <2>1, <2>3, RoundsDown DEF Variance
<1>4. PICK d \in Nat : d = NewtonStep(v, NewtonStep(v, NewtonStep(v, NewtonStep(v, NewtonStep(v, v)))))
  BY NewtonIs
<1>5. PICK cv \in Nat : cv = IF Mean(prices) > 0 THEN (d * 10000) \div Mean(prices) ELSE 10000
  <2>1. d * 10000 \in Nat
    OBVIOUS
  <2>2. CASE Mean(prices) > 0
    BY <1>2, <2>1, <2>2, RoundsDown
  <2>3. CASE ~(Mean(prices) > 0)
    BY <2>3
  <2> QED
    BY <2>2, <2>3
<1>6. Monus(10000, cv) \in Nat /\ Monus(10000, cv) <= 10000
  BY DEF Monus
<1>7. Monus(10000, cv) \div 400 \in 0 .. 25
  <2>1. PICK m \in Nat : m = Monus(10000, cv) /\ m <= 10000
    BY <1>6
  <2>2. m \div 400 \in Nat /\ (m \div 400) * 400 <= m
    BY RoundsDown
  <2> QED
    BY <2>1, <2>2
<1>8. ConfidenceScore(prices) = (IF n * 25 > 75 THEN 75 ELSE n * 25) + Monus(10000, cv) \div 400
  BY <1>1, <1>3, <1>4, <1>5 DEF ConfidenceScore
<1> QED
  BY <1>7, <1>8

(* What the sources' prices are made of is between them, whatever the filter *)
(* took out.                                                                 *)
LEMMA MarketIsBacked ==
  ASSUME OracleInv, NEW A \in SUBSET Sources, \A s \in A : sources[s] # None,
         NEW prices \in [A -> Nat], AggregatePrices(prices) # None
  PROVE  /\ A # {} /\ Min(Range(prices)) \in Nat /\ Max(Range(prices)) \in Nat
         /\ AggregatePrices(prices) \in Min(Range(prices)) .. Max(Range(prices))
<1>1. PICK K : K = FilterOutliers(prices)
  OBVIOUS
<1>2. K \subseteq A
  BY <1>1 DEF FilterOutliers
<1>3. PICK w, q : /\ w = [s \in K |-> sources[s].weight]
                  /\ q = [s \in K |-> prices[s] * sources[s].weight]
  OBVIOUS
<1>4. /\ K # {} /\ Total(w) # 0 /\ AggregatePrices(prices) = Total(q) \div Total(w)
  BY <1>1, <1>3 DEF AggregatePrices
<1>5. IsFiniteSet(A) /\ IsFiniteSet(K) /\ IsFiniteSet(Range(prices)) /\ Range(prices) \in SUBSET Nat /\ Range(prices) # {}
  <2>1. IsFiniteSet(A)
    BY OracleConstants, FS_Subset
  <2>2. Range(prices) = {prices[s] : s \in A}
    BY DEF Range
  <2>3. IsFiniteSet(Range(prices))
    <3>1. prices \in Surjection(A, Range(prices))
      BY DEF Surjection, Range
    <3> QED
      BY <2>1, <3>1, FS_Surjection
  <2>4. IsFiniteSet(K)
    BY <1>2, <2>1, FS_Subset
  <2> QED
    BY <1>2, <1>4, <2>1, <2>2, <2>3, <2>4
<1>6. PICK lo \in Nat, hi \in Nat :
        lo = Min(Range(prices)) /\ hi = Max(Range(prices)) /\ \A x \in Range(prices) : lo <= x /\ x <= hi
  BY <1>5, MinMaxOf
<1>7. ASSUME NEW s \in K
      PROVE  /\ prices[s] \in Nat /\ lo <= prices[s] /\ prices[s] <= hi
             /\ w[s] \in Nat /\ q[s] = prices[s] * w[s]
  <2>1. prices[s] \in Range(prices) /\ prices[s] \in Nat
    BY <1>2 DEF Range
  <2>2. sources[s] \in Source
    BY <1>2 DEF OracleInv
  <2>3. w[s] = sources[s].weight /\ q[s] = prices[s] * sources[s].weight
    BY <1>3
  <2> QED
    BY <1>6, <2>1, <2>2, <2>3 DEF Source
<1>8. Total(w) = SumFunctionOnSet(w, K) /\ Total(q) = SumFunctionOnSet(q, K)
  BY <1>3 DEF Total
<1>9. SumFunctionOnSet(q, K) \div SumFunctionOnSet(w, K) \in lo .. hi
  BY <1>4, <1>5, <1>7, <1>8, MeanWithin
<1> QED
  BY <1>2, <1>4, <1>6, <1>8, <1>9

(* A valuation that is backed joins the history.                             *)
LEMMA StoredIsBacked ==
  ASSUME OracleInv, NEW v \in Valuation, InRange(v), StoreValuation(v), UNCHANGED sourceVars
  PROVE  OracleInv'
<1>1. PICK kept : kept = IF Len(past) = HistoryCap THEN Tail(past) ELSE past
  OBVIOUS
<1>2. past \in Seq(Valuation) /\ Len(past) <= HistoryCap /\ \A i \in DOMAIN past : InRange(past[i])
  BY DEF OracleInv
<1>3. /\ kept \in Seq(Valuation) /\ Len(kept) < HistoryCap
      /\ \A i \in DOMAIN kept : InRange(kept[i])
  <2>1. CASE Len(past) = HistoryCap
    <3>1. past # <<>>
      BY <2>1, OracleConstants
    <3>2. /\ kept \in Seq(Valuation) /\ Len(kept) = Len(past) - 1
          /\ \A i \in 1 .. Len(kept) : kept[i] = past[i + 1]
      BY <1>1, <1>2, <2>1, <3>1
    <3>3. ASSUME NEW i \in DOMAIN kept PROVE InRange(kept[i])
      <4>1. i + 1 \in DOMAIN past /\ kept[i] = past[i + 1]
        BY <1>2, <3>2
      <4> QED
        BY <1>2, <4>1
    <3> QED
      BY <2>1, <3>2, <3>3, OracleConstants
  <2>2. CASE Len(past) # HistoryCap
    BY <1>1, <1>2, <2>2, OracleConstants
  <2> QED
    BY <2>1, <2>2
<1>4. past' = Append(kept, v) /\ valuation' = v
  BY <1>1 DEF StoreValuation
<1>5. /\ past' \in Seq(Valuation) /\ Len(past') = Len(kept) + 1 /\ past'[Len(kept) + 1] = v
      /\ \A i \in 1 .. Len(kept) : past'[i] = kept[i]
  BY ONLY <1>3, <1>4, v \in Valuation
<1>6. ASSUME NEW i \in DOMAIN past' PROVE InRange(past'[i])
  <2>1. i = Len(kept) + 1 \/ i \in DOMAIN kept
    BY <1>3, <1>5
  <2> QED
    BY <1>3, <1>5, <2>1
<1>7. Last(past') = v
  BY <1>5 DEF Last
<1>8. Len(past') <= HistoryCap
  BY <1>3, <1>5, OracleConstants
<1> QED
  BY <1>4, <1>5, <1>6, <1>7, <1>8 DEF OracleInv, sourceVars, InRange

LEMMA UpdateFromSourcesInv ==
  ASSUME OracleInv, NEW prices \in [Answering -> UNION {PricesOf(s) : s \in Answering}],
         \A s \in Answering : prices[s] \in PricesOf(s), UpdateFromSources(prices)
  PROVE  OracleInv'
<1>1. ASSUME NEW s \in Answering PROVE s \in Sources /\ sources[s] # None /\ prices[s] \in Nat
  <2>1. s \in Sources /\ sources[s] # None
    BY DEF Answering, OracleInv
  <2>2. PricesOf(s) \subseteq Nat
    BY OracleConstants DEF PricesOf, OracleInv, Valuation
  <2> QED
    BY <2>1, <2>2
<1>2. PICK price : price = AggregatePrices(prices)
  OBVIOUS
<1>3. PICK lo, hi, c : lo = Min(Range(prices)) /\ hi = Max(Range(prices)) /\ c = ConfidenceScore(prices)
  OBVIOUS
<1>4. price \notin {None, 0}
  BY <1>2 DEF UpdateFromSources
<1>5. Answering # {} /\ lo \in Nat /\ hi \in Nat /\ price \in lo .. hi
  <2>1. prices \in [Answering -> Nat] /\ Answering \in SUBSET Sources
    BY <1>1
  <2> QED
    BY <1>1, <1>2, <1>3, <1>4, <2>1, MarketIsBacked
<1>6. c \in 0 .. 100
  <2>1. IsFiniteSet(Answering)
    BY <1>1, OracleConstants, FS_Subset
  <2> QED
    BY <1>1, <1>3, <1>5, <2>1, ConfidenceIs
<1>7. PICK v : v = [price |-> price, confidence |-> c, method |-> "MarketData", low |-> lo, high |-> hi]
  OBVIOUS
<1>8. v \in Valuation /\ InRange(v)
  BY <1>5, <1>6, <1>7 DEF Valuation, InRange
<1>9. StoreValuation(v) /\ UNCHANGED sourceVars
  BY <1>2, <1>3, <1>7 DEF UpdateFromSources
<1> QED
  BY <1>8, <1>9, StoredIsBacked

LEMMA GivenValuationInv ==
  ASSUME OracleInv, NEW n \in GivenPrices, NEW c \in Confidences,
         UpdatePropertyValuation(n, c) \/ SubmitZkValuation(n, c)
  PROVE  OracleInv'
<1>1. PICK v \in Valuation : InRange(v) /\ StoreValuation(v) /\ UNCHANGED sourceVars
  <2>1. n \in Nat /\ c \in Nat
    BY OracleConstants
  <2>2. ASSUME NEW m \in {"Manual", "Hybrid"}
        PROVE  LET v == [price |-> n, confidence |-> c, method |-> m, low |-> n, high |-> n]
               IN  v \in Valuation /\ InRange(v)
    BY <2>1 DEF Valuation, InRange
  <2> QED
    BY <2>2 DEF UpdatePropertyValuation, SubmitZkValuation
<1> QED
  BY <1>1, StoredIsBacked

LEMMA SourcesInv ==
  ASSUME OracleInv, sources' \in [Sources -> Source \union {None}], active' \subseteq Sources,
         UNCHANGED valuationVars
  PROVE  OracleInv'
  BY DEF OracleInv, valuationVars, InRange

LEMMA OneSource ==
  ASSUME OracleInv, NEW s \in Sources,
         \/ \E c \in SourceConfigs : AddSource(s, c)
         \/ RemoveSource(s) \/ \E success \in BOOLEAN : UpdateReputation(s, success)
  PROVE  OracleInv'
<1>1. sources \in [Sources -> Source \union {None}] /\ active \subseteq Sources
  BY DEF OracleInv
<1>2. PICK c \in Source \union {None} : sources' = [sources EXCEPT ![s] = c] \/ sources' = sources
  <2>1. CASE \E c \in SourceConfigs : AddSource(s, c)
    BY <2>1, OracleConstants DEF AddSource
  <2>2. CASE RemoveSource(s)
    BY <2>2 DEF RemoveSource
  <2>3. ASSUME NEW success \in BOOLEAN, UpdateReputation(s, success)
        PROVE  \E c \in Source \union {None} : sources' = [sources EXCEPT ![s] = c] \/ sources' = sources
    <3>1. sources' = sources \/ (sources' = [sources EXCEPT ![s].active = FALSE] /\ sources[s] # None)
      BY <2>3 DEF UpdateReputation
    <3>2. CASE sources' = [sources EXCEPT ![s].active = FALSE] /\ sources[s] # None
      <4>1. sources[s] \in Source
        BY <1>1, <3>2
      <4>2. PICK c : c = [sources[s] EXCEPT !.active = FALSE]
        OBVIOUS
      <4>3. c \in Source
        BY ONLY <4>1, <4>2 DEF Source
      <4>4. sources' = [sources EXCEPT ![s] = c]
        BY <3>2, <4>2
      <4> QED
        BY <4>3, <4>4
    <3>3. CASE sources' = sources
      BY <3>3
    <3> QED
      BY <3>1, <3>2, <3>3
  <2> QED
    BY <2>1, <2>2, <2>3
<1>3. sources' \in [Sources -> Source \union {None}]
  BY <1>1, <1>2
<1>4. active' \subseteq Sources /\ UNCHANGED valuationVars
  BY <1>1 DEF AddSource, RemoveSource, UpdateReputation
<1> QED
  BY <1>3, <1>4, SourcesInv

LEMMA OracleInitInv == OracleInit => OracleInv
<1> SUFFICES ASSUME OracleInit PROVE OracleInv
  OBVIOUS
<1>1. /\ past = <<>> /\ active = {} /\ valuation = None /\ sources = [s \in Sources |-> None]
  BY DEF OracleInit
<1>2. past \in Seq(Valuation) /\ Len(past) = 0 /\ DOMAIN past = {}
  BY <1>1
<1> QED
  BY <1>1, <1>2, OracleConstants DEF OracleInv

LEMMA OracleStepInv == OracleInv /\ [OracleStep]_<<now, oracleVars>> => OracleInv'
<1> SUFFICES ASSUME OracleInv, [OracleStep]_<<now, oracleVars>> PROVE OracleInv'
  OBVIOUS
<1>1. ASSUME UNCHANGED <<sources, active, valuationVars>> PROVE OracleInv'
  BY <1>1, SourcesInv DEF OracleInv
<1>2. CASE UNCHANGED <<now, oracleVars>> \/ (Tick /\ UNCHANGED oracleVars)
  BY <1>1, <1>2 DEF oracleVars, sourceVars
<1>3. ASSUME OracleNext PROVE OracleInv'
  <2>1. ASSUME NEW prices \in [Answering -> UNION {PricesOf(s) : s \in Answering}],
               \A s \in Answering : prices[s] \in PricesOf(s), UpdateFromSources(prices)
        PROVE  OracleInv'
    BY <2>1, UpdateFromSourcesInv
  <2>2. ASSUME NEW n \in GivenPrices, NEW c \in Confidences,
               UpdatePropertyValuation(n, c) \/ SubmitZkValuation(n, c)
        PROVE  OracleInv'
    BY <2>2, GivenValuationInv
  <2>3. ASSUME RequestValuation \/ LinkAiModel \/ OracleBreakerStep PROVE OracleInv'
    BY <1>1, <2>3 DEF RequestValuation, LinkAiModel, OracleBreakerStep, sourceVars
  <2>4. ASSUME NEW s \in Sources,
               \/ \E c \in SourceConfigs : AddSource(s, c)
               \/ RemoveSource(s) \/ \E success \in BOOLEAN : UpdateReputation(s, success)
        PROVE  OracleInv'
    BY <2>4, OneSource
  <2> QED
    BY <1>3, <2>1, <2>2, <2>3, <2>4 DEF OracleNext
<1> QED
  BY <1>2, <1>3 DEF OracleStep

\* For any sources, weights, prices and thresholds of the filter: a market
\* valuation lies between the lowest and the highest price it was made of, its
\* confidence is a percentage, and the history, never longer than its cap, ends
\* with the current valuation.
THEOREM ValuationsStayBacked == OracleSpec => []ValuationsAreBacked
<1>1. OracleInv => ValuationsAreBacked
  BY DEF OracleInv, ValuationsAreBacked, InRange
<1> QED
  BY <1>1, OracleInitInv, OracleStepInv, PTL DEF OracleSpec

-----------------------------------------------------------------------------
(* ZK compliance.                                                          *)

ProofStatus == {"Pending", "Verified", "Rejected"}
ZkProof == [type : ProofTypes, key : Int, status : ProofStatus, expires : Nat]

\* The proofs with a status, by account and position.
InState(held, status) ==
  {x \in Provers \X (1 .. MaxProofs) :
     x[2] \in DOMAIN held[x[1]] /\ held[x[1]][x[2]].status = status}

\* The statistics s count the proofs held.
Tallied(s, held) ==
  /\ s.ok = Cardinality(InState(held, "Verified"))
  /\ s.failed = Cardinality(InState(held, "Rejected")) /\ s.total = s.ok + s.failed

ZkInv ==
  /\ now \in Nat /\ proofs \in [Provers -> Seq(ZkProof)]
  /\ \A p \in Provers : Len(proofs[p]) <= MaxProofs
  /\ stats \in [ok : Int, failed : Int, total : Int] /\ Tallied(stats, proofs)

LEMMA InStateFinite == ASSUME NEW held, NEW status PROVE IsFiniteSet(InState(held, status))
<1>1. IsFiniteSet(Provers \X (1 .. MaxProofs))
  <2>1. IsFiniteSet(1 .. MaxProofs)
    BY ZkAssumption, FS_Interval
  <2> QED
    BY <2>1, ZkAssumption, FS_Product
<1> QED
  BY <1>1, FS_Subset DEF InState

(* One proof gets a status that it did not have, the others keep theirs: one *)
(* more proof has that status, and one less the status it had, if it had one.*)
LEMMA OneMore ==
  ASSUME NEW held, NEW next, NEW status, NEW p \in Provers, NEW i \in 1 .. MaxProofs,
         i \in DOMAIN next[p], next[p][i].status = status,
         i \in DOMAIN held[p] => held[p][i].status # status,
         \A x \in Provers \X (1 .. MaxProofs) : x # <<p, i>> =>
            (x \in InState(next, status) <=> x \in InState(held, status))
  PROVE  Cardinality(InState(next, status)) = Cardinality(InState(held, status)) + 1
<1>1. PICK x : x = <<p, i>>
  OBVIOUS
<1>2. x \in InState(next, status) /\ x \notin InState(held, status)
  BY <1>1 DEF InState
<1>3. InState(next, status) = InState(held, status) \union {x}
  <2>1. InState(next, status) \subseteq Provers \X (1 .. MaxProofs)
        /\ InState(held, status) \subseteq Provers \X (1 .. MaxProofs)
    BY DEF InState
  <2> QED
    BY <1>1, <1>2, <2>1
<1> QED
  BY <1>2, <1>3, InStateFinite, FS_AddElement

LEMMA NoneMore ==
  ASSUME NEW held, NEW next, NEW status, NEW p \in Provers, NEW i,
         i \in DOMAIN next[p] => next[p][i].status # status,
         i \in DOMAIN held[p] => held[p][i].status # status,
         \A x \in Provers \X (1 .. MaxProofs) : x # <<p, i>> =>
            (x \in InState(next, status) <=> x \in InState(held, status))
  PROVE  InState(next, status) = InState(held, status)
<1>1. <<p, i>> \notin InState(next, status) /\ <<p, i>> \notin InState(held, status)
  BY DEF InState
<1>2. /\ InState(next, status) \subseteq Provers \X (1 .. MaxProofs)
      /\ InState(held, status) \subseteq Provers \X (1 .. MaxProofs)
  BY DEF InState
<1> QED
  BY <1>1, <1>2


(* A new proof, or a verdict on one that was pending, is the only change.    *)
Changed(held, next, p, i) ==
  /\ p \in Provers /\ i \in 1 .. MaxProofs
  /\ DOMAIN next[p] = DOMAIN held[p] \union {i}
  /\ i \in DOMAIN held[p] => held[p][i].status = "Pending"
  /\ \A k \in DOMAIN next[p] \ {i} : next[p][k] = held[p][k]
  /\ \A r \in Provers \ {p} : next[r] = held[r]

LEMMA OthersStay ==
  ASSUME NEW held, NEW next, NEW p, NEW i, Changed(held, next, p, i), NEW status,
         NEW x \in Provers \X (1 .. MaxProofs), x # <<p, i>>
  PROVE  x \in InState(next, status) <=> x \in InState(held, status)
<1>1. PICK r \in Provers, k \in 1 .. MaxProofs : x = <<r, k>> /\ x[1] = r /\ x[2] = k
  OBVIOUS
<1>2. k \in DOMAIN next[r] <=> k \in DOMAIN held[r]
  BY <1>1 DEF Changed
<1>3. k \in DOMAIN next[r] => next[r][k] = held[r][k]
  BY <1>1 DEF Changed
<1> QED
  BY <1>1, <1>2, <1>3 DEF InState

\* What the statistics s become with one more proof of the status given.
Recounted(s, t, status) ==
  /\ t.ok = s.ok + (IF status = "Verified" THEN 1 ELSE 0)
  /\ t.failed = s.failed + (IF status = "Rejected" THEN 1 ELSE 0)
  /\ t.total = s.total + (IF status = "Pending" THEN 0 ELSE 1)

LEMMA TallyKept ==
  ASSUME NEW held, NEW next, NEW p, NEW i, Changed(held, next, p, i),
         NEW s \in [ok : Int, failed : Int, total : Int], Tallied(s, held),
         NEW t, Recounted(s, t, next[p][i].status), next[p][i].status \in ProofStatus
  PROVE  Tallied(t, next)
<1>1. p \in Provers /\ i \in 1 .. MaxProofs /\ i \in DOMAIN next[p]
      /\ (i \in DOMAIN held[p] => held[p][i].status = "Pending")
  BY DEF Changed
<1>2. ASSUME NEW status \in {"Verified", "Rejected"}
      PROVE  Cardinality(InState(next, status))
               = Cardinality(InState(held, status)) + (IF next[p][i].status = status THEN 1 ELSE 0)
  <2>1. \A x \in Provers \X (1 .. MaxProofs) : x # <<p, i>> =>
           (x \in InState(next, status) <=> x \in InState(held, status))
    BY OthersStay
  <2>2. i \in DOMAIN held[p] => held[p][i].status # status
    BY <1>1
  <2>3. Cardinality(InState(held, status)) \in Nat
    BY InStateFinite, FS_CardinalityType
  <2>4. CASE next[p][i].status = status
    <3>1. Cardinality(InState(next, status)) = Cardinality(InState(held, status)) + 1
      BY ONLY <1>1, <2>1, <2>2, <2>4, OneMore
    <3> QED
      BY <2>4, <3>1
  <2>5. CASE next[p][i].status # status
    <3>1. InState(next, status) = InState(held, status)
      BY ONLY <1>1, <2>1, <2>2, <2>5, NoneMore
    <3> QED
      BY <2>3, <2>5, <3>1
  <2> QED
    BY <2>4, <2>5
<1>3. PICK ok \in Int, failed \in Int : ok = s.ok /\ failed = s.failed /\ s.total = ok + failed
  BY DEF Tallied
<1>4. /\ Cardinality(InState(next, "Verified"))
           = ok + (IF next[p][i].status = "Verified" THEN 1 ELSE 0)
      /\ Cardinality(InState(next, "Rejected"))
           = failed + (IF next[p][i].status = "Rejected" THEN 1 ELSE 0)
  BY <1>2, <1>3 DEF Tallied
<1> QED
  BY <1>3, <1>4 DEF Tallied, Recounted, ProofStatus


LEMMA AddProofInv ==
  ASSUME ZkInv, NEW p \in Provers, Len(proofs[p]) < MaxProofs, NEW q \in ZkProof,
         proofs' = [proofs EXCEPT ![p] = Append(@, q)], now' = now,
         stats' \in [ok : Int, failed : Int, total : Int], Recounted(stats, stats', q.status)
  PROVE  ZkInv'
<1>1. PICK old, new, i : old = proofs[p] /\ new = Append(old, q) /\ i = Len(old) + 1
  OBVIOUS
<1>2. proofs \in [Provers -> Seq(ZkProof)] /\ old \in Seq(ZkProof) /\ MaxProofs \in Nat
  BY <1>1, ZkAssumption DEF ZkInv
<1>3. /\ new \in Seq(ZkProof) /\ Len(new) = i /\ new[i] = q /\ i \in Nat
      /\ DOMAIN new = 1 .. i /\ DOMAIN old = 1 .. i - 1 /\ \A k \in DOMAIN old : new[k] = old[k]
  BY ONLY <1>1, <1>2, q \in ZkProof
<1>4. i \in 1 .. MaxProofs
  BY <1>1, <1>2, <1>3
<1>5. proofs' = [proofs EXCEPT ![p] = new]
  BY <1>1
<1>6. /\ proofs' \in [Provers -> Seq(ZkProof)] /\ proofs'[p] = new
      /\ \A r \in Provers \ {p} : proofs'[r] = proofs[r]
  BY ONLY <1>2, <1>3, <1>5, p \in Provers
<1>7. Changed(proofs, proofs', p, i)
  <2>1. DOMAIN new = DOMAIN old \union {i} /\ i \notin DOMAIN old
    <3>1. i \in 1 .. i /\ i \notin 1 .. i - 1 /\ 1 .. i = (1 .. i - 1) \union {i}
      BY ONLY <1>4, i \in Nat
    <3> QED
      BY ONLY <1>3, <3>1
  <2>2. \A k \in DOMAIN new \ {i} : new[k] = old[k]
    BY ONLY <1>3, <2>1
  <2> QED
    BY <1>1, <1>4, <1>6, <2>1, <2>2 DEF Changed
<1>8. \A r \in Provers : Len(proofs'[r]) <= MaxProofs
  BY <1>3, <1>4, <1>6 DEF ZkInv
<1>9. Tallied(stats', proofs')
  <2>1. q.status \in ProofStatus
    BY DEF ZkProof
  <2>2. stats \in [ok : Int, failed : Int, total : Int] /\ Tallied(stats, proofs)
    BY DEF ZkInv
  <2>3. Recounted(stats, stats', proofs'[p][i].status) /\ proofs'[p][i].status \in ProofStatus
    BY <1>3, <1>6, <2>1
  <2> QED
    BY ONLY <1>7, <2>2, <2>3, TallyKept
<1> QED
  BY <1>6, <1>8, <1>9 DEF ZkInv

LEMMA SubmitInv ==
  ASSUME ZkInv, NEW p \in Provers, NEW t \in ProofTypes, NEW version \in Int,
         Len(proofs[p]) < MaxProofs, SubmitZkProof(p, t, version) \/ SelfVerify(p, t, version),
         UNCHANGED now
  PROVE  ZkInv'
<1>1. now + ProofValidity \in Nat
  BY ZkAssumption DEF ZkInv
<1>2. CASE SubmitZkProof(p, t, version)
  <2>1. PICK q : q = NewProof(t, version, "Pending")
    OBVIOUS
  <2>2. q \in ZkProof /\ q.status = "Pending"
    BY <1>1, <2>1 DEF NewProof, ZkProof, ProofStatus
  <2>3. proofs' = [proofs EXCEPT ![p] = Append(@, q)] /\ stats' = stats
    BY <1>2, <2>1 DEF SubmitZkProof
  <2>4. Recounted(stats, stats', q.status) /\ stats' \in [ok : Int, failed : Int, total : Int]
    BY <2>2, <2>3 DEF Recounted, ZkInv
  <2> QED
    BY <2>2, <2>3, <2>4, AddProofInv
<1>3. CASE SelfVerify(p, t, version)
  <2>1. PICK q : q = NewProof(t, version, "Verified")
    OBVIOUS
  <2>2. q \in ZkProof /\ q.status = "Verified"
    BY <1>1, <2>1 DEF NewProof, ZkProof, ProofStatus
  <2>3. proofs' = [proofs EXCEPT ![p] = Append(@, q)] /\ Count(TRUE)
    BY <1>3, <2>1 DEF SelfVerify
  <2>4. Recounted(stats, stats', q.status) /\ stats' \in [ok : Int, failed : Int, total : Int]
    BY <2>2, <2>3 DEF Recounted, Count, ZkInv
  <2> QED
    BY <2>2, <2>3, <2>4, AddProofInv
<1> QED
  BY <1>2, <1>3

(* A verdict on a pending proof gives it a status and nothing else.          *)
LEMMA VerdictIs ==
  ASSUME ZkInv, NEW by, NEW p \in Provers, NEW id \in DOMAIN proofs[p], NEW approve \in BOOLEAN,
         VerifyZkProof(by, p, id, approve)
  PROVE  /\ proofs' \in [Provers -> Seq(ZkProof)] /\ Len(proofs'[p]) = Len(proofs[p])
         /\ Changed(proofs, proofs', p, id) /\ proofs[p][id].status = "Pending"
         /\ proofs'[p][id].status \in {"Verified", "Rejected"}
         /\ Count(proofs'[p][id].status = "Verified")
         /\ \A k \in DOMAIN proofs[p] : proofs'[p][k].type = proofs[p][k].type
<1>1. PICK old, q, ok : old = proofs[p] /\ q = old[id] /\ ok = (approve /\ Verifies(q.type, q.key))
  OBVIOUS
<1>2. PICK e : e = IF ok THEN "Verified" ELSE "Rejected"
  OBVIOUS
<1>3. PICK r : r = [q EXCEPT !.status = e]
  OBVIOUS
<1>4. PICK new : new = [old EXCEPT ![id] = r]
  OBVIOUS
<1>5. /\ proofs' = [proofs EXCEPT ![p][id].status = e] /\ q.status = "Pending" /\ Count(ok)
  BY ONLY <1>1, <1>2, VerifyZkProof(by, p, id, approve) DEF VerifyZkProof
<1>6. proofs' = [proofs EXCEPT ![p] = new]
  BY ONLY <1>1, <1>3, <1>4, <1>5
<1>7. /\ proofs \in [Provers -> Seq(ZkProof)] /\ old \in Seq(ZkProof) /\ id \in DOMAIN old
      /\ Len(old) <= MaxProofs /\ MaxProofs \in Nat
  BY <1>1, ZkAssumption DEF ZkInv
<1>8. q \in ZkProof
  BY ONLY <1>1, <1>7
<1>9. r \in ZkProof /\ r.status = e /\ r.type = q.type
  BY ONLY <1>2, <1>3, <1>8 DEF ZkProof, ProofStatus
<1>10. /\ new \in Seq(ZkProof) /\ Len(new) = Len(old) /\ DOMAIN new = DOMAIN old
       /\ new[id] = r /\ \A k \in DOMAIN old \ {id} : new[k] = old[k]
  BY ONLY <1>4, <1>7, <1>9, SeqUpdate
<1>11. /\ proofs' \in [Provers -> Seq(ZkProof)] /\ proofs'[p] = new
       /\ \A s \in Provers \ {p} : proofs'[s] = proofs[s]
  BY ONLY <1>6, <1>7, <1>10, p \in Provers
<1>12. id \in 1 .. MaxProofs
  BY ONLY <1>7
<1>13. Changed(proofs, proofs', p, id)
  BY <1>1, <1>5, <1>10, <1>11, <1>12 DEF Changed
<1>14. (e = "Verified") = ok
  BY <1>1, <1>2
<1>15. \A k \in DOMAIN proofs[p] : proofs'[p][k].type = proofs[p][k].type
  BY <1>1, <1>9, <1>10, <1>11
<1> QED
  BY <1>1, <1>2, <1>5, <1>9, <1>10, <1>11, <1>13, <1>14, <1>15

LEMMA VerdictInv ==
  ASSUME ZkInv, NEW by, NEW p \in Provers, NEW id \in DOMAIN proofs[p], NEW approve \in BOOLEAN,
         VerifyZkProof(by, p, id, approve), UNCHANGED now
  PROVE  ZkInv'
<1>1. PICK e : e = proofs'[p][id].status
  OBVIOUS
<1>2. /\ e \in {"Verified", "Rejected"} /\ Count(e = "Verified")
      /\ Changed(proofs, proofs', p, id) /\ proofs' \in [Provers -> Seq(ZkProof)]
      /\ Len(proofs'[p]) = Len(proofs[p])
  BY <1>1, VerdictIs
<1>3. Recounted(stats, stats', e) /\ stats' \in [ok : Int, failed : Int, total : Int]
  BY <1>2 DEF Recounted, Count, ZkInv
<1>4. Tallied(stats', proofs')
  BY <1>1, <1>2, <1>3, TallyKept DEF ZkInv, ProofStatus
<1>5. \A r \in Provers : Len(proofs'[r]) <= MaxProofs
  BY <1>2 DEF ZkInv, Changed
<1> QED
  BY <1>2, <1>3, <1>4, <1>5 DEF ZkInv


LEMMA ZkInitInv == now = 0 /\ ZkInit => ZkInv
<1> SUFFICES ASSUME now = 0, ZkInit PROVE ZkInv
  OBVIOUS
<1>1. /\ proofs = [p \in Provers |-> <<>>] /\ stats = [ok |-> 0, failed |-> 0, total |-> 0]
      /\ MaxProofs \in Nat
  BY ZkAssumption DEF ZkInit
<1>2. \A p \in Provers : proofs[p] = <<>> /\ DOMAIN proofs[p] = {} /\ Len(proofs[p]) = 0
  BY <1>1
<1>3. ASSUME NEW status PROVE Cardinality(InState(proofs, status)) = 0
  <2>1. InState(proofs, status) = {}
    BY <1>2 DEF InState
  <2> QED
    BY <2>1, FS_EmptySet
<1> QED
  BY <1>1, <1>2, <1>3 DEF ZkInv, Tallied

LEMMA ZkStepInv == ZkInv /\ [ZkStep]_<<now, zkVars>> => ZkInv'
<1> SUFFICES ASSUME ZkInv, [ZkStep]_<<now, zkVars>> PROVE ZkInv'
  OBVIOUS
<1>1. ASSUME UNCHANGED <<proofs, stats>>, now' \in Nat PROVE ZkInv'
  BY <1>1 DEF ZkInv
<1>2. now \in Nat /\ (Tick => now' \in Nat)
  BY DEF ZkInv, Tick
<1>3. CASE UNCHANGED zkVars /\ (Tick \/ UNCHANGED now)
  BY <1>1, <1>2, <1>3 DEF zkVars
<1>4. ASSUME ZkNext, UNCHANGED now PROVE ZkInv'
  <2>1. ASSUME NEW p \in Provers, Len(proofs[p]) < MaxProofs, NEW t \in ProofTypes,
               NEW version \in 1 .. MaxKeys, SubmitZkProof(p, t, version) \/ SelfVerify(p, t, version)
        PROVE  ZkInv'
    <3>1. version \in Int
      OBVIOUS
    <3> QED
      BY <1>4, <2>1, <3>1, SubmitInv
  <2>2. ASSUME NEW p \in Provers, NEW by \in Reviewers, NEW id \in DOMAIN proofs[p],
               NEW approve \in BOOLEAN, VerifyZkProof(by, p, id, approve)
        PROVE  ZkInv'
    BY <1>4, <2>2, VerdictInv
  <2>3. ASSUME \/ \E p \in Provers, level \in PrivacyLevels : SetPrivacy(p, level)
               \/ \E t \in ProofTypes : SetVerificationKey(t) \/ DeactivateVerificationKey(t)
               \/ \E by \in Reviewers : AddApprovedVerifier(by) \/ RemoveApprovedVerifier(by)
        PROVE  ZkInv'
    <3>1. UNCHANGED <<proofs, stats>>
      BY <2>3 DEF SetPrivacy, SetVerificationKey, DeactivateVerificationKey, AddApprovedVerifier,
                  RemoveApprovedVerifier
    <3> QED
      BY <1>1, <1>2, <1>4, <3>1
  <2> QED
    BY <1>4, <2>1, <2>2, <2>3 DEF ZkNext
<1> QED
  BY <1>3, <1>4 DEF ZkStep

(* What is valid depends on the proofs of the account and the time only.     *)
LEMMA SameProofs ==
  ASSUME NEW p, NEW t, proofs'[p] = proofs[p], now' = now
  PROVE  ProofValid(p, t)' <=> ProofValid(p, t)
  BY DEF ProofValid, SelectLastInSeq

(* A verdict leaves what is valid valid: it is about another proof, and the  *)
(* newest one of the type stays the newest.                                  *)
LEMMA VerdictStands ==
  ASSUME ZkInv, NEW by, NEW p \in Provers, NEW id \in DOMAIN proofs[p], NEW approve \in BOOLEAN,
         VerifyZkProof(by, p, id, approve), UNCHANGED now, NEW t, ProofValid(p, t)
  PROVE  ProofValid(p, t)'
<1>1. PICK old, new : old = proofs[p] /\ new = proofs'[p]
  OBVIOUS
<1>2. PICK I, n : I = {i \in 1 .. Len(old) : old[i].type = t} /\ n = IF I # {} THEN Max(I) ELSE 0
  OBVIOUS
<1>3. n > 0 /\ old[n].status = "Verified" /\ old[n].expires > now
  BY <1>1, <1>2 DEF ProofValid, SelectLastInSeq
<1>4. /\ Len(new) = Len(old) /\ new \in Seq(ZkProof)
      /\ \A k \in DOMAIN old : new[k].type = old[k].type
      /\ Changed(proofs, proofs', p, id) /\ old[id].status = "Pending"
  <2>1. /\ proofs' \in [Provers -> Seq(ZkProof)] /\ Len(proofs'[p]) = Len(proofs[p])
        /\ Changed(proofs, proofs', p, id) /\ proofs[p][id].status = "Pending"
        /\ \A k \in DOMAIN proofs[p] : proofs'[p][k].type = proofs[p][k].type
    BY ONLY ZkInv, p \in Provers, id \in DOMAIN proofs[p], approve \in BOOLEAN,
            VerifyZkProof(by, p, id, approve), VerdictIs
  <2> QED
    BY ONLY <1>1, <2>1, p \in Provers
<1>5. old \in Seq(ZkProof) /\ id \in DOMAIN old
  BY <1>1 DEF ZkInv
<1>6. I = {i \in 1 .. Len(new) : new[i].type = t}
  BY ONLY <1>2, <1>4, <1>5
<1>7. n \in DOMAIN old
  <2>1. I \in SUBSET Nat /\ IsFiniteSet(I) /\ I \subseteq DOMAIN old
    <3>1. Len(old) \in Nat /\ DOMAIN old = 1 .. Len(old) /\ I \subseteq 1 .. Len(old)
      BY ONLY <1>2, <1>5
    <3>2. IsFiniteSet(1 .. Len(old))
      BY ONLY <3>1, FS_Interval
    <3>3. I \in SUBSET Nat /\ I \subseteq DOMAIN old
      BY ONLY <3>1
    <3>4. IsFiniteSet(I)
      BY ONLY <3>1, <3>2, FS_Subset
    <3> QED
      BY ONLY <3>3, <3>4
  <2>2. I # {} /\ n = Max(I)
    BY <1>2, <1>3
  <2> QED
    BY ONLY <2>1, <2>2, MinMaxOf
<1>8. new[n] = old[n]
  <2>1. n # id
    BY <1>3, <1>4
  <2>2. \A k \in DOMAIN new \ {id} : new[k] = old[k]
    BY <1>1, <1>4 DEF Changed
  <2>3. DOMAIN new = DOMAIN old
    BY ONLY <1>4, <1>5
  <2> QED
    BY ONLY <1>7, <2>1, <2>2, <2>3
<1>9. I = {i \in 1 .. Len(proofs'[p]) : proofs'[p][i].type = t} /\ proofs'[p][n] = old[n]
  BY <1>1, <1>6, <1>8
<1> QED
  BY ONLY <1>2, <1>3, <1>9, UNCHANGED now DEF ProofValid, SelectLastInSeq

\* For any accounts, proof types and bounds: a valid proof stays valid until it
\* expires or its holder sends a newer one, whatever verdicts are given on others,
\* keys rotated and verifiers removed, and the statistics count every proof once.
THEOREM VerdictsAreKept == ZkSpec => VerdictsStand
<1>1. ZkInv => StatsMatchProofs
  BY DEF ZkInv, Tallied, StatsMatchProofs, InState
<1>2. ASSUME ZkInv, ZkStep, NEW p \in Provers, NEW t \in ProofTypes, ProofValid(p, t),
             ~ProofValid(p, t)'
      PROVE  now' > now \/ Len(proofs'[p]) > Len(proofs[p])
  <2>1. CASE Tick
    BY <1>2, <2>1 DEF Tick, ZkInv
  <2>2. CASE proofs'[p] = proofs[p] /\ UNCHANGED now
    BY <1>2, <2>2, SameProofs
  <2>3. ASSUME NEW r \in Provers, NEW u \in ProofTypes, NEW version,
               SubmitZkProof(r, u, version) \/ SelfVerify(r, u, version), UNCHANGED now
        PROVE  now' > now \/ Len(proofs'[p]) > Len(proofs[p])
    <3>1. proofs \in [Provers -> Seq(ZkProof)] /\ proofs[p] \in Seq(ZkProof)
      BY <1>2 DEF ZkInv
    <3>2. PICK q : proofs' = [proofs EXCEPT ![r] = Append(@, q)]
      BY <2>3 DEF SubmitZkProof, SelfVerify
    <3>3. CASE r # p
      BY <2>2, <2>3, <3>1, <3>2, <3>3
    <3>4. CASE r = p
      <4>1. proofs'[p] = Append(proofs[p], q)
        BY ONLY <3>1, <3>2, <3>4, p \in Provers
      <4>2. Len(proofs'[p]) = Len(proofs[p]) + 1 /\ Len(proofs[p]) \in Nat
        BY ONLY <3>1, <4>1
      <4> QED
        BY ONLY <4>2
    <3> QED
      BY <3>3, <3>4
  <2>4. ASSUME NEW r \in Provers, NEW by, NEW id \in DOMAIN proofs[r], NEW approve \in BOOLEAN,
               VerifyZkProof(by, r, id, approve), UNCHANGED now
        PROVE  now' > now \/ Len(proofs'[p]) > Len(proofs[p])
    <3>1. CASE r = p
      BY <1>2, <2>4, <3>1, VerdictStands
    <3>2. CASE r # p
      <4>1. Changed(proofs, proofs', r, id)
        BY <1>2, <2>4, VerdictIs
      <4> QED
        BY <2>2, <2>4, <3>2, <4>1 DEF Changed
    <3> QED
      BY <3>1, <3>2
  <2>5. ASSUME UNCHANGED now,
               \/ \E r \in Provers, level \in PrivacyLevels : SetPrivacy(r, level)
               \/ \E u \in ProofTypes : SetVerificationKey(u) \/ DeactivateVerificationKey(u)
               \/ \E by \in Reviewers : AddApprovedVerifier(by) \/ RemoveApprovedVerifier(by)
        PROVE  now' > now \/ Len(proofs'[p]) > Len(proofs[p])
    <3>1. UNCHANGED proofs
      BY <2>5 DEF SetPrivacy, SetVerificationKey, DeactivateVerificationKey, AddApprovedVerifier,
                  RemoveApprovedVerifier
    <3> QED
      BY <2>2, <2>5, <3>1
  <2>6. CASE ZkNext /\ UNCHANGED now
    BY <2>3, <2>4, <2>5, <2>6 DEF ZkNext
  <2> QED
    BY <1>2, <2>1, <2>6 DEF ZkStep
<1>3. ZkInv /\ ZkInv' /\ [ZkStep]_<<now, zkVars>> =>
        [/\ StatsMatchProofs'
         /\ \A p \in Provers, t \in ProofTypes :
              ProofValid(p, t) /\ ~ProofValid(p, t)' =>
                now' > now \/ Len(proofs'[p]) > Len(proofs[p])]_<<now, zkVars>>
  <2>1. ZkInv' => StatsMatchProofs'
    BY <1>1, PTL
  <2> QED
    BY <1>2, <2>1
<1> QED
  BY <1>3, ZkInitInv, ZkStepInv, PTL DEF ZkSpec, VerdictsStand

-----------------------------------------------------------------------------
(* The valuation engine.                                                   *)

Model == [accuracy : Nat, weight : Nat, active : BOOLEAN]
PredictionRecord ==
  [value : Int, low : Int, high : Int, confidence : Nat, bias : Int, fairness : Int,
   proved : BOOLEAN]

\* Of a prediction, given which features are cached and which models committed.
Reproducible(q, h, cached, committed) ==
  IF q.proved THEN \E m \in Models : committed[m] > 0
  ELSE /\ h \in cached /\ q.value = PredictedValue(Features(h))
       /\ q.confidence \in MinConfidence .. 10000
       /\ q.fairness = 10000 - Bias(Features(h)) /\ q.bias <= BiasThreshold
       /\ q.value \in q.low .. q.high

EngineInv ==
  /\ models \in [Models -> Model \union {None}] /\ commitments \in [Models -> Nat]
  /\ predictions \in [Homes -> Seq(PredictionRecord)]
  /\ \A h \in Homes : \A i \in DOMAIN predictions[h] :
       Reproducible(predictions[h][i], h, featured, commitments)

LEMMA EngineConstants ==
  /\ Homes \subseteq Nat /\ MinConfidence \in Nat /\ ProvedValues \subseteq Nat
  /\ ModelConfigs \subseteq Model /\ Ensemble \subseteq Models /\ IsFiniteSet(Ensemble)
  BY EngineAssumption DEF Model

(* What a property id gives.                                                 *)
FeatureRecord ==
  [location : Nat, size : Nat, condition : Nat, amenities : Nat, trend : Int,
   comparable : Nat, economic : Nat]

LEMMA Remains ==
  ASSUME NEW n \in Nat, NEW k \in Nat, k > 0
  PROVE  n % k \in Nat /\ n % k < k
<1>1. n % k \in 0 .. k - 1
  OBVIOUS
<1> QED
  BY <1>1

LEMMA FeaturesAre ==
  ASSUME NEW h \in Nat
  PROVE  Features(h) \in FeatureRecord /\ Features(h).trend >= -100
<1>1. PICK b \in Nat : b = h % 1000
  BY Remains
<1>2. /\ b % 500 \in Nat /\ b % 40 \in Nat /\ b % 50 \in Nat /\ b % 200 \in Nat /\ b % 60 \in Nat
      /\ h % 300 \in Nat
  BY Remains
<1> QED
  BY <1>1, <1>2 DEF Features, FeatureRecord

LEMMA ValueIs ==
  ASSUME NEW f \in FeatureRecord, f.trend >= -100
  PROVE  PredictedValue(f) \in Nat
<1>1. PICK g \in Nat, l \in Nat, s \in Nat, c \in Nat, t \in Int :
        g = f.comparable /\ l = f.location /\ s = f.size /\ c = f.condition /\ t = f.trend
  BY DEF FeatureRecord
<1>2. (l * g) \div 1000000 \in Nat /\ (c * g) \div 10000 \in Nat
  <2>1. l * g \in Nat /\ c * g \in Nat
    OBVIOUS
  <2> QED
    BY <2>1, RoundsDown
<1>3. PICK m \in Nat : m = IF t >= 0 THEN (t * g) \div 10000
                           ELSE g - (-t * g) \div 10000
  <2>1. CASE t >= 0
    <3>1. t * g \in Nat
      BY <2>1
    <3> QED
      BY <2>1, <3>1, RoundsDown
  <2>2. CASE t < 0
    <3>1. PICK u \in Nat : u = -t /\ u <= 100
      BY <1>1, <2>2
    <3>2. PICK p \in Nat : p = u * g /\ p <= 100 * g
      BY <3>1
    <3>3. p \div 10000 \in Nat /\ (p \div 10000) * 10000 <= p
      BY RoundsDown
    <3>4. p \div 10000 <= g
      BY <3>2, <3>3
    <3> QED
      BY <2>2, <3>1, <3>2, <3>3, <3>4
  <2> QED
    BY <2>1, <2>2
<1>4. PredictedValue(f) = g + (l * g) \div 1000000 + s * 1000 + (c * g) \div 10000 + m
  BY <1>1, <1>3 DEF PredictedValue
<1> QED
  BY <1>2, <1>3, <1>4

LEMMA ConfidenceOf ==
  ASSUME NEW model \in Model, NEW f \in FeatureRecord
  PROVE  Confidence(model, f) \in Nat /\ Confidence(model, f) <= 10000
<1>1. PICK a \in Nat, s \in Nat :
        a = model.accuracy /\ s = f.location + f.condition + f.amenities + f.economic
  BY DEF Model, FeatureRecord
<1>2. PICK q \in Nat : q = s \div 4
  BY RoundsDown
<1>3. a * q \in Nat
  OBVIOUS
<1>4. (a * q) \div 100 \in Nat
  BY <1>3, RoundsDown
<1> QED
  BY <1>1, <1>2, <1>4 DEF Confidence

(* A weighted mean of one value is the value.                                *)
LEMMA MeanOfOne ==
  ASSUME NEW v \in Nat, NEW w \in Nat, w > 0
  PROVE  (v * w) \div w = v
<1>1. v * w \in Nat
  OBVIOUS
<1>2. PICK d \in Nat : d = (v * w) \div w /\ d * w <= v * w /\ v * w < d * w + w
  BY <1>1, RoundsDown
<1>3. ~(d + 1 <= v)
  <2> SUFFICES ASSUME d + 1 <= v PROVE FALSE
    OBVIOUS
  <2>1. (d + 1) * w <= v * w
    OBVIOUS
  <2>2. (d + 1) * w = d * w + w /\ d * w \in Int
    OBVIOUS
  <2> QED
    BY <1>1, <1>2, <2>1, <2>2
<1>4. ~(v + 1 <= d)
  <2> SUFFICES ASSUME v + 1 <= d PROVE FALSE
    OBVIOUS
  <2>1. (v + 1) * w <= d * w
    OBVIOUS
  <2>2. (v + 1) * w = v * w + w /\ d * w \in Int
    OBVIOUS
  <2> QED
    BY <1>1, <1>2, <2>1, <2>2
<1> QED
  BY <1>2, <1>3, <1>4

LEMMA EnsembleAgrees ==
  ASSUME EngineInv, NEW h \in Homes, Members(h) # {}
  PROVE  EnsembleValue(h) = PredictedValue(Features(h))
<1>1. PICK v \in Nat : v = PredictedValue(Features(h))
  BY EngineConstants, FeaturesAre, ValueIs
<1>2. PICK S : S = Members(h)
  OBVIOUS
<1>3. IsFiniteSet(S) /\ \A m \in S : models[m] \in Model
  <2>1. S \subseteq Ensemble /\ \A m \in S : models[m] # None
    BY <1>2 DEF Members, IsActive
  <2> QED
    BY <2>1, EngineConstants, FS_Subset DEF EngineInv
<1>4. PICK w, q : w = [m \in S |-> models[m].weight] /\ q = [m \in S |-> v * models[m].weight]
  OBVIOUS
<1>5. ASSUME NEW m \in S PROVE w[m] \in Nat /\ w[m] \in Int /\ q[m] = v * w[m]
  BY <1>3, <1>4 DEF Model
<1>6. PICK W \in Nat : W = SumFunctionOnSet(w, S)
  BY <1>3, <1>5, SumNonNegative
<1>7. SumFunctionOnSet(q, S) = v * W
  <2>1. \A m \in S : w[m] \in Int /\ q[m] = v * w[m]
    BY <1>5
  <2>2. v \in Int
    OBVIOUS
  <2> QED
    BY <1>3, <1>6, <2>1, <2>2, SumScaled
<1>8. PICK n \in Nat : n = Cardinality(S) /\ n > 0
  <2>1. Cardinality(S) \in Nat /\ Cardinality(S) # 0
    BY <1>2, <1>3, FS_CardinalityType, FS_EmptySet
  <2> QED
    BY <2>1
<1>9. EnsembleValue(h) = IF W > 0 THEN (v * W) \div W ELSE (v * n) \div n
  BY <1>1, <1>2, <1>4, <1>6, <1>7, <1>8 DEF EnsembleValue
<1> QED
  BY <1>1, <1>8, <1>9, MeanOfOne

(* What happens beside the predictions leaves them reproducible.             *)
LEMMA EngineGrows ==
  ASSUME EngineInv, models' \in [Models -> Model \union {None}], commitments' \in [Models -> Nat],
         featured \subseteq featured', \A m \in Models : commitments[m] <= commitments'[m],
         predictions' = predictions
  PROVE  EngineInv'
<1>1. ASSUME NEW h \in Homes, NEW i \in DOMAIN predictions[h]
      PROVE  Reproducible(predictions[h][i], h, featured', commitments')
  <2>1. Reproducible(predictions[h][i], h, featured, commitments)
    BY DEF EngineInv
  <2>2. \A m \in Models : commitments[m] \in Nat /\ commitments'[m] \in Nat
    BY DEF EngineInv
  <2> QED
    BY <2>1, <2>2 DEF Reproducible
<1> QED
  BY <1>1 DEF EngineInv

(* A prediction joins those of a property.                                   *)
LEMMA EnginePredicts ==
  ASSUME EngineInv, NEW h \in Homes, NEW q \in PredictionRecord,
         Reproducible(q, h, featured', commitments),
         predictions' = [predictions EXCEPT ![h] = Append(@, q)],
         featured \subseteq featured', UNCHANGED <<models, commitments>>
  PROVE  EngineInv'
<1>1. PICK old, new : old = predictions[h] /\ new = Append(old, q)
  OBVIOUS
<1>2. old \in Seq(PredictionRecord)
  BY <1>1 DEF EngineInv
<1>3. /\ new \in Seq(PredictionRecord) /\ Len(new) = Len(old) + 1 /\ new[Len(old) + 1] = q
      /\ \A i \in 1 .. Len(old) : new[i] = old[i]
  BY ONLY <1>1, <1>2, q \in PredictionRecord
<1>4. predictions' = [predictions EXCEPT ![h] = new]
  BY <1>1
<1>5. predictions' \in [Homes -> Seq(PredictionRecord)] /\ predictions'[h] = new
      /\ \A g \in Homes \ {h} : predictions'[g] = predictions[g]
  BY <1>3, <1>4 DEF EngineInv
<1>6. ASSUME NEW g \in Homes, NEW i \in DOMAIN predictions'[g]
      PROVE  Reproducible(predictions'[g][i], g, featured', commitments)
  <2>1. CASE g = h /\ i = Len(old) + 1
    BY <1>3, <1>5, <2>1
  <2>2. CASE g # h \/ i # Len(old) + 1
    <3>1. i \in DOMAIN predictions[g] /\ predictions'[g][i] = predictions[g][i]
      <4>1. CASE g # h
        BY <1>5, <4>1
      <4>2. CASE g = h
        BY <1>1, <1>2, <1>3, <1>5, <2>2, <4>2
      <4> QED
        BY <4>1, <4>2
    <3>2. Reproducible(predictions[g][i], g, featured, commitments)
      BY <3>1 DEF EngineInv
    <3> QED
      BY <3>1, <3>2 DEF Reproducible
  <2> QED
    BY <2>1, <2>2
<1> QED
  BY <1>5, <1>6 DEF EngineInv

LEMMA PredictValuationInv ==
  ASSUME EngineInv, NEW h \in Homes, NEW m \in Models, PredictValuation(h, m)
  PROVE  EngineInv'
<1>1. PICK v \in Nat : v = PredictedValue(Features(h))
  BY EngineConstants, FeaturesAre, ValueIs
<1>2. models[m] \in Model
  BY DEF PredictValuation, IsActive, EngineInv
<1>3. PICK c \in Nat : c = Confidence(models[m], Features(h)) /\ c <= 10000
  BY <1>2, EngineConstants, FeaturesAre, ConfidenceOf
<1>4. PICK b \in Int : b = Bias(Features(h))
  BY DEF Bias
<1>5. PICK d \in Nat : d = v \div 10
  BY RoundsDown
<1>6. PICK lo \in Int, hi \in Int, f \in Int : lo = v - d /\ hi = v + d /\ f = 10000 - b
  BY ONLY v \in Nat, d \in Nat, b \in Int
<1>7. PICK q : q = [value |-> v, low |-> lo, high |-> hi, confidence |-> c, bias |-> b,
                    fairness |-> f, proved |-> FALSE]
  BY ONLY TRUE
<1>8. q \in PredictionRecord
  BY ONLY <1>7, v \in Nat, lo \in Int, hi \in Int, c \in Nat, b \in Int, f \in Int
     DEF PredictionRecord
<1>9. q.value = v /\ q.low = lo /\ q.high = hi /\ q.confidence = c /\ q.bias = b
      /\ q.fairness = f /\ ~q.proved
  BY ONLY <1>7
<1>10. q = GeneratePrediction(m, h)
  BY ONLY <1>1, <1>3, <1>4, <1>5, <1>6, <1>7 DEF GeneratePrediction, Prediction
<1>11. /\ MinConfidence <= q.confidence /\ q.bias <= BiasThreshold
       /\ featured' = featured \union {h} /\ UNCHANGED <<models, commitments>>
       /\ predictions' = [predictions EXCEPT ![h] = Append(@, q)]
  BY ONLY <1>10, PredictValuation(h, m) DEF PredictValuation
<1>12. c \in MinConfidence .. 10000 /\ v \in lo .. hi
  BY <1>3, <1>6, <1>9, <1>11, EngineConstants
<1>13. Reproducible(q, h, featured', commitments)
  BY <1>1, <1>4, <1>6, <1>9, <1>11, <1>12 DEF Reproducible
<1> QED
  BY <1>8, <1>11, <1>13, EnginePredicts

LEMMA VerifyModelExecutionInv ==
  ASSUME EngineInv, NEW h \in Homes, NEW m \in Models, NEW v \in ProvedValues,
         VerifyModelExecution(h, m, v)
  PROVE  EngineInv'
<1>1. models[m] \in Model /\ v \in Nat
  BY EngineConstants DEF VerifyModelExecution, EngineInv
<1>2. PICK c \in Nat, d \in Nat : c = models[m].accuracy /\ d = v \div 10
  BY <1>1, RoundsDown DEF Model
<1>3. PICK lo \in Int, hi \in Int, f \in Int : lo = v - d /\ hi = v + d /\ f = 10000 - 0
  BY <1>1
<1>4. PICK q : q = [value |-> v, low |-> lo, high |-> hi, confidence |-> c, bias |-> 0,
                    fairness |-> f, proved |-> TRUE]
  BY ONLY TRUE
<1>5. q \in PredictionRecord
  BY ONLY <1>1, <1>4, lo \in Int, hi \in Int, c \in Nat, f \in Int DEF PredictionRecord
<1>6. q.proved
  BY ONLY <1>4
<1>7. q = Prediction(v, models[m].accuracy, 0, TRUE)
  BY ONLY <1>2, <1>3, <1>4 DEF Prediction
<1>8. /\ predictions' = [predictions EXCEPT ![h] = Append(@, q)] /\ commitments[m] > 0
      /\ UNCHANGED <<models, featured, commitments>>
  BY ONLY <1>7, VerifyModelExecution(h, m, v) DEF VerifyModelExecution
<1>9. Reproducible(q, h, featured', commitments)
  BY ONLY <1>6, <1>8, m \in Models DEF Reproducible
<1> QED
  BY <1>5, <1>8, <1>9, EnginePredicts

LEMMA EngineInitInv == EngineInit => EngineInv
  BY DEF EngineInit, EngineInv

LEMMA EngineStepInv == EngineInv /\ [EngineStep]_<<now, engineVars>> => EngineInv'
<1> SUFFICES ASSUME EngineInv, [EngineStep]_<<now, engineVars>> PROVE EngineInv'
  OBVIOUS
<1>1. models \in [Models -> Model \union {None}] /\ commitments \in [Models -> Nat]
      /\ \A m \in Models : commitments[m] <= commitments[m]
  BY DEF EngineInv
<1>2. ASSUME featured \subseteq featured', UNCHANGED <<models, predictions, commitments>> PROVE EngineInv'
  BY <1>1, <1>2, EngineGrows
<1>3. CASE UNCHANGED <<now, engineVars>> \/ (Tick /\ UNCHANGED engineVars)
  BY <1>2, <1>3 DEF engineVars
<1>4. ASSUME EngineNext PROVE EngineInv'
  <2>1. ASSUME NEW m \in Models, NEW c \in ModelConfigs, RegisterModel(m, c) \/ UpdateModel(m, c)
        PROVE  EngineInv'
    <3>1. models' = [models EXCEPT ![m] = c] /\ UNCHANGED <<featured, predictions, commitments>>
      BY <2>1 DEF RegisterModel, UpdateModel
    <3>2. models' \in [Models -> Model \union {None}]
      BY <1>1, <3>1, EngineConstants
    <3> QED
      BY <1>1, <3>1, <3>2, EngineGrows
  <2>2. ASSUME NEW m \in Models, RegisterModelCommitment(m) PROVE EngineInv'
    <3>1. /\ commitments' = [commitments EXCEPT ![m] = commitments[m] + 1]
          /\ UNCHANGED <<models, featured, predictions>>
      BY <2>2 DEF RegisterModelCommitment
    <3>2. commitments' \in [Models -> Nat] /\ \A n \in Models : commitments[n] <= commitments'[n]
      BY <1>1, <3>1
    <3> QED
      BY <1>1, <3>1, <3>2, EngineGrows
  <2>3. ASSUME NEW h \in Homes, NEW m \in Models,
               PredictValuation(h, m) \/ \E n \in ProvedValues : VerifyModelExecution(h, m, n)
        PROVE  EngineInv'
    BY <2>3, PredictValuationInv, VerifyModelExecutionInv
  <2>4. ASSUME NEW h \in Homes, ExtractFeatures(h) \/ EnsemblePredict(h) PROVE EngineInv'
    BY <1>2, <2>4 DEF ExtractFeatures, EnsemblePredict
  <2>5. ASSUME EngineBreakerStep PROVE EngineInv'
    BY <1>2, <2>5 DEF EngineBreakerStep
  <2> QED
    BY <1>4, <2>1, <2>2, <2>3, <2>4, <2>5 DEF EngineNext
<1> QED
  BY <1>3, <1>4 DEF EngineStep

\* For any models, weights and properties: each prediction that is kept is what
\* the features of its property give, within the bounds of its confidence, or was
\* proved for a model that has a commitment; and an ensemble says the same.
THEOREM PredictionsStayReproducible == EngineSpec => []PredictionsAreReproducible
<1>1. EngineInv => PredictionsAreReproducible
  BY EnsembleAgrees DEF EngineInv, PredictionsAreReproducible, Reproducible
<1> QED
  BY <1>1, EngineInitInv, EngineStepInv, PTL DEF EngineSpec

-----------------------------------------------------------------------------
(* The documents of properties.                                            *)

Document == [estate : Estates, cid : Cids, size : Nat, pinned : BOOLEAN]

\* The documents held that are pinned for a property, and their size.
PinnedIn(held, e) == {id \in DOMAIN held : held[id].estate = e /\ held[id].pinned}
PinnedSum(held, e) == SumFunctionOnSet([id \in PinnedIn(held, e) |-> held[id].size], PinnedIn(held, e))

\* What the documents held are of.
Filed(held) == IsFiniteSet(DOMAIN held) /\ \A id \in DOMAIN held : held[id] \in Document

MetadataInv ==
  /\ documentCount \in Nat /\ DOMAIN documents \subseteq 1 .. documentCount
  /\ \A id \in DOMAIN documents : documents[id] \in Document
  /\ limits \in [file : Nat, count : Nat, pinned : Nat]
  /\ pinnedSize \in [Estates -> Nat] /\ byEstate \in [Estates -> SUBSET Nat]
  /\ \A cid \in DOMAIN byCid : byCid[cid] \in DOMAIN documents /\ documents[byCid[cid]].cid = cid
  /\ \A id \in DOMAIN documents :
       /\ documents[id].cid \in DOMAIN byCid /\ byCid[documents[id].cid] = id
       /\ id \in byEstate[documents[id].estate]
  /\ \A e \in Estates : \A id \in byEstate[e] : id \in DOMAIN documents /\ documents[id].estate = e
  /\ \A e \in Estates : PinnedSum(documents, e) <= pinnedSize[e]

LEMMA PinnedSame ==
  ASSUME NEW held, NEW next, NEW e, Filed(held), PinnedIn(next, e) = PinnedIn(held, e),
         \A id \in PinnedIn(held, e) : next[id].size = held[id].size
  PROVE  PinnedSum(next, e) = PinnedSum(held, e)
<1>1. PICK S, f, g : S = PinnedIn(held, e) /\ f = [id \in S |-> held[id].size]
                     /\ g = [id \in S |-> next[id].size]
  OBVIOUS
<1>2. IsFiniteSet(S)
  BY <1>1, FS_Subset DEF PinnedIn, Filed
<1>3. \A id \in S : g[id] = f[id]
  BY <1>1
<1>4. SumFunctionOnSet(g, S) = SumFunctionOnSet(f, S)
  BY ONLY <1>2, <1>3, SumAgrees
<1> QED
  BY <1>1, <1>4 DEF PinnedSum

LEMMA PinnedNat ==
  ASSUME NEW held, NEW e, Filed(held)
  PROVE  PinnedSum(held, e) \in Nat
<1>1. PICK S, f : S = PinnedIn(held, e) /\ f = [id \in S |-> held[id].size]
  OBVIOUS
<1>2. IsFiniteSet(S)
  BY <1>1, FS_Subset DEF PinnedIn, Filed
<1>3. \A id \in S : f[id] \in Nat
  BY <1>1 DEF PinnedIn, Filed, Document
<1>4. SumFunctionOnSet(f, S) \in Nat
  BY ONLY <1>2, <1>3, SumNonNegative
<1> QED
  BY <1>1, <1>4 DEF PinnedSum

(* One more document is pinned, or, from next to held, one less.             *)
LEMMA PinnedMore ==
  ASSUME NEW held, NEW next, NEW e, NEW id, Filed(held), Filed(next),
         id \notin PinnedIn(held, e), PinnedIn(next, e) = PinnedIn(held, e) \union {id},
         \A i \in PinnedIn(held, e) : next[i].size = held[i].size
  PROVE  PinnedSum(next, e) = PinnedSum(held, e) + next[id].size
<1>1. PICK S, f, g : S = PinnedIn(held, e) /\ f = [i \in S |-> held[i].size]
                     /\ g = [i \in S \union {id} |-> next[i].size]
  OBVIOUS
<1>2. IsFiniteSet(S) /\ id \notin S
  BY <1>1, FS_Subset DEF PinnedIn, Filed
<1>3. \A i \in S : g[i] = f[i] /\ f[i] \in Int /\ g[i] \in Int
  BY <1>1 DEF PinnedIn, Filed, Document
<1>4. g[id] = next[id].size /\ g[id] \in Int
  BY <1>1 DEF PinnedIn, Filed, Document
<1>5. SumFunctionOnSet(g, S \union {id}) = g[id] + SumFunctionOnSet(g, S)
  BY ONLY <1>2, <1>3, <1>4, SumAdd
<1>6. SumFunctionOnSet(g, S) = SumFunctionOnSet(f, S) /\ SumFunctionOnSet(f, S) \in Int
  BY ONLY <1>2, <1>3, SumAgrees, SumType
<1>7. PinnedSum(held, e) = SumFunctionOnSet(f, S)
  BY <1>1 DEF PinnedSum
<1>8. PinnedSum(next, e) = SumFunctionOnSet(g, S \union {id})
  BY <1>1 DEF PinnedSum
<1> QED
  BY ONLY <1>4, <1>5, <1>6, <1>7, <1>8

LEMMA DocumentsHeld == ASSUME MetadataInv PROVE Filed(documents)
<1>1. IsFiniteSet(1 .. documentCount)
  BY FS_Interval DEF MetadataInv
<1> QED
  BY <1>1, FS_Subset DEF MetadataInv, Filed


LEMMA RegisterDocumentInv ==
  ASSUME MetadataInv, NEW by, NEW e \in Estates, NEW cid \in Cids, NEW size \in Sizes,
         RegisterDocument(by, e, cid, size)
  PROVE  MetadataInv'
<1>1. PICK id, d : id = documentCount + 1
                   /\ d = [estate |-> e, cid |-> cid, size |-> size, pinned |-> FALSE]
  OBVIOUS
<1>2. /\ documentCount \in Nat /\ id \in Nat /\ id > documentCount /\ id \notin DOMAIN documents
      /\ DOMAIN documents \subseteq 1 .. documentCount
  BY <1>1 DEF MetadataInv
<1>3. d \in Document /\ d.estate = e /\ d.cid = cid /\ ~d.pinned
  BY <1>1, MetadataAssumption DEF Document
<1>4. /\ documents' = Inserted(documents, id, d) /\ byCid' = Inserted(byCid, cid, id)
      /\ byEstate' = [byEstate EXCEPT ![e] = @ \union {id}] /\ documentCount' = id
      /\ cid \notin DOMAIN byCid /\ UNCHANGED <<pinnedSize, limits>>
  BY <1>1 DEF RegisterDocument
<1>5. /\ DOMAIN documents' = DOMAIN documents \union {id} /\ documents'[id] = d
      /\ \A i \in DOMAIN documents : documents'[i] = documents[i]
  BY ONLY <1>2, <1>4 DEF Inserted
<1>6. /\ DOMAIN byCid' = DOMAIN byCid \union {cid} /\ byCid'[cid] = id
      /\ \A c \in DOMAIN byCid : byCid'[c] = byCid[c]
  BY ONLY <1>4 DEF Inserted
<1>7. /\ byEstate \in [Estates -> SUBSET Nat] /\ byEstate' \in [Estates -> SUBSET Nat]
      /\ byEstate'[e] = byEstate[e] \union {id}
      /\ \A g \in Estates \ {e} : byEstate'[g] = byEstate[g]
  BY <1>2, <1>4 DEF MetadataInv
<1>8. Filed(documents) /\ \A g \in Estates : PinnedIn(documents', g) = PinnedIn(documents, g)
  BY <1>2, <1>3, <1>5, DocumentsHeld DEF PinnedIn
<1>9. \A g \in Estates : PinnedSum(documents', g) = PinnedSum(documents, g)
  <2>1. \A g \in Estates : \A i \in PinnedIn(documents, g) : documents'[i].size = documents[i].size
    BY <1>5 DEF PinnedIn
  <2> QED
    BY <1>8, <2>1, PinnedSame
<1>10. DOMAIN documents' \subseteq 1 .. documentCount' /\ documentCount' \in Nat
  BY <1>1, <1>2, <1>4, <1>5
<1>11. \A i \in DOMAIN documents' : documents'[i] \in Document
  BY <1>3, <1>5 DEF MetadataInv
<1>12. \A c \in DOMAIN byCid' : byCid'[c] \in DOMAIN documents' /\ documents'[byCid'[c]].cid = c
  BY <1>3, <1>5, <1>6 DEF MetadataInv
<1>13. \A i \in DOMAIN documents' :
         /\ documents'[i].cid \in DOMAIN byCid' /\ byCid'[documents'[i].cid] = i
         /\ i \in byEstate'[documents'[i].estate]
  <2>1. ASSUME NEW i \in DOMAIN documents
        PROVE  /\ documents[i].cid \in DOMAIN byCid /\ byCid[documents[i].cid] = i
               /\ i \in byEstate[documents[i].estate] /\ documents[i].estate \in Estates
    BY DEF MetadataInv, Document
  <2> QED
    BY <1>3, <1>5, <1>6, <1>7, <2>1
<1>14. \A g \in Estates : \A i \in byEstate'[g] : i \in DOMAIN documents' /\ documents'[i].estate = g
  BY <1>3, <1>5, <1>7 DEF MetadataInv
<1>15. \A g \in Estates : PinnedSum(documents', g) <= pinnedSize'[g]
  BY <1>4, <1>9 DEF MetadataInv
<1> QED
  BY <1>4, <1>7, <1>10, <1>11, <1>12, <1>13, <1>14, <1>15 DEF MetadataInv

(* Pinned or unpinned: the document keeps its other fields.                  *)
LEMMA PinChanges ==
  ASSUME MetadataInv, NEW id \in DOMAIN documents, NEW b \in BOOLEAN,
         documents' = [documents EXCEPT ![id].pinned = b],
         UNCHANGED <<byCid, byEstate, documentCount, limits>>,
         pinnedSize' \in [Estates -> Nat],
         \A g \in Estates : PinnedSum(documents', g) <= pinnedSize'[g]
  PROVE  MetadataInv'
<1>1. PICK d, q : d = documents[id] /\ q = [d EXCEPT !.pinned = b]
  OBVIOUS
<1>2. d \in Document
  BY <1>1 DEF MetadataInv
<1>3. q \in Document /\ q.estate = d.estate /\ q.cid = d.cid
  BY ONLY <1>1, <1>2, b \in BOOLEAN DEF Document
<1>4. documents' = [documents EXCEPT ![id] = q]
  BY <1>1
<1>5. /\ DOMAIN documents' = DOMAIN documents /\ documents'[id] = q
      /\ \A i \in DOMAIN documents \ {id} : documents'[i] = documents[i]
  BY <1>4
<1>6. \A i \in DOMAIN documents :
        /\ documents'[i] \in Document /\ documents'[i].estate = documents[i].estate
        /\ documents'[i].cid = documents[i].cid
  BY <1>1, <1>3, <1>5 DEF MetadataInv
<1>7. \A c \in DOMAIN byCid' : byCid'[c] \in DOMAIN documents' /\ documents'[byCid'[c]].cid = c
  BY <1>5, <1>6 DEF MetadataInv
<1>8. \A i \in DOMAIN documents' :
        /\ documents'[i].cid \in DOMAIN byCid' /\ byCid'[documents'[i].cid] = i
        /\ i \in byEstate'[documents'[i].estate]
  BY <1>5, <1>6 DEF MetadataInv
<1>9. \A g \in Estates : \A i \in byEstate'[g] : i \in DOMAIN documents' /\ documents'[i].estate = g
  BY <1>5, <1>6 DEF MetadataInv
<1> QED
  BY <1>5, <1>6, <1>7, <1>8, <1>9 DEF MetadataInv

\* What pinning or unpinning document id does to the sizes.
LEMMA PinIs ==
  ASSUME MetadataInv, NEW id \in DOMAIN documents, NEW b \in BOOLEAN,
         documents' = [documents EXCEPT ![id].pinned = b], documents[id].pinned = ~b
  PROVE  /\ documents[id].estate \in Estates /\ documents[id].size \in Nat
         /\ \A g \in Estates \ {documents[id].estate} :
              PinnedSum(documents', g) = PinnedSum(documents, g)
         /\ IF b THEN PinnedSum(documents', documents[id].estate)
                        = PinnedSum(documents, documents[id].estate) + documents[id].size
            ELSE PinnedSum(documents, documents[id].estate)
                   = PinnedSum(documents', documents[id].estate) + documents[id].size
         /\ \A g \in Estates : PinnedSum(documents', g) \in Nat /\ PinnedSum(documents, g) \in Nat
<1>1. PICK d, q, e : d = documents[id] /\ q = [d EXCEPT !.pinned = b] /\ e = d.estate
  OBVIOUS
<1>2. d \in Document /\ e \in Estates /\ d.size \in Nat /\ d.pinned = ~b
  BY <1>1 DEF MetadataInv, Document
<1>3. q \in Document /\ q.estate = e /\ q.size = d.size /\ q.pinned = b
  BY ONLY <1>1, <1>2, b \in BOOLEAN DEF Document
<1>4. documents' = [documents EXCEPT ![id] = q]
  BY <1>1
<1>5. /\ DOMAIN documents' = DOMAIN documents /\ documents'[id] = q
      /\ \A i \in DOMAIN documents \ {id} : documents'[i] = documents[i]
  BY <1>4
<1>6. Filed(documents) /\ Filed(documents')
  BY <1>3, <1>5, DocumentsHeld DEF Filed
<1>7. ASSUME NEW g \in Estates \ {e} PROVE PinnedSum(documents', g) = PinnedSum(documents, g)
  <2>1. /\ PinnedIn(documents', g) = PinnedIn(documents, g)
        /\ \A i \in PinnedIn(documents, g) : documents'[i].size = documents[i].size
    BY <1>1, <1>3, <1>5 DEF PinnedIn
  <2> QED
    BY <1>6, <2>1, PinnedSame
<1>8. CASE b
  <2>1. /\ id \notin PinnedIn(documents, e)
        /\ PinnedIn(documents', e) = PinnedIn(documents, e) \union {id}
        /\ \A i \in PinnedIn(documents, e) : documents'[i].size = documents[i].size
    BY <1>1, <1>2, <1>3, <1>5, <1>8 DEF PinnedIn
  <2>2. PinnedSum(documents', e) = PinnedSum(documents, e) + documents'[id].size
    BY ONLY <1>6, <2>1, PinnedMore
  <2> QED
    BY <1>1, <1>2, <1>3, <1>5, <1>6, <1>7, <1>8, <2>2, PinnedNat
<1>9. CASE ~b
  <2>1. /\ id \notin PinnedIn(documents', e)
        /\ PinnedIn(documents, e) = PinnedIn(documents', e) \union {id}
        /\ \A i \in PinnedIn(documents', e) : documents[i].size = documents'[i].size
    BY <1>1, <1>2, <1>3, <1>5, <1>9 DEF PinnedIn
  <2>2. PinnedSum(documents, e) = PinnedSum(documents', e) + documents[id].size
    BY ONLY <1>6, <2>1, PinnedMore
  <2> QED
    BY <1>1, <1>2, <1>3, <1>5, <1>6, <1>7, <1>9, <2>2, PinnedNat
<1> QED
  BY <1>8, <1>9

LEMMA PinInv ==
  ASSUME MetadataInv, NEW by, NEW id \in DOMAIN documents,
         PinDocument(by, id) \/ UnpinDocument(by, id)
  PROVE  MetadataInv'
<1>1. PICK d, e : d = documents[id] /\ e = d.estate
  OBVIOUS
<1>2. d \in Document /\ e \in Estates /\ d.size \in Nat
  BY <1>1 DEF MetadataInv, Document
<1>3. pinnedSize \in [Estates -> Nat] /\ \A g \in Estates : PinnedSum(documents, g) <= pinnedSize[g]
  BY DEF MetadataInv
<1>4. CASE PinDocument(by, id)
  <2>1. /\ documents' = [documents EXCEPT ![id].pinned = TRUE] /\ ~d.pinned
        /\ pinnedSize' = [pinnedSize EXCEPT ![e] = @ + d.size]
        /\ UNCHANGED <<byCid, byEstate, documentCount, limits>>
    BY <1>1, <1>4 DEF PinDocument
  <2>2. /\ pinnedSize' \in [Estates -> Nat] /\ pinnedSize'[e] = pinnedSize[e] + d.size
        /\ \A g \in Estates \ {e} : pinnedSize'[g] = pinnedSize[g]
    BY ONLY <1>2, <1>3, <2>1
  <2>3. documents[id].pinned = ~TRUE
    BY <1>1, <1>2, <2>1 DEF Document
  <2>4. /\ \A g \in Estates \ {e} : PinnedSum(documents', g) = PinnedSum(documents, g)
        /\ PinnedSum(documents', e) = PinnedSum(documents, e) + d.size
        /\ \A g \in Estates : PinnedSum(documents', g) \in Nat /\ PinnedSum(documents, g) \in Nat
    BY <1>1, <2>1, <2>3, PinIs
  <2>5. \A g \in Estates : PinnedSum(documents', g) <= pinnedSize'[g]
    BY ONLY <1>2, <1>3, <2>2, <2>4
  <2> QED
    BY <2>1, <2>2, <2>5, PinChanges
<1>5. CASE UnpinDocument(by, id)
  <2>1. /\ documents' = [documents EXCEPT ![id].pinned = FALSE] /\ d.pinned
        /\ pinnedSize' = [pinnedSize EXCEPT ![e] = IF @ >= d.size THEN @ - d.size ELSE @]
        /\ UNCHANGED <<byCid, byEstate, documentCount, limits>>
    BY <1>1, <1>5 DEF UnpinDocument
  <2>2. /\ pinnedSize' \in [Estates -> Nat]
        /\ pinnedSize'[e] = IF pinnedSize[e] >= d.size THEN pinnedSize[e] - d.size ELSE pinnedSize[e]
        /\ \A g \in Estates \ {e} : pinnedSize'[g] = pinnedSize[g]
    BY ONLY <1>2, <1>3, <2>1
  <2>3. documents[id].pinned = ~FALSE
    BY <1>1, <1>2, <2>1 DEF Document
  <2>4. /\ \A g \in Estates \ {e} : PinnedSum(documents', g) = PinnedSum(documents, g)
        /\ PinnedSum(documents, e) = PinnedSum(documents', e) + d.size
        /\ \A g \in Estates : PinnedSum(documents', g) \in Nat /\ PinnedSum(documents, g) \in Nat
    BY <1>1, <2>1, <2>3, PinIs
  <2>5. \A g \in Estates : PinnedSum(documents', g) <= pinnedSize'[g]
    BY ONLY <1>2, <1>3, <2>2, <2>4
  <2> QED
    BY <2>1, <2>2, <2>5, PinChanges
<1> QED
  BY <1>4, <1>5


LEMMA ReportInv ==
  ASSUME MetadataInv, NEW id \in DOMAIN documents, ReportMaliciousFile(id)
  PROVE  MetadataInv'
<1>1. PICK d, e : d = documents[id] /\ e = d.estate
  OBVIOUS
<1>2. d \in Document /\ e \in Estates /\ byCid[d.cid] = id
  BY <1>1 DEF MetadataInv, Document
<1>3. /\ DOMAIN documents' = DOMAIN documents \ {id}
      /\ \A i \in DOMAIN documents' : documents'[i] = documents[i]
  BY DEF ReportMaliciousFile, Restrict
<1>4. /\ DOMAIN byCid' = DOMAIN byCid \ {d.cid}
      /\ \A c \in DOMAIN byCid' : byCid'[c] = byCid[c]
  BY <1>1 DEF ReportMaliciousFile, Restrict
<1>5. UNCHANGED <<pinnedSize, documentCount, limits>>
  BY DEF ReportMaliciousFile
<1>6. /\ byEstate' \in [Estates -> SUBSET Nat] /\ byEstate'[e] = byEstate[e] \ {id}
      /\ \A g \in Estates \ {e} : byEstate'[g] = byEstate[g]
  <2>1. byEstate \in [Estates -> SUBSET Nat] /\ byEstate' = [byEstate EXCEPT ![e] = @ \ {id}]
    BY <1>1 DEF MetadataInv, ReportMaliciousFile
  <2> QED
    BY ONLY <1>2, <2>1
<1>7. Filed(documents) /\ Filed(documents')
  BY <1>3, DocumentsHeld, FS_Subset DEF Filed
<1>8. ASSUME NEW g \in Estates PROVE PinnedSum(documents', g) <= pinnedSize'[g]
  <2>1. PinnedSum(documents', g) \in Nat /\ PinnedSum(documents, g) \in Nat
        /\ PinnedSum(documents, g) <= pinnedSize'[g] /\ pinnedSize'[g] \in Nat
    BY <1>5, <1>7, PinnedNat DEF MetadataInv
  <2>2. CASE id \in PinnedIn(documents, g)
    <3>1. /\ id \notin PinnedIn(documents', g)
          /\ PinnedIn(documents, g) = PinnedIn(documents', g) \union {id}
          /\ \A i \in PinnedIn(documents', g) : documents[i].size = documents'[i].size
      BY <1>3, <2>2 DEF PinnedIn
    <3>2. PinnedSum(documents, g) = PinnedSum(documents', g) + documents[id].size
      BY ONLY <1>7, <3>1, PinnedMore
    <3>3. documents[id].size \in Nat
      BY <1>1, <1>2 DEF Document
    <3> QED
      BY <2>1, <3>2, <3>3
  <2>3. CASE id \notin PinnedIn(documents, g)
    <3>1. /\ PinnedIn(documents', g) = PinnedIn(documents, g)
          /\ \A i \in PinnedIn(documents, g) : documents'[i].size = documents[i].size
      BY <1>3, <2>3 DEF PinnedIn
    <3> QED
      BY <1>7, <2>1, <3>1, PinnedSame
  <2> QED
    BY <2>2, <2>3
<1>9. DOMAIN documents' \subseteq 1 .. documentCount' /\ \A i \in DOMAIN documents' : documents'[i] \in Document
  BY <1>3, <1>5 DEF MetadataInv
<1>10. \A c \in DOMAIN byCid' : byCid'[c] \in DOMAIN documents' /\ documents'[byCid'[c]].cid = c
  BY <1>1, <1>3, <1>4 DEF MetadataInv
<1>11. ASSUME NEW i \in DOMAIN documents'
       PROVE  /\ documents'[i].cid \in DOMAIN byCid' /\ byCid'[documents'[i].cid] = i
              /\ i \in byEstate'[documents'[i].estate]
  <2>1. /\ i # id /\ i \in DOMAIN documents /\ documents'[i] = documents[i]
        /\ documents[i].estate \in Estates
    BY <1>3 DEF MetadataInv, Document
  <2>2. /\ documents[i].cid \in DOMAIN byCid /\ byCid[documents[i].cid] = i
        /\ i \in byEstate[documents[i].estate]
    BY <2>1 DEF MetadataInv
  <2>3. documents[i].cid # d.cid
    BY <1>2, <2>1, <2>2
  <2> QED
    BY <1>4, <1>6, <2>1, <2>2, <2>3
<1>12. ASSUME NEW g \in Estates, NEW i \in byEstate'[g]
       PROVE  i \in DOMAIN documents' /\ documents'[i].estate = g
  <2>1. i \in byEstate[g] /\ i \in DOMAIN documents /\ documents[i].estate = g
    BY <1>6 DEF MetadataInv
  <2>2. i # id
    BY <1>1, <1>6, <2>1
  <2> QED
    BY <1>3, <2>1, <2>2
<1> QED
  BY <1>5, <1>6, <1>8, <1>9, <1>10, <1>11, <1>12 DEF MetadataInv

LEMMA MetadataInitInv == MetadataInit => MetadataInv
<1> SUFFICES ASSUME MetadataInit PROVE MetadataInv
  OBVIOUS
<1>1. DOMAIN documents = {} /\ DOMAIN byCid = {}
  BY DEF MetadataInit
<1>2. ASSUME NEW e \in Estates PROVE PinnedSum(documents, e) = 0
  <2>1. PinnedIn(documents, e) = {}
    BY <1>1 DEF PinnedIn
  <2> QED
    BY <2>1, SumEmpty DEF PinnedSum
<1>3. limits \in [file : Nat, count : Nat, pinned : Nat]
  BY MetadataAssumption DEF MetadataInit
<1>4. /\ documentCount = 0 /\ pinnedSize = [e \in Estates |-> 0]
      /\ byEstate = [e \in Estates |-> {}]
  BY DEF MetadataInit
<1> QED
  BY <1>1, <1>2, <1>3, <1>4 DEF MetadataInv

LEMMA MetadataStepInv == MetadataInv /\ [MetadataNext]_metadataVars => MetadataInv'
<1> SUFFICES ASSUME MetadataInv, [MetadataNext]_metadataVars PROVE MetadataInv'
  OBVIOUS
<1>1. ASSUME UNCHANGED documentVars, limits' \in [file : Nat, count : Nat, pinned : Nat]
      PROVE  MetadataInv'
  BY <1>1 DEF documentVars, MetadataInv
<1>2. limits \in [file : Nat, count : Nat, pinned : Nat]
  BY DEF MetadataInv
<1>3. CASE UNCHANGED metadataVars
  BY <1>1, <1>2, <1>3 DEF metadataVars
<1>4. ASSUME NEW c, NEW e, RegisterMetadata(c, e) PROVE MetadataInv'
  BY <1>1, <1>2, <1>4 DEF RegisterMetadata
<1>5. ASSUME NEW by, NEW c, NEW e, NEW level, SetAccess(by, e, c, level) PROVE MetadataInv'
  BY <1>1, <1>2, <1>5 DEF SetAccess
<1>6. ASSUME NEW l \in Limits, UpdateValidationRules(l) PROVE MetadataInv'
  BY <1>1, <1>6, MetadataAssumption DEF UpdateValidationRules
<1> QED
  BY <1>3, <1>4, <1>5, <1>6, RegisterDocumentInv, PinInv, ReportInv DEF MetadataNext

\* For any properties, documents and limits: both indexes lead to the documents
\* and back after any uploads, pins and removals, and no property has more
\* pinned than is counted for it.
THEOREM DocumentsStayIndexed == MetadataSpec => []DocumentsAreIndexed
<1>1. MetadataInv => DocumentsAreIndexed
  BY DEF MetadataInv, DocumentsAreIndexed, PinnedOf, PinnedSum, PinnedIn
<1> QED
  BY <1>1, MetadataInitInv, MetadataStepInv, PTL DEF MetadataSpec
=============================================================================
