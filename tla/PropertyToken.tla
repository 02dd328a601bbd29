---------------------------- MODULE PropertyToken ----------------------------
(***************************************************************************)
(* The ink! property token (contracts/property-token/src/lib.rs): tokens,  *)
(* their owners and approvals, and the bridge that locks a token here for  *)
(* a copy elsewhere.  An Err reverts the message, so a refused call is not *)
(* a step; that holds too of expire_bridge_request_if_needed, which marks  *)
(* a request as expired and unlocks its token before it returns its Err.   *)
(* Documents, ownership history and operation fees are left out; nothing   *)
(* reads them again.  Shares of a token are module PropertyShares.         *)
(***************************************************************************)
EXTENDS Ledger, BreakerOps, Sequences, FiniteSets

CONSTANTS
  Owners,           \* accounts that hold tokens
  Spenders,         \* those that tokens are approved for and sent to
  Guards,           \* accounts that may be bridge operators; the admin is one
  TokenAdmin,
  Chains,           \* supported_chains
  Zero,             \* the zero account, which owns what is locked
  MinSigs, MaxSigs, \* bridge_config
  RequestTimeouts,  \* timeout_blocks offered
  UpgradeDelay,     \* CODE_HASH_UPGRADE_DELAY_MS
  MaxProperties, MaxTokens, MaxTokenRequests  \* bounds

ASSUME TokenAssumption ==
  /\ TokenAdmin \in Guards /\ Zero \notin Owners \union {None}
  /\ MinSigs \in 1 .. MaxSigs /\ MaxSigs \in Nat /\ RequestTimeouts \subseteq Nat

VARIABLES
  tokenOwner,   \* token_owner by token id; None once burned
  ownerCount,   \* owner_token_count
  approval,     \* token_approvals
  verified,     \* compliance_flags
  transfers,    \* bridge_requests
  pendingOf,    \* token_pending_requests
  bridged,      \* bridged_tokens: status by <<chain, token>>
  guards,       \* bridge_operators
  supply,       \* total_supply
  halt,         \* circuit_breaker
  codeDue       \* pending_code_hash: when it may be committed

tokenVars == <<tokenOwner, ownerCount, approval, verified, supply>>
requestVars == <<transfers, pendingOf, bridged>>
adminVars == <<guards, halt, codeDue>>

TokenInit ==
  /\ tokenOwner = <<>> /\ approval = <<>> /\ verified = <<>> /\ supply = 0
  /\ ownerCount = [o \in Owners |-> 0]
  /\ transfers = <<>> /\ pendingOf = <<>> /\ bridged = <<>>
  /\ guards = {TokenAdmin} /\ halt = Cleared /\ codeDue = None

TokenOpen == ~IsPaused(halt, now) /\ halt' = SyncResult(halt, now)

-----------------------------------------------------------------------------
(* Tokens.                                                                 *)

\* A new token with the records it starts with.
MintTo(o, checked) ==
  /\ tokenOwner' = Append(tokenOwner, o) /\ approval' = Append(approval, None)
  /\ verified' = Append(verified, checked) /\ pendingOf' = Append(pendingOf, None)
  /\ ownerCount' = [ownerCount EXCEPT ![o] = @ + 1]
  /\ supply' = supply + 1

\* register_property_with_token; batch_register_properties repeats it.
RegisterProperty(o) ==
  MintTo(o, FALSE) /\ UNCHANGED <<transfers, bridged, adminVars>>

\* transfer_from by the owner or the approved account.  The counts and the
\* history follow the transfer; token_owner does not.
TransferFrom(caller, from, to, t) ==
  /\ TokenOpen
  /\ tokenOwner[t] = from /\ caller \in {from, approval[t]}
  /\ ownerCount[from] > 0
  /\ LET taken == [ownerCount EXCEPT ![from] = @ - 1]
     IN  ownerCount' = [taken EXCEPT ![to] = @ + 1]
  /\ approval' = [approval EXCEPT ![t] = None]
  /\ UNCHANGED <<tokenOwner, verified, supply, requestVars, guards, codeDue>>

ApproveToken(caller, to, t) ==
  /\ TokenOpen
  /\ tokenOwner[t] = caller
  /\ approval' = [approval EXCEPT ![t] = to]
  /\ UNCHANGED <<tokenOwner, ownerCount, verified, supply, requestVars, guards, codeDue>>

VerifyCompliance(t, status) ==
  /\ verified' = [verified EXCEPT ![t] = status]
  /\ UNCHANGED <<tokenOwner, ownerCount, approval, supply, requestVars, adminVars>>

-----------------------------------------------------------------------------
(* The bridge.                                                             *)

InitiateTransfer(o, t, chain, required, timeout) ==
  /\ tokenOwner[t] = o
  /\ TokenOpen
  /\ verified[t]
  /\ required \in MinSigs .. MaxSigs
  /\ pendingOf[t] = None
  /\ transfers' = Append(transfers,
       [token |-> t, chain |-> chain, sender |-> o, required |-> required,
        signatures |-> {}, expires |-> now + timeout, status |-> "Pending"])
  /\ pendingOf' = [pendingOf EXCEPT ![t] = Len(transfers) + 1]
  /\ UNCHANGED <<tokenVars, bridged, guards, codeDue>>

Live(r) == now <= transfers[r].expires

\* Mutant: a signature counts after its operator was removed.
ValidSignatures_All(signed) == Cardinality(signed)

\* count_valid_operator_signatures.
ValidSignatures(signed) == Cardinality(signed \intersect guards)

SignTransfer(op, r, approve) ==
  LET t == transfers[r].token
      signed == transfers[r].signatures \union {op}
      locks == approve /\ ValidSignatures(signed) >= transfers[r].required
  IN  /\ op \in guards /\ Live(r)
      /\ transfers[r].status = "Pending" /\ op \notin transfers[r].signatures
      /\ locks => tokenOwner[t] # None
      /\ transfers' = [transfers EXCEPT ![r].signatures = signed,
           ![r].status = IF locks THEN "Locked" ELSE IF approve THEN @ ELSE "Failed"]
      /\ pendingOf' = IF approve THEN pendingOf ELSE [pendingOf EXCEPT ![t] = None]
      /\ tokenOwner' = IF locks THEN [tokenOwner EXCEPT ![t] = Zero] ELSE tokenOwner
      /\ UNCHANGED <<ownerCount, approval, verified, supply, bridged, adminVars>>

BridgedTo(chain, t, status) ==
  [k \in DOMAIN bridged \union {<<chain, t>>} |->
     IF k = <<chain, t>> THEN status ELSE bridged[k]]

\* Mutant: the token's slot is not given back.
ExecuteTransfer_KeepsSlot(op, r) ==
  /\ op \in guards /\ Live(r)
  /\ transfers[r].status = "Locked"
  /\ ValidSignatures(transfers[r].signatures) >= transfers[r].required
  /\ transfers' = [transfers EXCEPT ![r].status = "Completed"]
  /\ bridged' = BridgedTo(transfers[r].chain, transfers[r].token, "InTransit")
  /\ UNCHANGED <<tokenVars, pendingOf, adminVars>>

ExecuteTransfer(op, r) ==
  /\ op \in guards /\ Live(r)
  /\ transfers[r].status = "Locked"
  /\ ValidSignatures(transfers[r].signatures) >= transfers[r].required
  /\ transfers' = [transfers EXCEPT ![r].status = "Completed"]
  /\ pendingOf' = [pendingOf EXCEPT ![transfers[r].token] = None]
  /\ bridged' = BridgedTo(transfers[r].chain, transfers[r].token, "InTransit")
  /\ UNCHANGED <<tokenVars, adminVars>>

\* receive_bridged_token with the hash of an executed request (hashes are
\* verified where they were made, and never used up).
ReceiveBridged(op, r, chain, original, to) ==
  /\ op \in guards
  /\ transfers[r].status = "Completed"
  /\ MintTo(to, TRUE)
  /\ bridged' = IF <<chain, original>> \in DOMAIN bridged
                THEN BridgedTo(chain, original, "Completed") ELSE bridged
  /\ UNCHANGED <<transfers, adminVars>>

BurnBridged(o, t, chain) ==
  /\ tokenOwner[t] = o
  /\ <<chain, t>> \in DOMAIN bridged /\ bridged[<<chain, t>>] = "Completed"
  /\ ownerCount[o] > 0
  /\ ownerCount' = [ownerCount EXCEPT ![o] = @ - 1]
  /\ tokenOwner' = [tokenOwner EXCEPT ![t] = None]
  /\ supply' = supply - 1
  /\ bridged' = BridgedTo(chain, t, "Locked")
  /\ UNCHANGED <<approval, verified, transfers, pendingOf, adminVars>>

\* recover_failed_bridge: UnlockToken and CancelBridge give a locked token to
\* the sender of the failed request, whichever request locked it; RetryBridge
\* opens the request again; RefundGas changes nothing.
RecoverTransfer(r, action) ==
  /\ transfers[r].status = "Failed"
  /\ LET t == transfers[r].token
         unlocks == action \in {"UnlockToken", "CancelBridge"} /\ tokenOwner[t] = Zero
     IN  /\ tokenOwner' = IF unlocks THEN [tokenOwner EXCEPT ![t] = transfers[r].sender]
                          ELSE tokenOwner
         /\ ownerCount' = IF unlocks THEN [ownerCount EXCEPT ![transfers[r].sender] = @ + 1]
                          ELSE ownerCount
         /\ IF action = "RetryBridge"
            THEN /\ transfers' = [transfers EXCEPT ![r].status = "Pending", ![r].signatures = {}]
                 /\ pendingOf' = [pendingOf EXCEPT ![t] = r]
            ELSE UNCHANGED <<transfers, pendingOf>>
  /\ UNCHANGED <<approval, verified, supply, bridged, adminVars>>

AddGuard(op) ==
  guards' = guards \union {op} /\ UNCHANGED <<tokenVars, requestVars, halt, codeDue>>

RemoveGuard(op) ==
  /\ Cardinality(guards \ {op}) >= MinSigs
  /\ guards' = guards \ {op}
  /\ UNCHANGED <<tokenVars, requestVars, halt, codeDue>>

-----------------------------------------------------------------------------
(* Upgrades and the breaker.                                               *)

\* propose_code_hash stops the contract at once.
ProposeCodeHash ==
  /\ codeDue' = now + UpgradeDelay
  /\ halt' = EmergencyResult(halt, now, TokenAdmin)
  /\ UNCHANGED <<tokenVars, requestVars, guards>>

CommitCodeHash ==
  /\ codeDue # None /\ now >= codeDue
  /\ codeDue' = None
  /\ UNCHANGED <<tokenVars, requestVars, guards, halt>>

\* resume, in its two calls.
ResumeToken ==
  /\ \/ ResumeSchedules(halt, now) /\ halt' = ResumeScheduledResult(halt, now)
     \/ ResumeCompletes(halt, now) /\ halt' = Cleared
  /\ UNCHANGED <<tokenVars, requestVars, guards, codeDue>>

RequestNext(r) ==
  \/ \E op \in Guards :
       \/ \E approve \in BOOLEAN : SignTransfer(op, r, approve)
       \/ ExecuteTransfer(op, r)
       \/ /\ Len(tokenOwner) < MaxTokens
          /\ \E c \in Chains, t \in DOMAIN tokenOwner, o \in Owners : ReceiveBridged(op, r, c, t, o)
  \/ \E a \in {"UnlockToken", "RefundGas", "RetryBridge", "CancelBridge"} : RecoverTransfer(r, a)

TokenNext ==
  \/ \E o \in Owners :
       \/ Len(tokenOwner) < MaxProperties /\ RegisterProperty(o)
       \/ \E t \in DOMAIN tokenOwner :
            \/ \E p \in Spenders \ {o} :
                 ApproveToken(o, p, t) \/ \E c \in {o, p} : TransferFrom(c, o, p, t)
            \/ \E c \in Chains : BurnBridged(o, t, c)
            \/ /\ Len(transfers) < MaxTokenRequests
               /\ \E c \in Chains, n \in MinSigs .. MaxSigs, d \in RequestTimeouts :
                    InitiateTransfer(o, t, c, n, d)
  \/ \E t \in DOMAIN tokenOwner, b \in BOOLEAN : VerifyCompliance(t, b)
  \/ \E r \in DOMAIN transfers : RequestNext(r)
  \/ \E op \in Guards : AddGuard(op) \/ RemoveGuard(op)
  \/ ProposeCodeHash \/ CommitCodeHash \/ ResumeToken

allTokenVars == <<tokenVars, requestVars, adminVars>>
TokenStep == (TokenNext /\ UNCHANGED now) \/ (Tick /\ UNCHANGED allTokenVars)

TokenSpec == now = 0 /\ TokenInit /\ [][TokenStep]_<<now, allTokenVars>>

-----------------------------------------------------------------------------
\* The slot that keeps a token to one request names a request of this token
\* that is still open, through rejections, retries of old requests and
\* executions in any order: a slot that outlived its request would bar its
\* token from the bridge for ever.
PendingSlotIsOpen ==
  \A t \in DOMAIN pendingOf :
    pendingOf[t] # None => /\ transfers[pendingOf[t]].token = t
                           /\ transfers[pendingOf[t]].status \in {"Pending", "Locked"}

\* A token is taken from its owner only for a request that enough of the
\* operators of this moment have signed, the removed ones not counted.
OnlyOperatorsLock ==
  [][ \A t \in DOMAIN tokenOwner :
        tokenOwner[t] \in Owners /\ tokenOwner'[t] = Zero =>
          \E r \in DOMAIN transfers :
            /\ transfers[r].token = t /\ transfers'[r].status = "Locked"
            /\ Cardinality(transfers'[r].signatures \intersect guards) >= transfers[r].required
    ]_allTokenVars

\* "mark expired, unlock any locked token": a token that a request has locked
\* is not lost with the request's deadline, some operation still moves it.
ExpiredTokenReturns ==
  \A t \in DOMAIN tokenOwner :
    tokenOwner[t] = Zero /\ pendingOf[t] # None =>
      \E r \in DOMAIN transfers :
        transfers[r].token = t /\ ENABLED (RequestNext(r) /\ UNCHANGED now)
=============================================================================
