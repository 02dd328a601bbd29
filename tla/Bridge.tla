------------------------------- MODULE Bridge -------------------------------
(***************************************************************************)
(* The Soroban bridge (contracts/bridge/src/lib.rs): requests to move a    *)
(* property to another chain, the operators' signatures, execution and     *)
(* recovery.  A panic reverts the call.  The service fee is a transfer     *)
(* that succeeds; metadata, chains and addresses are not told apart.       *)
(***************************************************************************)
EXTENDS Ledger, BreakerOps, Sequences, FiniteSets

CONSTANTS
  Senders,           \* accounts that ask for a transfer
  Signers,           \* accounts that may become operators; the admin is one
  BridgeAdmin,
  MinSignatures, MaxSignatures, MaxOperators,
  Timeouts,          \* timeout_seconds offered, or None
  MaxHistoryItems,   \* MAX_HISTORY_ITEMS
  MaxBridgeRequests, MaxTransactions  \* bounds

ASSUME BridgeAssumption ==
  /\ BridgeAdmin \in Signers
  /\ MinSignatures \in 1 .. MaxSignatures /\ MaxSignatures \in Nat
  /\ MaxHistoryItems \in Nat \ {0} /\ Timeouts \subseteq Nat \union {None}

VARIABLES
  request,    \* Request(id); ReqCounter is its length
  operators,  \* Operators
  history,    \* History(sender): ids of executed requests, oldest first
  txCounter,  \* TxCounter
  stop,       \* the circuit breaker
  runs        \* history: per request, executions since its last recovery

bridgeVars == <<request, operators, history, txCounter, stop, runs>>

BridgeInit ==
  /\ request = <<>> /\ runs = <<>>
  /\ operators = {BridgeAdmin}
  /\ history = [s \in Senders |-> <<>>]
  /\ txCounter = 0
  /\ stop = Cleared

\* require_not_paused, which synchronises.
BridgeOpen == ~IsPaused(stop, now) /\ stop' = SyncResult(stop, now)

InitiateBridge(s, required, timeout) ==
  /\ BridgeOpen
  /\ required \in MinSignatures .. MaxSignatures
  /\ timeout # 0
  /\ request' = Append(request,
       [sender |-> s, required |-> required, signatures |-> {}, status |-> "Pending",
        expires |-> IF timeout = None THEN None ELSE now + timeout])
  /\ runs' = Append(runs, 0)
  /\ UNCHANGED <<operators, history, txCounter>>

InTime(id) == IF request[id].expires = None THEN TRUE ELSE now <= request[id].expires

\* Mutant: an operator may sign a request again.
SignBridge_Again(op, id, approve) ==
  /\ op \in operators /\ BridgeOpen
  /\ InTime(id)
  /\ LET signed == request[id].signatures \union {op} IN
     request' = [request EXCEPT ![id].signatures = signed,
       ![id].status = IF ~approve THEN "Failed"
                      ELSE IF Cardinality(signed) >= request[id].required THEN "Locked" ELSE @]
  /\ UNCHANGED <<operators, history, txCounter, runs>>

\* sign_bridge_request: whatever the status of the request is.  A refusal
\* counts as a signature for the approvals that follow it.
SignBridge(op, id, approve) ==
  /\ op \in operators /\ BridgeOpen
  /\ InTime(id)
  /\ op \notin request[id].signatures
  /\ LET signed == request[id].signatures \union {op} IN
     request' = [request EXCEPT ![id].signatures = signed,
       ![id].status = IF ~approve THEN "Failed"
                      ELSE IF Cardinality(signed) >= request[id].required THEN "Locked" ELSE @]
  /\ UNCHANGED <<operators, history, txCounter, runs>>

Newest(s) == IF Len(s) > MaxHistoryItems THEN Tail(s) ELSE s

\* execute_bridge: neither the expiry nor the signers are looked at again.
ExecuteBridge(op, id) ==
  /\ op \in operators /\ BridgeOpen
  /\ request[id].status = "Locked"
  /\ request' = [request EXCEPT ![id].status = "Completed"]
  /\ history' = [history EXCEPT ![request[id].sender] = Newest(Append(@, id))]
  /\ txCounter' = txCounter + 1
  /\ runs' = [runs EXCEPT ![id] = @ + 1]
  /\ UNCHANGED operators

\* recover_failed_bridge: RetryBridge opens the request again, the other
\* three actions leave it failed.
RecoverBridge(id, retry) ==
  /\ BridgeOpen
  /\ request[id].status = "Failed"
  /\ IF retry
     THEN /\ request' = [request EXCEPT ![id].status = "Pending", ![id].signatures = {}]
          /\ runs' = [runs EXCEPT ![id] = 0]
     ELSE UNCHANGED <<request, runs>>
  /\ UNCHANGED <<operators, history, txCounter>>

AddBridgeOperator(op) ==
  /\ Cardinality(operators) < MaxOperators
  /\ operators' = operators \union {op}
  /\ UNCHANGED <<request, history, txCounter, stop, runs>>

\* remove_operator compares the number before the removal.
RemoveBridgeOperator(op) ==
  /\ Cardinality(operators) > MinSignatures
  /\ operators' = operators \ {op}
  /\ UNCHANGED <<request, history, txCounter, stop, runs>>

\* emergency_pause and the two calls of resume (module CircuitBreaker has the
\* timed windows).
BridgeBreakerStep ==
  /\ \/ stop' = EmergencyResult(stop, now, BridgeAdmin)
     \/ ResumeSchedules(stop, now) /\ stop' = ResumeScheduledResult(stop, now)
     \/ ResumeCompletes(stop, now) /\ stop' = Cleared
  /\ UNCHANGED <<request, operators, history, txCounter, runs>>

BridgeNext ==
  \/ /\ Len(request) < MaxBridgeRequests
     /\ \E s \in Senders, n \in MinSignatures .. MaxSignatures, t \in Timeouts :
          InitiateBridge(s, n, t)
  \/ \E id \in DOMAIN request :
       \/ \E op \in Signers :
            \/ \E approve \in BOOLEAN : SignBridge(op, id, approve)
            \/ txCounter < MaxTransactions /\ ExecuteBridge(op, id)
       \/ \E retry \in BOOLEAN : RecoverBridge(id, retry)
  \/ \E op \in Signers : AddBridgeOperator(op) \/ RemoveBridgeOperator(op)
  \/ BridgeBreakerStep

BridgeStep == (BridgeNext /\ UNCHANGED now) \/ (Tick /\ UNCHANGED bridgeVars)

BridgeSpec == now = 0 /\ BridgeInit /\ [][BridgeStep]_<<now, bridgeVars>>

-----------------------------------------------------------------------------
\* What can be executed was signed for: a signature that arrives after the
\* execution makes a request executable once more, so each execution since the
\* last recovery beyond the first is paid for by a further signer, and no
\* execution happens with fewer distinct signers than the request asked for.
EachExecutionIsSigned ==
  \A id \in DOMAIN request :
    LET r == request[id]
        due == runs[id] + IF r.status = "Locked" THEN 1 ELSE 0
    IN  due > 0 => due + r.required <= Cardinality(r.signatures) + 1
=============================================================================
