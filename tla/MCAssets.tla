------------------------------ MODULE MCAssets ------------------------------
(***************************************************************************)
(* The contracts around the property token, one behaviour at a time: they   *)
(* keep their state apart and share the clock only, so a behaviour of all   *)
(* is a behaviour of each.                                                  *)
(***************************************************************************)
EXTENDS PropertyToken, PropertyShares, Bridge, Fees, ComplianceRegistry, ZkCompliance,
        Oracle, AIValuation, Metadata, Fractional

VARIABLE focus \* the contract this behaviour is about

MCOpConfigs == {[base |-> 3, min |-> 2, max |-> 3]}
MCDefaultRules == [level |-> 3, retention |-> 2]
MCRules == {MCDefaultRules, [level |-> 4, retention |-> 0]}
MCDocuments == {[document |-> 2, biometric |-> 1, score |-> 50],
                [document |-> 2, biometric |-> 2, score |-> 90]}
MCFactors == {[count |-> 0, funds |-> TRUE], [count |-> 1, funds |-> FALSE],
              [count |-> 3, funds |-> TRUE]}
MCSourceConfigs == {[kind |-> "Feed", weight |-> 3, active |-> TRUE],
                    [kind |-> "Manual", weight |-> 1, active |-> TRUE],
                    [kind |-> "AIModel", weight |-> 1, active |-> FALSE]}
MCModelConfigs == {[accuracy |-> 4000, weight |-> 1, active |-> TRUE],
                   [accuracy |-> 9000, weight |-> 0, active |-> FALSE],
                   [accuracy |-> 12000, weight |-> 2, active |-> TRUE]}
MCFirstLimits == [file |-> 2, count |-> 2, pinned |-> 2]
MCLimits == {[file |-> 1, count |-> 1, pinned |-> 3]}

MCInit ==
  /\ now = 0
  /\ focus \in {"token", "shares", "bridge", "fees", "registry", "zk", "oracle", "engine",
                "metadata", "fractional"}
  /\ TokenInit /\ SharesInit /\ BridgeInit /\ FeesInit /\ RegistryInit /\ ZkInit
  /\ OracleInit /\ EngineInit /\ MetadataInit /\ FractionalInit

\* The bridge is followed for MaxTime, the others that have a clock for one unit.
Tick1 == now < 1 /\ Tick

\* Compliance of a token and new code are followed while a request can be opened.
TokenBound ==
  /\ Len(transfers) = MaxTokenRequests /\ Len(verified') = Len(verified) => verified' = verified
  /\ codeDue' \notin {codeDue, None} => halt = Cleared /\ Len(transfers) < MaxTokenRequests

\* Votes read neither dividends nor compliance.
SharesBound ==
  proposal' # NoAsk => compliant' = Holders /\ perShare' = 0

\* Reputations move before valuations and of one source, the breaker before
\* both, and sources while it is cleared.
OracleBound ==
  LET untouched == \A s \in Sources : reputation[s] = RepStart
      before == valuation = None /\ asked = None
  IN  /\ sourceVars' # sourceVars => freeze = Cleared
      /\ reputation' # reputation =>
           before /\ Cardinality({s \in Sources : reputation'[s] # RepStart}) <= 1
      /\ askedCount' # askedCount => untouched
      /\ freeze' # freeze => before /\ untouched

MCNext ==
  /\ UNCHANGED focus
  /\ \/ /\ focus = "token" /\ TokenStep /\ TokenBound /\ now' <= 1
        /\ UNCHANGED <<shareVars, bridgeVars, feeVars, registryVars, zkVars, oracleVars,
                       engineVars, metadataVars, fractionalVars>>
     \/ /\ focus = "bridge" /\ BridgeStep
        /\ UNCHANGED <<allTokenVars, shareVars, feeVars, registryVars, zkVars, oracleVars,
                       engineVars, metadataVars, fractionalVars>>
     \/ /\ focus = "oracle" /\ OracleStep /\ OracleBound /\ now' <= 1
        /\ UNCHANGED <<allTokenVars, shareVars, bridgeVars, feeVars, registryVars, zkVars,
                       engineVars, metadataVars, fractionalVars>>
     \/ /\ focus = "engine" /\ EngineStep /\ now' <= 1
        /\ UNCHANGED <<allTokenVars, shareVars, bridgeVars, feeVars, registryVars, zkVars,
                       oracleVars, metadataVars, fractionalVars>>
     \/ /\ focus = "shares" /\ SharesNext /\ SharesBound
        /\ UNCHANGED <<now, allTokenVars, bridgeVars, feeVars, registryVars, zkVars, oracleVars,
                       engineVars, metadataVars, fractionalVars>>
     \/ /\ focus = "metadata" /\ MetadataNext
        /\ UNCHANGED <<now, allTokenVars, shareVars, bridgeVars, feeVars, registryVars, zkVars,
                       oracleVars, engineVars, fractionalVars>>
     \/ /\ focus = "fractional" /\ FractionalNext
        /\ UNCHANGED <<now, allTokenVars, shareVars, bridgeVars, feeVars, registryVars, zkVars,
                       oracleVars, engineVars, metadataVars>>
     \/ /\ focus = "fees"
        /\ (FeesNext /\ UNCHANGED now) \/ (Tick1 /\ UNCHANGED feeVars)
        /\ UNCHANGED <<allTokenVars, shareVars, bridgeVars, registryVars, zkVars, oracleVars,
                       engineVars, metadataVars, fractionalVars>>
     \/ /\ focus = "registry"
        /\ (RegistryNext /\ UNCHANGED now) \/ (Tick1 /\ UNCHANGED registryVars)
        /\ UNCHANGED <<allTokenVars, shareVars, bridgeVars, feeVars, zkVars, oracleVars,
                       engineVars, metadataVars, fractionalVars>>
     \/ /\ focus = "zk"
        /\ (ZkNext /\ UNCHANGED now) \/ (Tick1 /\ UNCHANGED zkVars)
        /\ UNCHANGED <<allTokenVars, shareVars, bridgeVars, feeVars, registryVars, oracleVars,
                       engineVars, metadataVars, fractionalVars>>

MCVars == <<now, focus, allTokenVars, shareVars, bridgeVars, feeVars, registryVars, zkVars,
            oracleVars, engineVars, metadataVars, fractionalVars>>
MCSpec == MCInit /\ [][MCNext]_MCVars

\* Shares are neither made nor lost by what moves them, in the two contracts
\* that keep shares: transfers, asks with their escrow, purchases, burns.
ShareLedgersBalance == SharesAccounted /\ SupplyIsHeld
=============================================================================
