---------------------------- MODULE MCContracts ----------------------------
(***************************************************************************)
(* Four Soroban contracts on their own, one behaviour at a time: the risk  *)
(* pool (two providers, one claimant, amounts from -1 to 2), slashing (one *)
(* target, a history of two entries and up to four violations, so that the *)
(* oldest are trimmed), governance (weights of both signs, thresholds on   *)
(* both sides of a simple majority) and the escrow (two people, committees *)
(* that include one that is too long).  They share the clock only, so a    *)
(* behaviour of all is a behaviour of each; Protocol composes the first    *)
(* three with policies and claims.                                         *)
(***************************************************************************)
EXTENDS RiskPool, Slashing, Governance, Escrow

CONSTANTS a, b  \* the two people of an escrow

VARIABLE focus \* the contract this behaviour is about

MCAmounts == -1 .. 2
MCCooldowns == {0, 2, 7}  \* none, one that matters, one that does not fit
MCWeights == {-1, 1, 2}
MCActions == {NoAction, [kind |-> "PauseContract", duration |-> 0],
              [kind |-> "PauseContract", duration |-> 1]}
VoteTime == 3             \* bound of the clock for governance
EscrowTime == 1           \* bound of the clock for the escrow
EscrowEnd == 2            \* bound of the end of its pauses
MCCommittees == {<<a, b>>, <<a, b, a>>}
MCEscrowAmounts == {0, 2}
MCDeposits == {-1, 1, 2}
MCRequired == {0, 2, 3}
MCLocks == {None, 1}

\* Whether an old contract is to be migrated matters to that contract only; an
\* old escrow contract is migrated before its last escrow.
MCInit ==
  /\ PoolInit /\ SlashInit /\ GovInit /\ EscrowInit
  /\ focus \in {"pool", "slashing", "governance", "escrow"}
  /\ focus # "pool" => poolVersion = 2
  /\ focus # "escrow" => storage.version = 2

MCNext ==
  /\ UNCHANGED focus
  /\ \/ focus = "pool" /\ PoolNext /\ UNCHANGED <<now, slashVars, govVars, escrowVars>>
     \/ focus = "slashing" /\ SlashStep /\ UNCHANGED <<poolVars, govVars, escrowVars>>
     \/ focus = "governance" /\ GovStep /\ now' <= VoteTime
        /\ UNCHANGED <<poolVars, slashVars, escrowVars>>
     \/ focus = "escrow" /\ EscrowStep /\ now' <= EscrowTime
        /\ escrowBreaker'.pause_until \in {None} \union 0 .. EscrowEnd
        /\ (Len(escrows') = MaxEscrows => storage'.version = 2)
        /\ UNCHANGED <<poolVars, slashVars, govVars>>

MCVars == <<now, focus, poolVars, slashVars, govVars, escrowVars>>
MCSpec == MCInit /\ [][MCNext]_MCVars
=============================================================================
