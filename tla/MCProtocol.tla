----------------------------- MODULE MCProtocol -----------------------------
(* Protocol with one provider, one voter and proposals of every kind.        *)
EXTENDS Protocol

MCCoverages    == {2}
MCClaimAmounts == {1}
MCAmounts      == {2}
MCZero         == {0}
MCOne          == {1}
MCThresholds   == {50}

Slash     == [kind |-> "Slashing", target |-> "p1", role |-> "provider", amount |-> 1]
Allocate  == [kind |-> "FundAllocation", recipient |-> "h1", amount |-> 1]
Approve   == [kind |-> "ClaimApproval", claim |-> 1]
Lower     == [kind |-> "PolicyChange", policy |-> 1,
              patch |-> [coverage |-> 1, premium |-> Keep, status |-> Keep]]
PauseAction == [kind |-> "PauseContract", duration |-> 1]

MCActions == {Slash, Allocate, Approve, Lower, PauseAction}
MCPatches == {Lower.patch}

RepositoryPool == {"initialize", "set_role", "deposit_liquidity",
                   "withdraw_liquidity", "payout_claim", "absorb_slash",
                   "get_pool_stats", "get_provider_info", "get_state_root",
                   "migrate", "version", "get_locked_capital"}
AdaptedPool    == RepositoryPool \union {"get_stats", "payout"}
RepositoryClaims == {"initialize", "set_role", "submit_claim", "start_review",
                     "approve_claim", "reject_claim", "settle_claim",
                     "get_claim", "get_state_root", "get_stats"}
AdaptedClaims  == RepositoryClaims \union {"approve"}
=============================================================================
