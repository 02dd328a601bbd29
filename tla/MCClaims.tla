------------------------------ MODULE MCClaims ------------------------------
(* Claims with one holder and one provider.  A u32 of one bit lets a renewal *)
(* wrap; amounts stay inside the i128 range.                                 *)
EXTENDS Claims

MCCoverages    == {4}
MCClaimAmounts == {2}
MCAmounts      == {2}
MCDurations    == {1}
MCPremiums     == {0}
Patch(coverage, premium, status) ==
  [coverage |-> coverage, premium |-> premium, status |-> status]
MCPatches      == {Patch(1, Keep, Keep), Patch(4, Keep, "Active"),
                   Patch(Keep, 0, "Renewed"), Patch(Keep, -1, "Expired"),
                   Patch(2, Keep, "Cancelled")}

\* What contracts/risk_pool exports, and the names settle_claim looks up.
RepositoryPool == {"initialize", "set_role", "deposit_liquidity",
                   "withdraw_liquidity", "payout_claim", "absorb_slash",
                   "get_pool_stats", "get_provider_info", "get_state_root",
                   "migrate", "version", "get_locked_capital"}
AdaptedPool == RepositoryPool \union {"get_stats", "payout"}
=============================================================================
