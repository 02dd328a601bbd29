--------------------------- MODULE PropertyShares ---------------------------
(***************************************************************************)
(* The shares of one property token (contracts/property-token/src/lib.rs): *)
(* issue and redemption, transfers, asks with their escrow, dividends and  *)
(* the holders' votes.  The breaker's guard and the bridge, which sets an  *)
(* owner's balance to 0 or 1, are in module PropertyToken.  Sums saturate  *)
(* at u128::MAX, far above these; a subtraction saturates at 0.            *)
(***************************************************************************)
EXTENDS Ledger, Sequences, FiniteSetsExt

CONSTANTS
  Holders,     \* accounts
  Issuer,      \* owner of the token
  NoAsk,       \* no ask stored
  Amounts,     \* amounts of shares offered to the messages
  Dividends,   \* values transferred with deposit_dividends
  AskPrices,   \* price_per_share
  Scaling,     \* the scaling of dividends_per_share
  MaxShares, MaxDividends  \* bounds

ASSUME SharesAssumption ==
  /\ IsFiniteSet(Holders) /\ Issuer \in Holders /\ Scaling \in Nat \ {0}
  /\ Amounts \subseteq Nat /\ AskPrices \subseteq Nat

VARIABLES
  shares,      \* balances of the token
  issued,      \* total_shares
  escrow,      \* escrowed_shares by seller
  asks,        \* asks by seller
  perShare,    \* dividends_per_share
  checkpoint,  \* dividend_checkpoint
  owed,        \* dividend_balance
  purse,       \* native balance of the contract
  proposal,    \* the token's proposal, or NoAsk before it is created
  compliant    \* accounts the compliance registry accepts

dividendVars == <<perShare, checkpoint, owed, purse>>
marketVars == <<escrow, asks>>
shareVars == <<shares, issued, marketVars, dividendVars, proposal, compliant>>

\* After register_property_with_token, which gives the owner a balance of one
\* that total_shares does not count.
SharesInit ==
  /\ shares = [h \in Holders |-> IF h = Issuer THEN 1 ELSE 0]
  /\ issued = 0
  /\ escrow = [h \in Holders |-> 0] /\ asks = [h \in Holders |-> NoAsk]
  /\ perShare = 0 /\ purse = 0
  /\ checkpoint = [h \in Holders |-> 0] /\ owed = [h \in Holders |-> 0]
  /\ proposal = NoAsk
  /\ compliant = Holders

\* update_dividend_credit_on_change for some accounts, with these balances.
Credit(who, balance) ==
  /\ owed' = [h \in Holders |->
       IF h \in who /\ perShare > checkpoint[h]
       THEN owed[h] + (balance[h] * (perShare - checkpoint[h])) \div Scaling ELSE owed[h]]
  /\ checkpoint' = [h \in Holders |-> IF h \in who THEN perShare ELSE checkpoint[h]]
  /\ UNCHANGED perShare

\* issue_shares and redeem_shares credit the balance they leave behind.
IssueShares(to, n) ==
  /\ n > 0
  /\ shares' = [shares EXCEPT ![to] = @ + n]
  /\ issued' = issued + n
  /\ Credit({to}, shares')
  /\ UNCHANGED <<marketVars, purse, proposal, compliant>>

RedeemShares(from, n) ==
  /\ n > 0 /\ shares[from] >= n
  /\ shares' = [shares EXCEPT ![from] = @ - n]
  /\ issued' = Monus(issued, n)
  /\ Credit({from}, shares')
  /\ UNCHANGED <<marketVars, purse, proposal, compliant>>

Move(from, to, n) == LET left == [shares EXCEPT ![from] = @ - n]
                     IN  [left EXCEPT ![to] = @ + n]

TransferShares(from, to, n) ==
  /\ n > 0 /\ {from, to} \subseteq compliant /\ shares[from] >= n
  /\ Credit({from, to}, shares)
  /\ shares' = Move(from, to, n)
  /\ UNCHANGED <<issued, marketVars, purse, proposal, compliant>>

\* safe_batch_transfer_from settles no dividends.
BatchTransfer(from, to, n) ==
  /\ {from, to} \subseteq compliant /\ shares[from] >= n
  /\ shares' = Move(from, to, n)
  /\ UNCHANGED <<issued, marketVars, dividendVars, proposal, compliant>>

DepositDividends(value) ==
  /\ value > 0 /\ issued > 0
  /\ perShare' = perShare + (value * Scaling) \div issued
  /\ purse' = purse + value
  /\ UNCHANGED <<shares, issued, marketVars, checkpoint, owed, proposal, compliant>>

\* withdraw_dividends; an account that is owed nothing still gets its checkpoint.
WithdrawDividends(h) ==
  LET due == owed[h] + IF perShare > checkpoint[h]
                       THEN (shares[h] * (perShare - checkpoint[h])) \div Scaling ELSE 0
  IN  /\ purse >= due
      /\ owed' = [owed EXCEPT ![h] = 0]
      /\ checkpoint' = [checkpoint EXCEPT ![h] = perShare]
      /\ purse' = purse - due
      /\ UNCHANGED <<shares, issued, marketVars, perShare, proposal, compliant>>

-----------------------------------------------------------------------------
(* The market.                                                             *)

\* A further ask replaces the stored one while the escrow adds up.
PlaceAsk(s, price, n) ==
  /\ price > 0 /\ n > 0 /\ shares[s] >= n
  /\ escrow' = [escrow EXCEPT ![s] = @ + n]
  /\ shares' = [shares EXCEPT ![s] = @ - n]
  /\ asks' = [asks EXCEPT ![s] = [price |-> price, amount |-> n]]
  /\ UNCHANGED <<issued, dividendVars, proposal, compliant>>

\* cancel_ask, which fails when the two do not agree.
CancelAsk(s) ==
  /\ asks[s] # NoAsk /\ escrow[s] = asks[s].amount
  /\ shares' = [shares EXCEPT ![s] = @ + asks[s].amount]
  /\ escrow' = [escrow EXCEPT ![s] = 0]
  /\ asks' = [asks EXCEPT ![s] = NoAsk]
  /\ UNCHANGED <<issued, dividendVars, proposal, compliant>>

\* Mutant: the ask keeps its amount.
BuyShares_AskKept(b, s, n) ==
  /\ n > 0 /\ asks[s] # NoAsk /\ n <= asks[s].amount
  /\ {b, s} \subseteq compliant /\ escrow[s] >= n
  /\ shares' = [shares EXCEPT ![b] = @ + n]
  /\ escrow' = [escrow EXCEPT ![s] = @ - n]
  /\ UNCHANGED <<asks, issued, dividendVars, proposal, compliant>>

\* buy_shares, with exactly the price in hand; it goes on to the seller.
BuyShares(b, s, n) ==
  /\ n > 0 /\ asks[s] # NoAsk /\ n <= asks[s].amount
  /\ {b, s} \subseteq compliant /\ escrow[s] >= n
  /\ shares' = [shares EXCEPT ![b] = @ + n]
  /\ escrow' = [escrow EXCEPT ![s] = @ - n]
  /\ asks' = IF n = asks[s].amount THEN [asks EXCEPT ![s] = NoAsk]
             ELSE [asks EXCEPT ![s].amount = @ - n]
  /\ UNCHANGED <<issued, dividendVars, proposal, compliant>>

-----------------------------------------------------------------------------
(* Votes.                                                                  *)

CreateShareProposal(quorum) ==
  /\ proposal' = [quorum |-> quorum, for |-> 0, against |-> 0, voted |-> {}, status |-> "Open"]
  /\ UNCHANGED <<shares, issued, marketVars, dividendVars, compliant>>

\* The weight is the balance of the moment; shares that move vote again.
VoteShares(h, support) ==
  /\ proposal # NoAsk /\ proposal.status = "Open" /\ h \notin proposal.voted
  /\ proposal' = [proposal EXCEPT !.voted = @ \union {h},
       !.for = @ + IF support THEN shares[h] ELSE 0,
       !.against = @ + IF support THEN 0 ELSE shares[h]]
  /\ UNCHANGED <<shares, issued, marketVars, dividendVars, compliant>>

\* By anyone, at any time.
ExecuteShareProposal ==
  /\ proposal # NoAsk /\ proposal.status = "Open"
  /\ proposal' = [proposal EXCEPT !.status =
       IF proposal.for >= proposal.quorum /\ proposal.for > proposal.against
       THEN "Executed" ELSE "Rejected"]
  /\ UNCHANGED <<shares, issued, marketVars, dividendVars, compliant>>

\* The registry changes its mind (module ComplianceRegistry).
ComplianceChanges(h) ==
  /\ compliant' = IF h \in compliant THEN compliant \ {h} ELSE compliant \union {h}
  /\ UNCHANGED <<shares, issued, marketVars, dividendVars, proposal>>

SharesNext ==
  \/ \E h \in Holders, n \in Amounts :
       \/ issued + n <= MaxShares /\ IssueShares(h, n)
       \/ RedeemShares(h, n)
       \/ \E p \in AskPrices : PlaceAsk(h, p, n)
       \/ \E other \in Holders \ {h} :
            TransferShares(h, other, n) \/ BatchTransfer(h, other, n) \/ BuyShares(other, h, n)
  \/ \E h \in Holders :
       \/ CancelAsk(h) \/ WithdrawDividends(h)
       \/ \E support \in BOOLEAN : VoteShares(h, support)
  \/ \E h \in Holders : ComplianceChanges(h)
  \/ \E v \in Dividends :
       purse + v <= MaxDividends /\ perShare < MaxDividends * Scaling /\ DepositDividends(v)
  \/ \E q \in Amounts : proposal = NoAsk /\ CreateShareProposal(q)   \* one proposal
  \/ ExecuteShareProposal

SharesSpec == SharesInit /\ [][SharesNext]_shareVars

-----------------------------------------------------------------------------
\* No share is made or lost by transfers, asks, purchases and cancellations:
\* what holders have and what is in escrow is what was issued, and the one
\* unit a token's owner starts with.
SharesExplained ==
  SumFunctionOnSet(shares, Holders) + SumFunctionOnSet(escrow, Holders) - issued \in {0, 1}

\* Every ask can be filled from its seller's escrow, whatever asks came before.
AskIsBacked == \A h \in Holders : asks[h] # NoAsk => asks[h].amount <= escrow[h]

SharesAccounted == SharesExplained /\ AskIsBacked
=============================================================================
