------------------------------ MODULE Fractional ------------------------------
(***************************************************************************)
(* The ink! fractional ledger (contracts/fractional/src/lib.rs), of one     *)
(* token: shares minted, burned and moved between accounts that passed KYC, *)
(* and dividends per share, of which only the number is returned.  Prices,  *)
(* portfolios and tax reports are left out.                                 *)
(***************************************************************************)
EXTENDS Ledger, FiniteSetsExt

CONSTANTS
  Partners,         \* accounts that hold shares
  FractionAdmin,
  ShareAmounts,     \* amounts offered
  Payments,         \* dividends offered
  U128Max           \* u128::MAX (small, so that TLC reaches the wrap)

ASSUME FractionalAssumption ==
  /\ IsFiniteSet(Partners) /\ U128Max \in Nat
  /\ ShareAmounts \subseteq Nat /\ Payments \subseteq Nat

VARIABLES
  balances,     \* balances
  minted,       \* total_supply
  minter,       \* whether authorized_minters names one
  kyc,          \* kyc_passed
  dividendPerShare,     \* dividend_per_share
  lastClaimed,  \* last_claimed_dividend_per_share
  doubled       \* history: what transfers to oneself added

fractionalVars == <<balances, minted, minter, kyc, dividendPerShare, lastClaimed, doubled>>
rightVars == <<minter, kyc>>
payoutVars == <<dividendPerShare, lastClaimed>>

FractionalInit ==
  /\ balances = [p \in Partners |-> 0] /\ minted = 0 /\ minter = FALSE /\ kyc = {}
  /\ dividendPerShare = 0 /\ lastClaimed = [p \in Partners |-> 0] /\ doubled = 0

Mint(p, n) ==
  /\ minter /\ n # 0 /\ balances[p] + n <= U128Max /\ minted + n <= U128Max
  /\ balances' = [balances EXCEPT ![p] = @ + n] /\ minted' = minted + n
  /\ UNCHANGED <<rightVars, payoutVars, doubled>>

\* Mutant: the supply is not reduced.
Burn_SupplyKept(by, p, n) ==
  /\ by \in {p, FractionAdmin} /\ n # 0 /\ balances[p] >= n
  /\ balances' = [balances EXCEPT ![p] = @ - n]
  /\ UNCHANGED <<minted, rightVars, payoutVars, doubled>>

\* The supply is subtracted from unchecked.
Burn(by, p, n) ==
  /\ by \in {p, FractionAdmin} /\ n # 0 /\ balances[p] >= n
  /\ balances' = [balances EXCEPT ![p] = @ - n]
  /\ minted' = (minted - n) % (U128Max + 1)
  /\ UNCHANGED <<rightVars, payoutVars, doubled>>

\* transfer: both balances are read before either is written.
TransferFraction(from, to, n) ==
  /\ {from, to} \subseteq kyc /\ n # 0 /\ balances[from] >= n /\ balances[to] + n <= U128Max
  /\ balances' = [balances EXCEPT ![from] = balances[from] - n, ![to] = balances[to] + n]
  /\ doubled' = doubled + IF from = to THEN n ELSE 0
  /\ UNCHANGED <<minted, rightVars, payoutVars>>

DistributeDividends(total) ==
  /\ minter /\ minted # 0 /\ dividendPerShare + total \div minted <= U128Max
  /\ dividendPerShare' = dividendPerShare + total \div minted
  /\ UNCHANGED <<balances, minted, rightVars, lastClaimed, doubled>>

ClaimDividends(p) ==
  /\ balances[p] # 0
  /\ lastClaimed' = [lastClaimed EXCEPT ![p] = dividendPerShare]
  /\ UNCHANGED <<balances, minted, rightVars, dividendPerShare, doubled>>

SetKyc(p, passed) ==
  /\ kyc' = IF passed THEN kyc \union {p} ELSE kyc \ {p}
  /\ UNCHANGED <<balances, minted, minter, payoutVars, doubled>>

SetAuthorizedMinter ==
  minter' = TRUE /\ UNCHANGED <<balances, minted, kyc, payoutVars, doubled>>

FractionalNext ==
  \/ \E p \in Partners, n \in ShareAmounts :
       \/ Mint(p, n)
       \/ \E by \in Partners \union {FractionAdmin} : Burn(by, p, n)
       \/ \E to \in Partners : doubled < U128Max /\ TransferFraction(p, to, n)
  \/ \E n \in Payments : DistributeDividends(n)
  \/ \E p \in Partners : ClaimDividends(p) \/ \E passed \in BOOLEAN : SetKyc(p, passed)
  \/ SetAuthorizedMinter

FractionalSpec == FractionalInit /\ [][FractionalNext]_fractionalVars

-----------------------------------------------------------------------------
\* The supply is what the partners hold but for the shares that transfers to
\* oneself made, whatever is minted, burned and moved; the claim of a partner
\* never runs ahead of what was distributed.
SupplyIsHeld ==
  /\ (minted + doubled - SumFunctionOnSet(balances, Partners)) % (U128Max + 1) = 0
  /\ \A p \in Partners : lastClaimed[p] <= dividendPerShare
=============================================================================
