-------------------------------- MODULE Fees --------------------------------
(***************************************************************************)
(* The ink! fee manager (contracts/fees/src/lib.rs): fees that follow      *)
(* congestion, what is collected and handed to validators, and auctions of *)
(* premium listings, in which no money moves: a bid is a number.           *)
(***************************************************************************)
EXTENDS Ledger, Sequences, FiniteSetsExt

CONSTANTS
  Collectors,       \* accounts that bid and may be validators
  Nobody,           \* None of current_bidder and operation_config
  FeeAmounts,       \* amounts recorded as collected
  Bids,             \* bids offered
  MinBid, BidTime,  \* of the auctions created
  BaseFee, MinFee, MaxFee,  \* of the default config
  OpConfigs,        \* configs offered to set_operation_config
  Rates,            \* validator_share_bp offered, out of 10000 with the treasury's
  CongestionWindow, \* CONGESTION_WINDOW
  Window,           \* window_secs
  MaxCollected, MaxAuctions  \* bounds

ASSUME FeesAssumption ==
  /\ MinFee \in Nat /\ MaxFee \in Nat /\ MinFee <= MaxFee /\ BaseFee \in Nat
  /\ IsFiniteSet(Collectors) /\ Nobody \notin Collectors
  /\ MinBid \in Nat /\ BidTime \in Nat /\ Window \in Nat
  /\ FeeAmounts \subseteq Nat /\ Bids \subseteq Nat /\ Rates \subseteq Nat
  /\ CongestionWindow \in Nat \ {0}
  /\ OpConfigs \subseteq [base : Nat, min : Nat, max : Nat] /\ Nobody \notin OpConfigs

VARIABLES
  base,         \* default_config.base_fee
  opConfig,     \* operation_config of the premium listings
  opsCount,     \* recent_ops_count
  opsSince,     \* last_congestion_reset
  treasury,     \* fee_treasury
  collected,    \* total_fees_collected
  distributed,  \* total_distributed
  rewards,      \* pending_rewards
  validators,   \* validator_list
  rate,         \* validator_share_bp
  auctions,     \* PremiumAuction with its auction_bids
  claimed       \* history: rewards claimed

configVars == <<base, opConfig, rate, validators>>
opsVars == <<opsCount, opsSince>>
moneyVars == <<treasury, collected, distributed, rewards, claimed>>
feeVars == <<configVars, opsVars, moneyVars, auctions>>

FeesInit ==
  /\ base = BaseFee /\ opConfig = Nobody /\ rate = 5000 /\ validators = {}
  /\ opsCount = 0 /\ opsSince = now
  /\ treasury = 0 /\ collected = 0 /\ distributed = 0 /\ claimed = 0
  /\ rewards = [c \in Collectors |-> 0]
  /\ auctions = <<>>

Smaller(x, y) == IF x < y THEN x ELSE y
Larger(x, y) == IF x > y THEN x ELSE y

CongestionIndex ==
  IF now - opsSince > Window THEN 0 ELSE Smaller((opsCount * 100) \div CongestionWindow, 100)

\* demand_factor_bp, of the default config's 500.
DemandFactor == (500 * CongestionIndex) \div 100

\* compute_dynamic_fee, with a sensitivity of 80 and a multiplier of up to 300.
DynamicFee(c) ==
  LET congestion == (CongestionIndex * 80 * 200) \div 10000
      scaled == (c.base * (10000 + congestion + Smaller(DemandFactor, 5000))) \div 10000
  IN  Smaller(Larger(scaled, c.min), c.max)

CalculateFee ==
  DynamicFee(IF opConfig = Nobody THEN [base |-> base, min |-> MinFee, max |-> MaxFee]
             ELSE opConfig)

\* record_fee_collected, of any amount, by anyone; collect_fee takes the
\* amount with the call.
RecordFee(amount) ==
  /\ IF now - opsSince > Window THEN opsSince' = now /\ opsCount' = 1
     ELSE opsCount' = Smaller(opsCount + 1, CongestionWindow) /\ UNCHANGED opsSince
  /\ treasury' = treasury + amount /\ collected' = collected + amount
  /\ UNCHANGED <<configVars, distributed, rewards, claimed, auctions>>

UpdateFeeParams ==
  /\ base' = CASE CongestionIndex > 70 -> Smaller((base * 105) \div 100, MaxFee)
               [] CongestionIndex < 30 -> Larger((base * 95) \div 100, MinFee)
               [] OTHER -> base
  /\ UNCHANGED <<opConfig, rate, validators, opsVars, moneyVars, auctions>>

SetOperationConfig(c) ==
  /\ c.min <= c.max /\ c.base >= c.min
  /\ opConfig' = c
  /\ UNCHANGED <<base, rate, validators, opsVars, moneyVars, auctions>>

-----------------------------------------------------------------------------
(* Auctions.                                                               *)

\* The fee is booked; no value comes with the call.
CreateAuction ==
  /\ treasury' = treasury + CalculateFee /\ collected' = collected + CalculateFee
  /\ auctions' = Append(auctions,
       [bid |-> 0, bidder |-> Nobody, end |-> now + BidTime, settled |-> FALSE,
        bids |-> [c \in Collectors |-> 0]])
  /\ UNCHANGED <<configVars, opsVars, distributed, rewards, claimed>>

\* Mutant: a bid has to reach the minimum only.
PlaceBid_NoRaise(c, id, amount) ==
  /\ ~auctions[id].settled /\ now < auctions[id].end
  /\ amount >= MinBid
  /\ auctions' = [auctions EXCEPT ![id].bid = amount, ![id].bidder = c, ![id].bids[c] = amount]
  /\ UNCHANGED <<configVars, opsVars, moneyVars>>

PlaceBid(c, id, amount) ==
  /\ ~auctions[id].settled /\ now < auctions[id].end
  /\ amount >= MinBid /\ amount > auctions[id].bid
  /\ auctions' = [auctions EXCEPT ![id].bid = amount, ![id].bidder = c, ![id].bids[c] = amount]
  /\ UNCHANGED <<configVars, opsVars, moneyVars>>

SettleAuction(id) ==
  /\ ~auctions[id].settled /\ now >= auctions[id].end
  /\ auctions[id].bidder # Nobody
  /\ auctions' = [auctions EXCEPT ![id].settled = TRUE]
  /\ UNCHANGED <<configVars, opsVars, moneyVars>>

-----------------------------------------------------------------------------
(* Distribution.                                                           *)

AddValidator(c) ==
  /\ validators' = validators \union {c}
  /\ UNCHANGED <<base, opConfig, rate, opsVars, moneyVars, auctions>>

RemoveValidator(c) ==
  /\ validators' = validators \ {c}
  /\ UNCHANGED <<base, opConfig, rate, opsVars, moneyVars, auctions>>

SetDistributionRates(bp) ==
  /\ bp <= 10000
  /\ rate' = bp
  /\ UNCHANGED <<base, opConfig, validators, opsVars, moneyVars, auctions>>

PerValidator == ((treasury * rate) \div 10000) \div Cardinality(validators)

\* Mutant: the treasury is not reset.
DistributeFees_TreasuryKept ==
  /\ treasury > 0
  /\ IF validators = {} THEN UNCHANGED <<rewards, distributed>>
     ELSE /\ rewards' = [c \in Collectors |->
               rewards[c] + IF c \in validators THEN PerValidator ELSE 0]
          /\ distributed' = distributed + PerValidator * Cardinality(validators)
  /\ UNCHANGED <<configVars, opsVars, collected, claimed, auctions, treasury>>

\* distribute_fees: the treasury's own share and the remainders are gone.
DistributeFees ==
  /\ treasury > 0
  /\ IF validators = {} THEN UNCHANGED <<rewards, distributed>>
     ELSE /\ rewards' = [c \in Collectors |->
               rewards[c] + IF c \in validators THEN PerValidator ELSE 0]
          /\ distributed' = distributed + PerValidator * Cardinality(validators)
  /\ treasury' = 0
  /\ UNCHANGED <<configVars, opsVars, collected, claimed, auctions>>

\* claim_rewards: an event; nothing is transferred.
ClaimFeeRewards(c) ==
  /\ rewards[c] > 0
  /\ rewards' = [rewards EXCEPT ![c] = 0] /\ claimed' = claimed + rewards[c]
  /\ UNCHANGED <<configVars, opsVars, treasury, collected, distributed, auctions>>

FeesNext ==
  \/ \E n \in FeeAmounts : collected + n <= MaxCollected /\ RecordFee(n)
  \/ UpdateFeeParams \/ DistributeFees
  \/ \E c \in OpConfigs : SetOperationConfig(c)
  \/ Len(auctions) < MaxAuctions /\ collected + CalculateFee <= MaxCollected /\ CreateAuction
  \/ \E c \in Collectors :
       \/ AddValidator(c) \/ RemoveValidator(c) \/ ClaimFeeRewards(c)
       \/ \E id \in DOMAIN auctions, n \in Bids : PlaceBid(c, id, n)
  \/ \E id \in DOMAIN auctions : SettleAuction(id)
  \/ \E bp \in Rates : SetDistributionRates(bp)

FeesStep == (FeesNext /\ UNCHANGED now) \/ (Tick /\ UNCHANGED feeVars)

FeesSpec == now = 0 /\ FeesInit /\ [][FeesStep]_<<now, feeVars>>

-----------------------------------------------------------------------------
\* What validators were credited they have or have claimed, and it was
\* collected: whatever joins, removals, rate changes and distributions
\* happen in between, no collected unit is handed out twice.
RewardsAreFunded ==
  /\ distributed = claimed + SumFunctionOnSet(rewards, Collectors)
  /\ distributed + treasury <= collected

\* The bidder an auction is settled to is the one with the highest bid on record.
WinnerIsHighest ==
  \A id \in DOMAIN auctions :
    LET a == auctions[id]
    IN  IF a.bidder = Nobody THEN ~a.settled
        ELSE a.bid = a.bids[a.bidder] /\ \A c \in Collectors : a.bids[c] <= a.bid

FeesAreHonest == RewardsAreFunded /\ WinnerIsHighest
=============================================================================
