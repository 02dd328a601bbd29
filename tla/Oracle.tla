-------------------------------- MODULE Oracle --------------------------------
(***************************************************************************)
(* The ink! valuation oracle (contracts/oracle/src/lib.rs), for one         *)
(* property: the sources with their weights and reputations, the price      *)
(* collected from them, filtered and averaged, the valuations of the admin  *)
(* and of ZK attestations, and the history.  Every price is as fresh as the *)
(* call that collects it.  Alerts, trends and locations are left out: the   *)
(* first are events only, and nothing reads the others.                     *)
(***************************************************************************)
EXTENDS BreakerOps, Ledger, SequencesExt

CONSTANTS
  Sources,          \* ids of sources
  SourceConfigs,    \* [kind, weight, active] offered to add_oracle_source
  Oracles,          \* the admin, who is governance too
  FeedPrices,       \* what a feed may answer
  GivenPrices,      \* what the admin or an attestation may say
  Fallback,         \* the price of a feed that does not
  ManualPrice,      \* a manual source's price of a property without valuation
  Confidences,      \* confidence scores offered
  MinSources, OutlierThreshold, Staleness, HistoryCap,
  RepStart, RepUp, RepDown, RepMin, RepMax,  \* 500, 10, 50, 200, 1000
  FreezeLengths,
  MaxRequests       \* bound

ASSUME OracleAssumption ==
  /\ IsFiniteSet(Sources) /\ MinSources \in Nat /\ HistoryCap \in Nat \ {0}
  /\ SourceConfigs \subseteq [kind : {"Feed", "Manual", "AIModel"}, weight : Nat, active : BOOLEAN]
  /\ FeedPrices \subseteq Nat /\ GivenPrices \subseteq Nat /\ Confidences \subseteq Nat
  /\ Fallback \in Nat /\ ManualPrice \in Nat

VARIABLES
  sources,      \* oracle_sources
  active,       \* active_sources
  reputation,   \* source_reputations
  valuation,    \* property_valuations, with the range it was made of
  past,         \* historical_valuations
  asked,        \* pending_requests: when
  askedCount,   \* request_id_counter
  aiLinked,     \* ai_valuation_contract is set
  freeze        \* circuit_breaker

sourceVars == <<sources, active, reputation, aiLinked>>
valuationVars == <<valuation, past>>
oracleVars == <<sourceVars, valuationVars, asked, askedCount, freeze>>

OracleInit ==
  /\ sources = [s \in Sources |-> None] /\ active = {}
  /\ reputation = [s \in Sources |-> RepStart] /\ aiLinked = FALSE
  /\ valuation = None /\ past = <<>> /\ asked = None /\ askedCount = 0
  /\ freeze = Cleared

OracleOpen == ~IsPaused(freeze, now) /\ freeze' = SyncResult(freeze, now)

-----------------------------------------------------------------------------
(* Aggregation; prices is a function from sources.                         *)

Total(f) == SumFunctionOnSet(f, DOMAIN f)
Distance(x, y) == IF x > y THEN x - y ELSE y - x
Mean(prices) == Total(prices) \div Cardinality(DOMAIN prices)
Variance(prices) ==
  Total([s \in DOMAIN prices |-> Distance(prices[s], Mean(prices)) * Distance(prices[s], Mean(prices))])
    \div Cardinality(DOMAIN prices)

NewtonStep(v, x) == IF x > 0 THEN (x + v \div x) \div 2 ELSE x

\* The loop of filter_outliers, until a step no longer decreases.
NewtonRoot(v) ==
  LET root[x \in 0 .. v] == IF NewtonStep(v, x) >= x THEN x ELSE root[NewtonStep(v, x)]
  IN  root[v]

FilterOutliers(prices) ==
  IF Cardinality(DOMAIN prices) < 3 THEN DOMAIN prices
  ELSE {s \in DOMAIN prices : Distance(prices[s], Mean(prices))
                                <= NewtonRoot(Variance(prices)) * OutlierThreshold}

\* Mutant: the weighted sum is divided by the number of prices.
AggregatePrices_ByCount(prices) ==
  LET kept == FilterOutliers(prices)
      weight == Total([s \in kept |-> sources[s].weight])
  IN  IF kept = {} \/ weight = 0 THEN None
      ELSE Total([s \in kept |-> prices[s] * sources[s].weight]) \div Cardinality(kept)

\* None is an Err.
AggregatePrices(prices) ==
  LET kept == FilterOutliers(prices)
      weight == Total([s \in kept |-> sources[s].weight])
  IN  IF kept = {} \/ weight = 0 THEN None
      ELSE Total([s \in kept |-> prices[s] * sources[s].weight]) \div weight

\* calculate_confidence_score: at most 75 for the sources and 25 for how
\* little they vary, by a square root of five steps.
ConfidenceScore(prices) ==
  LET n == Cardinality(DOMAIN prices)
      v == Variance(prices)
      deviation == NewtonStep(v, NewtonStep(v, NewtonStep(v, NewtonStep(v, NewtonStep(v, v)))))
      cv == IF Mean(prices) > 0 THEN (deviation * 10000) \div Mean(prices) ELSE 10000
  IN  (IF n * 25 > 75 THEN 75 ELSE n * 25) + Monus(10000, cv) \div 400

\* What get_price_from_source can answer: a feed its price or, when it
\* fails, the fallback; the last valuation; nothing for a model not linked.
PricesOf(s) ==
  CASE sources[s].kind = "Feed" -> FeedPrices \union {Fallback}
    [] sources[s].kind = "Manual" -> {IF valuation = None THEN ManualPrice ELSE valuation.price}
    [] OTHER -> IF aiLinked THEN FeedPrices \union {Fallback} ELSE {}

Answering == {s \in active : sources[s] # None /\ PricesOf(s) # {}}

-----------------------------------------------------------------------------
(* Valuations.                                                             *)

\* update_property_valuation_inner, with store_historical_valuation.
StoreValuation(v) ==
  /\ past' = Append(IF Len(past) = HistoryCap THEN Tail(past) ELSE past, v)
  /\ valuation' = v

UpdateFromSources(prices) ==
  /\ OracleOpen
  /\ Cardinality(DOMAIN prices) >= MinSources
  /\ LET price == AggregatePrices(prices)
     IN  /\ price \notin {None, 0}
         /\ StoreValuation([price |-> price, confidence |-> ConfidenceScore(prices),
                            method |-> "MarketData",
                            low |-> Min(Range(prices)), high |-> Max(Range(prices))])
  /\ asked' = None
  /\ UNCHANGED <<sourceVars, askedCount>>

UpdatePropertyValuation(price, confidence) ==
  /\ OracleOpen /\ price # 0
  /\ StoreValuation([price |-> price, confidence |-> confidence, method |-> "Manual", low |-> price, high |-> price])
  /\ UNCHANGED <<sourceVars, asked, askedCount>>

\* submit_zk_valuation of a proof that the compliance contract verifies: by
\* anyone, with any confidence score, which the proof does not bind.
SubmitZkValuation(price, confidence) ==
  /\ OracleOpen /\ price # 0
  /\ StoreValuation([price |-> price, confidence |-> confidence, method |-> "Hybrid", low |-> price, high |-> price])
  /\ UNCHANGED <<sourceVars, asked, askedCount>>

RequestValuation ==
  /\ OracleOpen
  /\ IF asked = None THEN TRUE ELSE now - asked >= Staleness
  /\ asked' = now /\ askedCount' = askedCount + 1
  /\ UNCHANGED <<sourceVars, valuationVars>>

-----------------------------------------------------------------------------
(* Sources.                                                                *)

\* A source that is replaced by an inactive one stays in active_sources.
AddSource(s, c) ==
  /\ c.weight <= 100
  /\ sources' = [sources EXCEPT ![s] = c]
  /\ active' = IF c.active THEN active \union {s} ELSE active
  /\ UNCHANGED <<reputation, aiLinked, valuationVars, asked, askedCount, freeze>>

RemoveSource(s) ==
  /\ sources' = [sources EXCEPT ![s] = None] /\ active' = active \ {s}
  /\ UNCHANGED <<reputation, aiLinked, valuationVars, asked, askedCount, freeze>>

\* update_source_reputation; a failure is slash_source too, as no operation
\* ever gives a source a stake.
UpdateReputation(s, success) ==
  LET rep == IF success THEN (IF reputation[s] + RepUp > RepMax THEN RepMax ELSE reputation[s] + RepUp)
             ELSE Monus(reputation[s], RepDown)
      out == rep < RepMin /\ sources[s] # None
  IN  /\ reputation' = [reputation EXCEPT ![s] = rep]
      /\ sources' = IF out THEN [sources EXCEPT ![s].active = FALSE] ELSE sources
      /\ active' = IF out THEN active \ {s} ELSE active
      /\ UNCHANGED <<aiLinked, valuationVars, asked, askedCount, freeze>>

LinkAiModel ==
  aiLinked' = TRUE
  /\ UNCHANGED <<sources, active, reputation, valuationVars, asked, askedCount, freeze>>

OracleBreakerStep ==
  /\ \/ \E n \in FreezeLengths : PauseAccepted(freeze, now, n)
                                 /\ freeze' = PauseResult(freeze, now, n, Oracles)
     \/ freeze' = EmergencyResult(freeze, now, Oracles)
     \/ ResumeSchedules(freeze, now) /\ freeze' = ResumeScheduledResult(freeze, now)
     \/ ResumeCompletes(freeze, now) /\ freeze' = Cleared
  /\ UNCHANGED <<sourceVars, valuationVars, asked, askedCount>>

OracleNext ==
  \/ \E prices \in [Answering -> UNION {PricesOf(s) : s \in Answering}] :
       (\A s \in Answering : prices[s] \in PricesOf(s)) /\ UpdateFromSources(prices)
  \/ \E n \in GivenPrices, c \in Confidences :
       UpdatePropertyValuation(n, c) \/ SubmitZkValuation(n, c)
  \/ askedCount < MaxRequests /\ RequestValuation
  \/ \E s \in Sources :
       \/ \E c \in SourceConfigs : AddSource(s, c)
       \/ RemoveSource(s)
       \/ \E success \in BOOLEAN : UpdateReputation(s, success)
  \/ LinkAiModel \/ OracleBreakerStep

OracleStep == (OracleNext /\ UNCHANGED now) \/ (Tick /\ UNCHANGED oracleVars)

OracleSpec == now = 0 /\ OracleInit /\ [][OracleStep]_<<now, oracleVars>>

-----------------------------------------------------------------------------
\* What is reported is backed by what was collected: a market valuation lies
\* between the lowest and the highest price that its sources gave, whatever
\* their weights and whatever the filter took out, its confidence is a
\* percentage, and the history ends with the current valuation.
ValuationsAreBacked ==
  /\ valuation # None => Last(past) = valuation
  /\ Len(past) <= HistoryCap
  /\ \A i \in DOMAIN past : past[i].method = "MarketData" =>
       /\ past[i].price \in past[i].low .. past[i].high
       /\ past[i].confidence \in 0 .. 100
=============================================================================
