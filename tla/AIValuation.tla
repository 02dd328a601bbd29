----------------------------- MODULE AIValuation -----------------------------
(***************************************************************************)
(* The ink! AI valuation engine (contracts/ai-valuation/src/lib.rs), built  *)
(* with its zk feature: models, the features cached for a property, the     *)
(* predictions kept of it, generated or proved, and the ensemble.  Training *)
(* data, pipelines, versions, drift results, A/B tests and performance are  *)
(* stored for readers outside and left out.                                 *)
(***************************************************************************)
EXTENDS BreakerOps, Ledger, SequencesExt

CONSTANTS
  Models,           \* the three models of the ensemble, and others
  Ensemble,         \* the ids that ensemble_predict names
  ModelConfigs,     \* [accuracy, weight, active] offered
  Homes,            \* property ids
  ProvedValues,     \* values that a proof may be about
  Engineer,         \* the admin, who is governance too
  MinConfidence, BiasThreshold,  \* 7000, 2000
  MaxPredictions, MaxCommitments  \* bounds

ASSUME EngineAssumption ==
  /\ Homes \subseteq Nat /\ MinConfidence \in Nat /\ ProvedValues \subseteq Nat
  /\ ModelConfigs \subseteq [accuracy : Nat, weight : Nat, active : BOOLEAN]
  /\ Ensemble \subseteq Models /\ IsFiniteSet(Ensemble)

VARIABLES
  models,       \* models
  featured,     \* property_features: for which properties they are cached
  predictions,  \* predictions by property
  commitments,  \* version of each model_vks record, 0 for none
  brake         \* circuit_breaker

engineVars == <<models, featured, predictions, commitments, brake>>

EngineInit ==
  /\ models = [m \in Models |-> None] /\ featured = {}
  /\ predictions = [h \in Homes |-> <<>>]
  /\ commitments = [m \in Models |-> 0] /\ brake = Cleared

EngineOpen == ~IsPaused(brake, now) /\ brake' = SyncResult(brake, now)

\* generate_mock_features; nothing else writes the cache.
Features(h) ==
  LET base == h % 1000
  IN  [location |-> 500 + (base % 500), size |-> 100 + (h % 300),
       condition |-> 60 + (base % 40), amenities |-> 50 + (base % 50),
       trend |-> (base % 200) - 100, comparable |-> 500000 + (h * 1000),
       economic |-> 40 + (base % 60)]

\* A falling market adds what is left of the base instead of taking from it.
PredictedValue(f) ==
  LET base == f.comparable
      market == IF f.trend >= 0 THEN (f.trend * base) \div 10000
                ELSE base - (-f.trend * base) \div 10000
  IN  base + (f.location * base) \div 1000000 + f.size * 1000
      + (f.condition * base) \div 10000 + market

\* Mutant: the confidence is not capped.
Confidence_Uncapped(model, f) ==
  (model.accuracy * ((f.location + f.condition + f.amenities + f.economic) \div 4)) \div 100

Confidence(model, f) ==
  LET score == (model.accuracy * ((f.location + f.condition + f.amenities + f.economic) \div 4))
                 \div 100
  IN  IF score > 10000 THEN 10000 ELSE score

Bias(f) == IF f.location > 800 THEN 1500 ELSE 500

Prediction(value, confidence, bias, proved) ==
  [value |-> value, low |-> value - value \div 10, high |-> value + value \div 10,
   confidence |-> confidence, bias |-> bias, fairness |-> 10000 - bias, proved |-> proved]

GeneratePrediction(m, h) ==
  Prediction(PredictedValue(Features(h)), Confidence(models[m], Features(h)),
             Bias(Features(h)), FALSE)

IsActive(m) == models[m] # None /\ models[m].active

-----------------------------------------------------------------------------
(* Operations.                                                             *)

RegisterModel(m, c) ==
  /\ EngineOpen /\ c.accuracy <= 10000
  /\ models' = [models EXCEPT ![m] = c]
  /\ UNCHANGED <<featured, predictions, commitments>>

\* update_model: of any accuracy.
UpdateModel(m, c) ==
  /\ EngineOpen /\ models[m] # None
  /\ models' = [models EXCEPT ![m] = c]
  /\ UNCHANGED <<featured, predictions, commitments>>

ExtractFeatures(h) ==
  /\ EngineOpen /\ featured' = featured \union {h}
  /\ UNCHANGED <<models, predictions, commitments>>

PredictValuation(h, m) ==
  LET q == GeneratePrediction(m, h)
  IN  /\ EngineOpen /\ IsActive(m)
      /\ q.confidence >= MinConfidence /\ q.bias <= BiasThreshold
      /\ featured' = featured \union {h}
      /\ predictions' = [predictions EXCEPT ![h] = Append(@, q)]
      /\ UNCHANGED <<models, commitments>>

\* The members whose confidence suffices; their bias is not looked at.
Members(h) == {m \in Ensemble : IsActive(m) /\ Confidence(models[m], Features(h)) >= MinConfidence}

EnsembleValue(h) ==
  LET value == PredictedValue(Features(h))
      weight == SumFunctionOnSet([m \in Members(h) |-> models[m].weight], Members(h))
      sum == SumFunctionOnSet([m \in Members(h) |-> value * models[m].weight], Members(h))
  IN  IF weight > 0 THEN sum \div weight
      ELSE (value * Cardinality(Members(h))) \div Cardinality(Members(h))

\* ensemble_predict: what it returns is not kept.
EnsemblePredict(h) ==
  /\ EngineOpen /\ Members(h) # {}
  /\ featured' = featured \union {h}
  /\ UNCHANGED <<models, predictions, commitments>>

RegisterModelCommitment(m) ==
  /\ EngineOpen /\ models[m] # None
  /\ commitments' = [commitments EXCEPT ![m] = @ + 1]
  /\ UNCHANGED <<models, featured, predictions>>

\* verify_model_execution_zk of a valid proof, by anyone; an inactive model
\* will do, and its accuracy is taken for the confidence.
VerifyModelExecution(h, m, value) ==
  /\ EngineOpen /\ models[m] # None /\ commitments[m] > 0
  /\ predictions' = [predictions EXCEPT ![h] =
       Append(@, Prediction(value, models[m].accuracy, 0, TRUE))]
  /\ UNCHANGED <<models, featured, commitments>>

EngineBreakerStep ==
  /\ \/ brake' = EmergencyResult(brake, now, Engineer)
     \/ ResumeSchedules(brake, now) /\ brake' = ResumeScheduledResult(brake, now)
     \/ ResumeCompletes(brake, now) /\ brake' = Cleared
  /\ UNCHANGED <<models, featured, predictions, commitments>>

EngineNext ==
  \/ \E m \in Models :
       \/ \E c \in ModelConfigs : RegisterModel(m, c) \/ UpdateModel(m, c)
       \/ commitments[m] < MaxCommitments /\ RegisterModelCommitment(m)
       \/ \E h \in Homes :
            /\ Len(predictions[h]) < MaxPredictions
            /\ \/ PredictValuation(h, m)
               \/ \E n \in ProvedValues : VerifyModelExecution(h, m, n)
  \/ \E h \in Homes : ExtractFeatures(h) \/ EnsemblePredict(h)
  \/ EngineBreakerStep

EngineStep == (EngineNext /\ UNCHANGED now) \/ (Tick /\ UNCHANGED engineVars)

EngineSpec == now = 0 /\ EngineInit /\ [][EngineStep]_<<now, engineVars>>

-----------------------------------------------------------------------------
\* Predictions can be reproduced and trusted: what a model generated is what
\* the features cached for the property give, the same for every model, with
\* a confidence between the threshold and 10000 although a model's accuracy
\* may be anything, and what was not generated was proved for a model that
\* has a commitment.  An ensemble says nothing else.
PredictionsAreReproducible ==
  \A h \in Homes :
    /\ \A i \in DOMAIN predictions[h] :
         LET q == predictions[h][i]
         IN  IF q.proved THEN \E m \in Models : commitments[m] > 0
             ELSE /\ h \in featured /\ q.value = PredictedValue(Features(h))
                  /\ q.confidence \in MinConfidence .. 10000
                  /\ q.fairness = 10000 - Bias(Features(h)) /\ q.bias <= BiasThreshold
                  /\ q.value \in q.low .. q.high
    /\ Members(h) # {} => EnsembleValue(h) = PredictedValue(Features(h))
=============================================================================
