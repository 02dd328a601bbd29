---------------------------- MODULE MCInsurance ----------------------------
(***************************************************************************)
(* Two parts of the ink! insurance contract, one behaviour at a time: its   *)
(* policies and claims (two users, one property, one policy, two claims),   *)
(* or one of its pools with two providers, with and without vesting, and    *)
(* stakes that do not divide the premiums.  The parts share the clock only, *)
(* so a behaviour of both is a behaviour of each.                           *)
(***************************************************************************)
EXTENDS Insurance, ProviderPool, TLC

VARIABLE focus \* the part this behaviour is about

MCTreaties == {[limit |-> 30, retention |-> 20, duration |-> 1]}
MCTerms == {NoTerms, [cliff |-> 1, duration |-> 2, penalty |-> 5000]}

Symmetry == Permutations(Providers)

MCInit == InsuranceInit /\ ProviderInit /\ focus \in {"policies", "providers"}

\* Scores and treaties come before policies, and treaties, whose operations the
\* breaker does not guard, are followed apart from the breaker.  Once all claims
\* are filed the breaker is only synchronised.
Apart ==
  /\ assessment' # assessment \/ Len(treaties') > Len(treaties) => policies = <<>>
  /\ treaties' # <<>> => breaker' = Cleared
  /\ Len(claims) = MaxClaims /\ UNCHANGED <<pool, policyVars, claims>> => breaker' = breaker

MCNext ==
  /\ UNCHANGED focus
  /\ \/ focus = "policies" /\ InsuranceNext /\ Apart /\ UNCHANGED providerVars
     \/ focus = "providers" /\ ProviderStep
        /\ UNCHANGED <<pool, policyVars, claims, limitVars, otherVars>>

MCVars == <<insuranceVars, providerVars, focus>>
MCSpec == MCInit /\ [][MCNext]_MCVars
=============================================================================
