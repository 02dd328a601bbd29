------------------------------ MODULE MCParts ------------------------------
(***************************************************************************)
(* The parts that share nothing with one another, one behaviour at a time: *)
(* the circuit breaker on its own (one governor, one admin, nine ticks);   *)
(* of the Rust API sessions over their token store, recovery over the      *)
(* store of its caller, pages, and amounts; of the NestJS API its requests, *)
(* by what they are about.  A behaviour of all is a behaviour of each.     *)
(***************************************************************************)
EXTENDS CircuitBreaker, Sessions, Recovery, Paging, Amount, AuthRequests

\* Two names, one of them the beginning of the other.
MCReaders == {<<1>>, <<1, 2>>}
MCScope == <<1>>

VARIABLE focus \* the part this behaviour is about

\* With two decimals: small ones, ones at the end of the range (2.99) and one
\* stroop beyond, at the end of u64 (5.99) and beyond, too many digits, no
\* digits, two points, no number.
MCTexts == { <<"0", ".", "0", "1">>, <<"1", ".", "5">>, <<".", "0", "7">>, <<"2">>, <<"2", ".">>,
             <<"2", ".", "9", "9">>, <<"3">>, <<"5", ".", "9", "9">>, <<"6", ".", "0">>,
             <<"6">>, <<"0", ".", "0", "0", "1">>, <<>>, <<".">>, <<"0">>,
             <<"1", ".", "1", ".", "1">>, <<"x", ".", "1">> }

\* The same with a sign behind the point.
SignedTexts == MCTexts \union {<<"1", ".", "+", "5">>}

\* Requests about passwords are of verified accounts and others, the others of
\* one account.
InFocus == {"passwords", "tokens", "links"}
RequestsStart ==
  /\ focus = "links" <=> \A a \in Accounts : ~users[a].verified
  /\ focus = "tokens" => \A a \in Accounts : users[a].verified
  /\ focus # "tokens" => unique

TokenTime == 1   \* bound of the clock for tokens

Concerned == ({inflight[r].of : r \in Requests} \union {rows[i].of : i \in DOMAIN rows}) \ {Absent}

\* Tokens come from one sign-in and what is made of its token.
RequestsBound ==
  /\ focus = "passwords" => rows' = <<>>
  /\ focus # "passwords" => lockouts' = lockouts /\ Cardinality(Concerned') <= 1
  /\ focus = "tokens" =>
       /\ minute' <= TokenTime
       /\ rows # <<>> => \A r \in Requests : inflight'[r].at # "finding"
  /\ focus # "links" => \A r \in Requests : inflight'[r].at # "linking"
  /\ focus = "links" => \A r \in Requests : inflight'[r].at # "finding"

Symmetry == Permutations(Users)

MCInit ==
  /\ focus \in {"breaker", "sessions", "recovery", "paging", "amount"} \union InFocus
  /\ Init /\ (focus # "breaker" => now = 0)
  /\ SessionsInit /\ RecoveryInit /\ PagingInit /\ AmountInit
  /\ RequestsInit
  /\ IF focus \in InFocus THEN RequestsStart
     ELSE unique /\ \A a \in Accounts : ~users[a].verified

MCNext ==
  /\ UNCHANGED focus
  /\ \/ /\ focus = "breaker" /\ Next
        /\ UNCHANGED <<clock, sessionVars, hour, recoveryVars, pagingVars, amountVars>>
        /\ UNCHANGED <<minute, requestVars>>
     \/ /\ focus = "sessions"
        /\ (SessionsNext /\ UNCHANGED clock) \/ (Pass /\ UNCHANGED sessionVars)
        /\ UNCHANGED <<vars, hour, recoveryVars, pagingVars, amountVars, minute, requestVars>>
     \/ /\ focus = "recovery"
        /\ (RecoveryNext /\ UNCHANGED hour) \/ (HourPasses /\ UNCHANGED recoveryVars)
        /\ UNCHANGED <<vars, clock, sessionVars, pagingVars, amountVars, minute, requestVars>>
     \/ /\ focus = "paging" /\ PagingNext
        /\ UNCHANGED <<vars, clock, sessionVars, hour, recoveryVars, amountVars, minute, requestVars>>
     \/ /\ focus = "amount" /\ AmountNext
        /\ UNCHANGED <<vars, clock, sessionVars, hour, recoveryVars, pagingVars, minute, requestVars>>
     \/ /\ focus \in InFocus
        /\ (RequestsNext /\ UNCHANGED minute) \/ (MinutePasses /\ UNCHANGED requestVars)
        /\ RequestsBound
        /\ UNCHANGED <<vars, clock, sessionVars, hour, recoveryVars, pagingVars, amountVars>>

MCVars ==
  <<focus, vars, clock, sessionVars, hour, recoveryVars, pagingVars, amountVars, minute, requestVars>>
MCSpec == MCInit /\ [][MCNext]_MCVars
=============================================================================
