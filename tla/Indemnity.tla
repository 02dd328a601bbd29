----------------------------- MODULE Indemnity -----------------------------
(***************************************************************************)
(* What the insurance core promises, without saying how: each policy has   *)
(* at most one open demand, a demand is paid at most once and in full,     *)
(* from the funds, and what a policy has been paid stays within its cover. *)
(***************************************************************************)
EXTENDS Integers, Sequences

VARIABLES
  cover,   \* per policy, the most it may be paid
  paid,    \* per policy, what it has been paid
  demand,  \* per policy, the amount that is claimed, or 0
  funds    \* what is available for payments

vars == <<cover, paid, demand, funds>>

Init == cover = <<>> /\ paid = <<>> /\ demand = <<>> /\ funds = 0

Underwrite ==
  /\ Len(cover') = Len(cover) + 1
  /\ cover = SubSeq(cover', 1, Len(cover))
  /\ paid' = Append(paid, 0)
  /\ demand' = Append(demand, 0)
  /\ UNCHANGED funds

Recap(p) ==
  /\ cover' = [cover EXCEPT ![p] = cover'[p]]
  /\ paid[p] <= cover'[p]
  /\ UNCHANGED <<paid, demand, funds>>

Demand(p) ==
  /\ demand[p] = 0
  /\ demand' = [demand EXCEPT ![p] = demand'[p]]
  /\ demand'[p] > 0
  /\ paid[p] + demand'[p] <= cover[p]
  /\ UNCHANGED <<cover, paid, funds>>

Drop(p) ==
  /\ demand[p] # 0
  /\ demand' = [demand EXCEPT ![p] = 0]
  /\ UNCHANGED <<cover, paid, funds>>

Pay(p) ==
  /\ demand[p] > 0
  /\ paid[p] + demand[p] <= cover[p]
  /\ demand[p] <= funds
  /\ paid' = [paid EXCEPT ![p] = @ + demand[p]]
  /\ funds' = funds - demand[p]
  /\ demand' = [demand EXCEPT ![p] = 0]
  /\ UNCHANGED cover

Fund ==
  /\ funds' >= 0
  /\ UNCHANGED <<cover, paid, demand>>

Next ==
  \/ Underwrite
  \/ Fund
  \/ \E p \in DOMAIN cover : Recap(p) \/ Demand(p) \/ Drop(p) \/ Pay(p)

Spec == Init /\ [][Next]_vars
=============================================================================
