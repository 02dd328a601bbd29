------------------------------- MODULE Ledger -------------------------------
(***************************************************************************)
(* What the contracts take from the ledger: its timestamp, and the width   *)
(* of the integers they compute with (overflow-checks = false in           *)
(* [profile.release], so an i128 sum wraps).                               *)
(***************************************************************************)
EXTENDS Integers

CONSTANTS
  MaxTime,   \* bound on the timestamp
  I128Max    \* i128::MAX (small, so that TLC reaches the wrap)

ASSUME LedgerAssumption == MaxTime \in Nat /\ I128Max \in Nat

VARIABLE now \* env.ledger().timestamp()

I128 == -(I128Max + 1) .. I128Max

\* The i128 sum of two i128 values.
WrappingAdd(x, y) ==
  IF x + y > I128Max THEN x + y - 2 * (I128Max + 1)
  ELSE IF x + y < -(I128Max + 1) THEN x + y + 2 * (I128Max + 1)
  ELSE x + y

\* saturating_sub of two unsigned values.
Monus(x, y) == IF x > y THEN x - y ELSE 0

\* The ledger closes.
Tick == now < MaxTime /\ now' = now + 1
=============================================================================
