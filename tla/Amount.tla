------------------------------- MODULE Amount -------------------------------
(***************************************************************************)
(* Amounts of the Rust API (meridian-api/src/amount.rs): strictly positive, *)
(* at most i64::MAX stroops, computed in u64 and u128 with checks, read     *)
(* from decimal text; and a balance kept with them (accumulate_balance,     *)
(* deduct_balance, as auth/validation.rs calls them).                       *)
(***************************************************************************)
EXTENDS Integers, Sequences, SequencesExt

CONSTANTS
  Decimals,    \* STROOP_DECIMALS
  MaxStroops,  \* MAX_STROOPS; u64::MAX is twice that plus one
  Texts,       \* decimal texts offered: sequences of characters
  BasisPoints, \* bps offered to basis_point_fee
  Percents,    \* percent offered to percentage_fee
  FirstAmount  \* the balance to begin with

ASSUME AmountAssumption ==
  /\ Decimals \in Nat \ {0} /\ MaxStroops \in Nat \ {0}
  /\ FirstAmount \in 1 .. MaxStroops
  /\ BasisPoints \subseteq Nat /\ Percents \subseteq Nat
  /\ Texts \subseteq Seq(STRING)

VARIABLES
  balance, \* the stroops of an Amount
  exact    \* history: the same by rational arithmetic and the documented ranges

Digits == <<"0", "1", "2", "3", "4", "5", "6", "7", "8", "9">>
Digit == [c \in ToSet(Digits) |-> CHOOSE n \in 0 .. 9 : Digits[n + 1] = c]
U64 == 0 .. 2 * MaxStroops + 1

\* u64::pow of ten.
TenTo(n) ==
  LET power[k \in 0 .. n] == IF k = 0 THEN 1 ELSE 10 * power[k - 1] IN power[n]

Xlm == TenTo(Decimals)   \* STROOPS_PER_XLM

Ok(n) == [ok |-> TRUE, stroops |-> n]
Err(e) == [ok |-> FALSE, error |-> e]

\* Mutant: off by one at the top.
New_Inclusive(n) ==
  IF n = 0 THEN Err("Zero") ELSE IF n > MaxStroops + 1 THEN Err("Overflow") ELSE Ok(n)

New(n) ==
  IF n = 0 THEN Err("Zero") ELSE IF n > MaxStroops THEN Err("Overflow") ELSE Ok(n)

\* u64::from_str: an optional plus and digits; none, another character and what
\* does not fit u64 are errors.
Unsigned(text) == IF text # <<>> /\ text[1] = "+" THEN Tail(text) ELSE text
AllDigits(text) == \A i \in DOMAIN text : text[i] \in DOMAIN Digit
Value(digits) ==
  LET read[k \in 0 .. Len(digits)] ==
        IF k = 0 THEN 0 ELSE 10 * read[k - 1] + Digit[digits[k]]
  IN  read[Len(digits)]

Parsed(text) ==
  LET digits == Unsigned(text)
  IN  IF digits = <<>> \/ ~AllDigits(digits) \/ Value(digits) \notin U64
      THEN Err("NotRepresentable") ELSE Ok(Value(digits))

FromXlm(xlm) == IF xlm * Xlm \in U64 THEN New(xlm * Xlm) ELSE Err("Overflow")

Dots(text) == {i \in DOMAIN text : text[i] = "."}

\* Mutant: the fraction is not padded to its full width.
FractionOf_Unpadded(digits) == Parsed(IF digits = <<>> THEN <<"0">> ELSE digits)

\* The digits behind the point, padded with zeros to STROOP_DECIMALS.
FractionOf(digits) ==
  Parsed(digits \o [i \in 1 .. Decimals - Len(digits) |-> "0"])

\* from_xlm_decimal: no point or one, the whole part may be missing.
FromDecimal(text) ==
  IF Dots(text) = {} THEN
    LET whole == Parsed(text) IN IF whole.ok THEN FromXlm(whole.stroops) ELSE whole
  ELSE IF \E i, j \in Dots(text) : i # j THEN Err("NotRepresentable")
  ELSE
    LET dot    == CHOOSE i \in Dots(text) : TRUE
        before == SubSeq(text, 1, dot - 1)
        digits == SubSeq(text, dot + 1, Len(text))
        whole  == Parsed(IF before = <<>> THEN <<"0">> ELSE before)
        frac   == FractionOf(digits)
    IN  IF Len(digits) > Decimals THEN Err("LossOfPrecision")
        ELSE IF ~whole.ok THEN whole
        ELSE IF ~frac.ok THEN frac
        ELSE IF whole.stroops * Xlm \notin U64 THEN Err("Overflow")
        ELSE IF whole.stroops * Xlm + frac.stroops \notin U64 THEN Err("Overflow")
        ELSE New(whole.stroops * Xlm + frac.stroops)

CheckedAdd(a, b) == IF a + b \in U64 THEN New(a + b) ELSE Err("ArithmeticOverflow")
CheckedSub(a, b) == IF a >= b THEN New(a - b) ELSE Err("NegativeResult")

\* Mutant: rounded up.
Fee_RoundedUp(a, rate, whole) ==
  IF rate = 0 THEN Err("Zero")
  ELSE IF rate > whole THEN Err("Overflow")
  ELSE New((a * rate + whole - 1) \div whole)

\* basis_point_fee (whole 10000) and percentage_fee (whole 100), in u128.
Fee(a, rate, whole) ==
  IF rate = 0 THEN Err("Zero")
  ELSE IF rate > whole THEN Err("Overflow")
  ELSE IF (a * rate) \div whole > MaxStroops THEN Err("Overflow")
  ELSE New((a * rate) \div whole)

-----------------------------------------------------------------------------
\* What a text means, digit by digit: each weighs a tenth of the one before it,
\* from the place of the point; and whether it has a meaning in stroops.
Point(text) == IF Dots(text) = {} THEN Len(text) + 1 ELSE CHOOSE i \in Dots(text) : TRUE
Weight(text, i) ==
  IF i < Point(text) THEN TenTo(Decimals + Point(text) - 1 - i)
  ELSE TenTo(Decimals + Point(text) - i)
Meaning(text) ==
  SumFunctionOnSet([i \in DOMAIN text |->
                      IF i = Point(text) THEN 0 ELSE Digit[text[i]] * Weight(text, i)],
                   DOMAIN text)
IsAmountText(text) ==
  /\ \A i, j \in Dots(text) : i = j
  /\ \A i \in DOMAIN text \ Dots(text) : text[i] \in DOMAIN Digit
  /\ Len(text) - Point(text) <= Decimals
  /\ Meaning(text) \in 1 .. MaxStroops

\* The same operations by their documented ranges.
Exactly(to) == exact' = IF to \in 1 .. MaxStroops THEN to ELSE exact
FeeIs(f, rate, whole) == f * whole <= exact * rate /\ exact * rate < (f + 1) * whole

Book(r) == balance' = IF r.ok THEN r.stroops ELSE balance

\* validate_balance_delta: an operation is booked when it has no error.
Credit(text) ==
  LET delta == FromDecimal(text)
  IN  /\ Book(IF delta.ok THEN CheckedAdd(balance, delta.stroops) ELSE delta)
      /\ IF IsAmountText(text) THEN Exactly(exact + Meaning(text)) ELSE UNCHANGED exact

Debit(text) ==
  LET delta == FromDecimal(text)
  IN  /\ Book(IF delta.ok THEN CheckedSub(balance, delta.stroops) ELSE delta)
      /\ IF IsAmountText(text) THEN Exactly(exact - Meaning(text)) ELSE UNCHANGED exact

\* A fee on the balance is taken from it.
Charge(rate, whole) ==
  LET fee == Fee(balance, rate, whole)
  IN  /\ Book(IF fee.ok THEN CheckedSub(balance, fee.stroops) ELSE fee)
      /\ IF rate \in 1 .. whole
         THEN LET f == CHOOSE x \in 0 .. exact : FeeIs(x, rate, whole)
              IN  Exactly(exact - f)
         ELSE UNCHANGED exact

AmountInit == balance = FirstAmount /\ exact = FirstAmount

AmountNext ==
  \/ \E t \in Texts : Credit(t) \/ Debit(t)
  \/ \E r \in BasisPoints : Charge(r, 10000)
  \/ \E r \in Percents : Charge(r, 100)

amountVars == <<balance, exact>>
AmountSpec == AmountInit /\ [][AmountNext]_amountVars

\* A balance kept with these operations is the one exact arithmetic gives: every
\* text is read for what it says or refused, every operation that fits the range
\* is booked and every other is refused, and a fee is the rate rounded down.
AmountsAreExact == balance = exact /\ balance \in 1 .. MaxStroops
=============================================================================
