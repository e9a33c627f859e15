------------------------------ MODULE MoneyRules ------------------------------
(***************************************************************************)
(* packages/shared/src/money.ts: amounts in minor units.  Products below   *)
(* 2^53 are exact in the code; larger ones are outside this model.  A      *)
(* decimal string is its sign, its digits before the point as a number and *)
(* its digits after it.                                                    *)
(***************************************************************************)
EXTENDS Decisions, Sequences

CONSTANTS Amounts, Numerators, Denominators

ASSUME MoneyAssumption ==
  Amounts \subseteq Int /\ Numerators \subseteq Int /\ Denominators \subseteq Nat \ {0}

MoneyQuestions ==
  [kind : {"money"}, amount : Amounts, numerator : Numerators, denominator : Denominators,
   decimals : {0, 2}]

\* Mutant: the sign is not set aside.
MultiplySigned(amount, numerator, denominator) ==
  (amount * numerator + denominator \div 2) \div denominator

\* multiply: half a unit or more goes away from zero.
Multiply(amount, numerator, denominator) ==
  LET raw == amount * numerator
      quotient == (Magnitude(raw) + denominator \div 2) \div denominator IN
    IF raw < 0 THEN -quotient ELSE quotient

\* toMajorString: decimals is 0 or 2.
MajorString(amount, decimals) ==
  LET size == Magnitude(amount) IN
    IF decimals = 0 THEN [negative |-> amount < 0, unit |-> size, fraction |-> <<>>]
    ELSE [negative |-> amount < 0, unit |-> size \div 100,
          fraction |-> <<(size % 100) \div 10, size % 10>>]

Refused == [refused |-> TRUE]

\* parseMajorString: missing decimals are zeros, more than the currency has
\* are refused.
ParseMajor(string, decimals) ==
  LET digit(i) == IF i <= Len(string.fraction) THEN string.fraction[i] ELSE 0
      value == IF decimals = 0 THEN string.unit
               ELSE 100 * string.unit + 10 * digit(1) + digit(2) IN
    IF Len(string.fraction) > decimals THEN Refused
    ELSE [refused |-> FALSE, amount |-> IF string.negative THEN -value ELSE value]
-----------------------------------------------------------------------------
MoneyQuestion == question.kind = "money"

Product == Multiply(question.amount, question.numerator, question.denominator)

\* How far the product is from the exact fraction, in parts of the denominator.
Error == Product * question.denominator - question.amount * question.numerator

\* money.ts:93: rounding is to the nearest unit, halves away from zero, and an
\* amount survives its own decimal string, also below one unit and below zero.
MoneyIsExact ==
  MoneyQuestion =>
    /\ 2 * Magnitude(Error) <= question.denominator
    /\ 2 * Magnitude(Error) = question.denominator
         => Magnitude(Product * question.denominator)
              > Magnitude(question.amount * question.numerator)
    /\ ParseMajor(MajorString(question.amount, question.decimals), question.decimals)
         = [refused |-> FALSE, amount |-> question.amount]
=============================================================================
