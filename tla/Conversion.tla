----------------------------- MODULE Conversion -----------------------------
(***************************************************************************)
(* The arithmetic of a conversion and the number the result label shows.   *)
(*                                                                         *)
(* TLA+ has no floating point.  A Double is a fraction <<n, d>>, d > 0,    *)
(* and every operation of Double is the exact result rounded to the        *)
(* nearest significand, ties to even, at the power of two (the scale) that *)
(* makes the significand a number from MinSignificand up to twice that.    *)
(* Rates are integers in one power of two unit, small enough to be Doubles *)
(* themselves; the unit cancels exactly in amount / rateFrom * rateTo.     *)
(*                                                                         *)
(* The label is counted in thousandths: NumberFormatter's decimal style    *)
(* keeps at most three fraction digits and rounds half to even.  Grouping  *)
(* commas are left out.                                                    *)
(***************************************************************************)
EXTENDS Integers

CONSTANTS
  MinSignificand,  \* 2^52 for Double: a significand has 53 bits
  Scales           \* powers of two, as fractions <<n, d>>

ASSUME SignificandIsLarge == MinSignificand \in Nat /\ MinSignificand >= 2

ASSUME ScalesAreFractions == Scales \subseteq (Nat \ {0}) \X (Nat \ {0})

Abs(n) == IF n < 0 THEN -n ELSE n

\* The integer nearest to n / d, for d > 0; of two, the even one.
RoundHalfEven(n, d) ==
  LET q == n \div d
      r == n % d
  IN  IF 2 * r < d \/ (2 * r = d /\ q % 2 = 0) THEN q ELSE q + 1

\* At scale s, the fraction n / d has a significand of full length.
Fits(n, d, s) ==
  /\ MinSignificand * (d * s[2]) <= Abs(n) * s[1]
  /\ Abs(n) * s[1] < 2 * MinSignificand * (d * s[2])

\* The fraction n / d is zero or neither underflows nor overflows.
InRange(n, d) == n = 0 \/ \E s \in Scales : Fits(n, d, s)

\* The Double nearest to the fraction n / d.
RoundToDouble(n, d) ==
  IF n = 0 THEN <<0, 1>>
  ELSE LET s == CHOOSE s \in Scales : Fits(n, d, s)
       IN  << RoundHalfEven(n * s[1], d * s[2]) * s[2], s[1] >>

\* Double(fromAmount)
Double(n) == RoundToDouble(n, 1)

\* x / rate and x * rate, for a Double x
Divide(x, rate) == RoundToDouble(x[1], x[2] * rate)
Times(x, rate) == RoundToDouble(x[1] * rate, x[2])

\* Variant with a bug: the digits after the third are cut off.
CutOff(x) == (1000 * x[1]) \div x[2]

\* value.formatWithComma
FormatWithComma(x) == RoundHalfEven(1000 * x[1], x[2])

\* Double(fromAmount) / rateFromValue * rateToValue, as the label shows it
ShownResult(fromAmount, rateFrom, rateTo) ==
  FormatWithComma(Times(Divide(Double(fromAmount), rateFrom), rateTo))

\* No step of the conversion underflows or overflows.
ConversionInRange(fromAmount, rateFrom, rateTo) ==
  LET x == Double(fromAmount)
      y == Divide(x, rateFrom)
  IN  /\ InRange(fromAmount, 1)
      /\ InRange(x[1], x[2] * rateFrom)
      /\ InRange(y[1] * rateTo, y[2])
=============================================================================
