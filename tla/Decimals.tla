------------------------------ MODULE Decimals -------------------------------
(***************************************************************************)
(* The arithmetic of prices and how a figure is printed.  A decimal string *)
(* is the integer its digits make at four places; how many of them were    *)
(* written only pads the print.  A percentage, a JavaScript number, is an  *)
(* integer count of its fourth decimal place, which is as fine as the      *)
(* client ever computes one.  A printed figure is its sign and its digits. *)
(***************************************************************************)
EXTENDS Integers

CONSTANT Units   \* the units formatCompact knows: a thousand and up

SCALE_DIGITS == 4
Scale == 10000   \* 10^SCALE_DIGITS

Magnitude(n) == IF n < 0 THEN -n ELSE n
SignOf(n) == IF n < 0 THEN -1 ELSE IF n > 0 THEN 1 ELSE 0

(* BigInt division drops the fraction on either side of zero. *)
Truncated(a, b) == SignOf(a) * SignOf(b) * (Magnitude(a) \div Magnitude(b))

(* Division by a positive number that rounds half away from zero. *)
Rounded(a, b) == SignOf(a) * ((Magnitude(a) + b \div 2) \div b)

Printed(sign, digits) == [sign |-> sign, digits |-> digits]

(* compare and subtract *)
Compare(a, b) == SignOf(a - b)
Subtract(a, b) == a - b

(* multiplyByQuantity *)
MultiplyByQuantity(value, quantity) == value * quantity

----------------------------------------------------------------------------
(* Percentages                                                             *)

(* percentChange: ten-thousandths of a percent, the rest dropped. *)
PercentChange(from, to) ==
  IF from = 0 THEN 0 ELSE Truncated((to - from) * 100 * 10000, from)

(* percentChangeText at two decimals, from the exact ratio: what a snapshot
   carries on the wire. *)
PercentChangeText(from, to) ==
  IF from = 0 THEN Printed(0, 0)
  ELSE LET hundredths == Rounded((to - from) * 100 * 100, Magnitude(from)) * SignOf(from)
       IN  Printed(SignOf(hundredths), Magnitude(hundredths))

(* formatPercentFigure: Intl rounds half away from zero, and prints no sign
   before what it has rounded to zero. *)
PercentFigure(percent) ==
  LET hundredths == Rounded(percent, 100)
  IN  Printed(SignOf(hundredths), Magnitude(hundredths))

(* isEffectivelyUnchanged: less than 0.005 %. *)
Unchanged(percent) == Magnitude(percent) < 50

(* formatSignedPercent: the chip of a row. *)
SignedPercent(percent) == IF Unchanged(percent) THEN Printed(0, 0) ELSE PercentFigure(percent)

(* deltaTone and percentTone: the colour of a figure. *)
DeltaTone(n) == CASE n > 0 -> "up" [] n < 0 -> "down" [] OTHER -> "flat"

PercentTone(percent) == IF Unchanged(percent) THEN "flat" ELSE DeltaTone(percent)

----------------------------------------------------------------------------
(* Amounts                                                                 *)

(* format with all four places and a sign. *)
FormatSigned(value) == Printed(SignOf(value), Magnitude(value))

(* Mutant: a unit is used from the value that reaches it. *)
Reaches(value, unit) == Magnitude(value) >= unit * Scale

(* formatCompact: hundredths of the largest unit of which there is at least one
   once they are rounded, else whole pounds. *)
HundredthsOf(value, unit) == Rounded(value * 100, unit * Scale)
Fits(value, unit) == Magnitude(HundredthsOf(value, unit)) >= 100

FormatCompact(value) ==
  IF \E unit \in Units : Fits(value, unit)
  THEN LET unit == CHOOSE u \in Units : /\ Fits(value, u)
                                        /\ \A w \in Units : Fits(value, w) => w <= u
       IN  [unit |-> unit, hundredths |-> HundredthsOf(value, unit)]
  ELSE [unit |-> 1, hundredths |-> 100 * Rounded(value, Scale)]
==============================================================================
