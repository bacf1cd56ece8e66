---------------------------- MODULE WrapTransform ----------------------------
(***************************************************************************)
(* How predicted numbers are coded (internal/transform/wrap.go): the       *)
(* encoder sends what is added to a prediction, taken round the range of   *)
(* the values, and sends it as a number without sign (integer_codec.go).   *)
(*                                                                         *)
(* Numbers are int32 in the code and -HalfRange .. HalfRange - 1 here.     *)
(***************************************************************************)
EXTENDS Integers

CONSTANT HalfRange

ASSUME HalfRangeAssumption == HalfRange \in Nat \ {0}

Int32 == -HalfRange .. HalfRange - 1

(* A sum or difference of two numbers, or of three, leaves the word by one *)
(* turn at most.                                                           *)
AsInt32(x) ==
  IF x >= HalfRange THEN x - 2 * HalfRange
  ELSE IF x < -HalfRange THEN x + 2 * HalfRange ELSE x

RangeIsRefused(min, max) == min > max \/ max - min >= HalfRange - 1

(* What InitFromValues and Decode make of the least and the greatest value.*)
Wrap(min, max) ==
  LET maxDif == max - min + 1
      half == maxDif \div 2
  IN  [minValue |-> min,
       maxValue |-> max,
       maxDif |-> maxDif,
       minCorrection |-> -half,
       maxCorrection |-> IF maxDif = 2 * half THEN half - 1 ELSE half]

(* A prediction is brought into the range before it is used.               *)
Clamped(t, predicted) ==
  IF predicted \in t.minValue .. t.maxValue THEN predicted
  ELSE IF predicted > t.maxValue THEN t.maxValue ELSE t.minValue

CorrectionUnwrapped(t, original, predicted) == AsInt32(original - Clamped(t, predicted))

Correction(t, original, predicted) ==
  LET difference == AsInt32(original - Clamped(t, predicted))
  IN  IF difference < t.minCorrection THEN AsInt32(difference + t.maxDif)
      ELSE IF difference > t.maxCorrection THEN AsInt32(difference - t.maxDif)
      ELSE difference

OriginalValueUnwrapped(t, predicted, correction) == AsInt32(Clamped(t, predicted) + correction)

OriginalValue(t, predicted, correction) ==
  LET sum == AsInt32(Clamped(t, predicted) + correction)
  IN  IF sum > t.maxValue THEN AsInt32(sum - t.maxDif)
      ELSE IF sum < t.minValue THEN AsInt32(sum + t.maxDif)
      ELSE sum

(* convertSignedIntToSymbol, convertSymbolToSignedInt.                     *)
ToSymbol(v) == IF v >= 0 THEN 2 * v ELSE 2 * (-(v + 1)) + 1

FromSymbol(s) == IF s % 2 = 0 THEN s \div 2 ELSE -(s \div 2) - 1

(* A value and the greatest correction to either side stay in the word.    *)
(* Without this room the sum above turns over before it is compared with   *)
(* the range, and comes out wrong.                                         *)
RoomForCorrections(t) ==
  /\ t.maxValue + t.maxCorrection < HalfRange
  /\ t.minValue + t.minCorrection >= -HalfRange

=============================================================================
