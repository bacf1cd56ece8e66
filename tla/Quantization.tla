---------------------------- MODULE Quantization ----------------------------
(***************************************************************************)
(* quantization.go: how the float values of an attribute become integers   *)
(* of a few bits, and back.  Values are whole numbers of some unit here;   *)
(* a dequantized value is a fraction [num, den].  The rounding of float32  *)
(* arithmetic is left out.  An attribute is a sequence of entries, an      *)
(* entry a sequence of components; an option is                            *)
(* [bits, spacing, origin, range], with 0 and <<>> for what is not set.    *)
(***************************************************************************)
EXTENDS Integers, Sequences, FiniteSets

CONSTANT MaxBits    \* most bits of a quantized value: 30

ASSUME MaxBitsAssumption == MaxBits \in Nat \ {0}

Refused == [bits |-> 0, min |-> <<>>, range |-> 0]

(* bits.Len32.                                                             *)
BitsRequired(value) == CHOOSE n \in 0 .. 32 : value < 2^n /\ (n = 0 \/ value >= 2^(n - 1))

MaxQuantized(t) == 2^t.bits - 1

Values(entries, c) == {entries[i][c] : i \in DOMAIN entries}
Least(S) == CHOOSE x \in S : \A y \in S : x <= y
Greatest(S) == CHOOSE x \in S : \A y \in S : x >= y

MinValues(entries) == [c \in DOMAIN entries[1] |-> Least(Values(entries, c))]
MaxValues(entries) == [c \in DOMAIN entries[1] |-> Greatest(Values(entries, c))]

BitsAllowed(bits) == bits \in 1 .. MaxBits

(* compute: one range for all components, so that the steps are cubes.     *)
Spread(entries) ==
  Greatest({MaxValues(entries)[c] - MinValues(entries)[c] : c \in DOMAIN entries[1]})

Computed(entries, bits) ==
  IF ~BitsAllowed(bits) THEN Refused
  ELSE [bits |-> bits, min |-> MinValues(entries),
        range |-> IF Spread(entries) <= 0 THEN 1 ELSE Spread(entries)]

Explicit(entries, bits, origin, range) ==
  IF ~BitsAllowed(bits) \/ Len(origin) # Len(entries[1]) \/ range <= 0 THEN Refused
  ELSE [bits |-> bits, min |-> origin, range |-> range]

(* computeGrid: the origin is on the grid, a step is the spacing, and the  *)
(* bits are those of the steps there are.                                  *)
OnGrid(value, spacing) == (value \div spacing) * spacing
StepsBetween(origin, value, spacing) == -((origin - value) \div spacing)

Grid(entries, spacing) ==
  LET origin == [c \in DOMAIN entries[1] |-> OnGrid(MinValues(entries)[c], spacing)]
      steps == Greatest({StepsBetween(origin[c], MaxValues(entries)[c], spacing) : c \in DOMAIN origin})
      bits == BitsRequired(IF steps <= 0 THEN 1 ELSE steps)
  IN  IF spacing <= 0 \/ ~BitsAllowed(bits) THEN Refused
      ELSE [bits |-> bits, min |-> origin, range |-> (2^bits - 1) * spacing]

(* quantizationBitsForAttribute: 0 where nothing is set, or nothing fits.  *)
BitsOf(entries, option) ==
  IF option.bits > 0 THEN option.bits
  ELSE IF option.spacing > 0 THEN Grid(entries, option.spacing).bits ELSE 0

(* attributeQuantizationTransform: an origin needs a range, and wins over  *)
(* a grid; a grid wins over the bits alone.                                *)
Transform(entries, option) ==
  CASE entries = <<>> -> Refused
    [] BitsOf(entries, option) <= 0 -> Refused
    [] (option.origin # <<>>) # (option.range > 0) -> Refused
    [] option.origin # <<>> -> Explicit(entries, BitsOf(entries, option), option.origin, option.range)
    [] option.spacing > 0 -> Grid(entries, option.spacing)
    [] OTHER -> Computed(entries, option.bits)

(* floor((value - min) * maxQuantized / range + 1/2).                      *)
Rounded(t, c, value) == (2 * (value - t.min[c]) * MaxQuantized(t) + t.range) \div (2 * t.range)

Dequantized(t, c, q) == [num |-> q * t.range + t.min[c] * MaxQuantized(t), den |-> MaxQuantized(t)]

(* Is it within half of a step of the value?                               *)
Near(t, fraction, value) ==
  LET off == 2 * (fraction.num - value * fraction.den)
  IN  off <= t.range /\ -off <= t.range

=============================================================================
