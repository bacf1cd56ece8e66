----------------------------- MODULE KdTreeWire -----------------------------
(***************************************************************************)
(* What the encoder and the decoder of a kd-tree share                     *)
(* (internal/codec/kdtree/dynamic.go): the four streams and the way both   *)
(* walk the tree.                                                          *)
(*                                                                         *)
(* A node is a cell of the space: per axis, `level` bits are known and in  *)
(* `base`, the rest is open.  Both sides keep bases and levels by position *)
(* in a scratch; the left half of a node stays in its position, the right  *)
(* half gets the next one and is done first.                               *)
(***************************************************************************)
EXTENDS RansBitSteps, SequencesExt

CONSTANTS
  WordBits,         \* bits of a coordinate at most: 32 in the code
  AxisThreshold,    \* points from which an axis is chosen by its points: 64
  MinAxisBits       \* least width of an axis on the wire: 4

ASSUME WireAssumption ==
  /\ WordBits \in Nat \ {0} /\ MinAxisBits \in Nat \ {0}
  /\ AxisThreshold \in Nat /\ AxisThreshold > 2

VARIABLES
  header,           \* [bitLength, numPoints]
  numbers, remaining, axes, halves,  \* fields [width, value] in the order written
  level,            \* compression level
  dimension

wireVars == <<header, numbers, remaining, axes, halves, level, dimension>>

Levels == 0 .. 6
SelectAxis == level >= 6
NumberCoder == IF level >= 4 THEN "folded" ELSE IF level >= 2 THEN "rans" ELSE "direct"

(* kdTreeScratchSizes: positions of the scratch.                           *)
ScratchLen(d) == d * WordBits + 1
StackLen == ScratchLen(dimension)

Axes == 0 .. dimension - 1

(* 1 << n.                                                                 *)
TwoTo[n \in Nat] == IF n = 0 THEN 1 ELSE 2 * TwoTo[n - 1]

Field(width, value) == [width |-> width, value |-> value % TwoTo[width]]

IncrementMod(value, mod) == IF value + 1 >= mod THEN 0 ELSE value + 1

(* bits.Len32.                                                             *)
Fits32(value) == \E n \in 0 .. 32 : value < TwoTo[n]
Len32(value) == CHOOSE n \in 0 .. 32 : value < TwoTo[n] /\ (n = 0 \/ value >= TwoTo[n - 1])
MostSignificantBit(value) == IF value = 0 THEN 0 ELSE Len32(value) - 1

AxisBitCount == IF dimension <= TwoTo[MinAxisBits] THEN MinAxisBits ELSE Len32(dimension - 1)

(* The first of the axes with the least known bits.                        *)
LeastLevelAxis(levels) ==
  CHOOSE a \in Axes : \A b \in Axes : levels[a] < levels[b] \/ (levels[a] = levels[b] /\ a <= b)

(* The axes that are not known whole, one after the other, in the order    *)
(* from axis a on, round about (there is one such sequence).               *)
OpenAxes(levels) == {b \in Axes : levels[b] < header.bitLength}
OpenAxesFrom(a, levels) ==
  {order \in Bijection(1 .. Cardinality(OpenAxes(levels)), OpenAxes(levels)) :
     \A i, j \in DOMAIN order :
       i < j => (order[i] - a) % dimension < (order[j] - a) % dimension}

(* What EndDecoding says of a bit coder that gave all its bits (RansBits). *)
EndsAtBase(bits) ==
  \/ bits = <<>>
  \/ Chance(Last(bits), ZeroProb(Len(SelectSeq(bits, LAMBDA b : b = 0)), Len(bits))) # 1

BitsOf(field) == [i \in 1 .. field.width |-> (field.value \div TwoTo[field.width - i]) % 2]

(* Direct bits have no state that could be wrong; a folded coder has one   *)
(* bit coder for each place of a number.                                   *)
EndClean(coder, sent) ==
  CASE coder = "direct" -> TRUE
    [] coder = "rans" -> EndsAtBase(FlattenSeq([i \in DOMAIN sent |-> BitsOf(sent[i])]))
    [] OTHER -> \A place \in 1 .. WordBits :
                  LET wide == SelectSeq(sent, LAMBDA f : f.width >= place)
                  IN  EndsAtBase([i \in DOMAIN wide |-> BitsOf(wide[i])[place]])

NumbersEndClean == EndClean(NumberCoder, numbers)

=============================================================================
