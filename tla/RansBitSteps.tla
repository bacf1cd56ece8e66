---------------------------- MODULE RansBitSteps ----------------------------
(***************************************************************************)
(* One step of the bit coder of internal/entropy/rans_bit.go.  The state   *)
(* is a number from LBase up; a bit whose chance is l in Precision divides *)
(* the numbers from l/Precision of its range.                              *)
(***************************************************************************)
EXTENDS Integers, Sequences, FiniteSets

Precision == 256            \* ransBitPrecision
LBase == 4096               \* ransBitLBase
IOBase == 256               \* ransBitIOBase: a byte

(* The chance of a zero, rounded to the nearest of 1 .. 255.               *)
ZeroProbOfOnes(zeros, total) ==             \* takes the share of the ones
  LET rounded == IF total = 0 THEN 0
                 ELSE (2 * Precision * (total - zeros) + total) \div (2 * total)
  IN  IF rounded >= Precision - 1 THEN Precision - 1
      ELSE IF rounded = 0 THEN 1 ELSE rounded
ZeroProb(zeros, total) ==
  LET rounded == IF total = 0 THEN 0
                 ELSE (2 * Precision * zeros + total) \div (2 * total)
  IN  IF rounded >= Precision - 1 THEN Precision - 1
      ELSE IF rounded = 0 THEN 1 ELSE rounded

Chance(bit, p0) == IF bit = 0 THEN p0 ELSE Precision - p0

(* ransBitWriter.write: a byte leaves first when the state would outgrow   *)
(* its range.                                                              *)
Threshold(l) == (LBase \div Precision) * IOBase * l

Encoded(x, bit, p0) ==
  LET l == Chance(bit, p0)
  IN  (x \div l) * Precision + (x % l) + (IF bit = 0 THEN Precision - p0 ELSE 0)

Written(state, bit, p0) ==
  IF state >= Threshold(Chance(bit, p0))
  THEN [state |-> Encoded(state \div IOBase, bit, p0), bytes |-> <<state % IOBase>>]
  ELSE [state |-> Encoded(state, bit, p0), bytes |-> <<>>]

(* ransBitWriter.end: the state above LBase in one, two or three bytes,    *)
(* low byte first, its size in the two high bits of the last.              *)
StateBytes(above) ==
  IF above < 2^6 THEN <<above>>
  ELSE IF above < 2^14 THEN <<above % 256, (2^14 + above) \div 256>>
  ELSE <<above % 256, (above \div 256) % 256, (2 * 2^22 + above) \div 2^16>>

(* RansBitDecoder.init: the last bytes of a payload.                       *)
Tag(bytes) == bytes[Len(bytes)] \div 2^6

Above(bytes) ==
  LET n == Len(bytes)
      last == bytes[n] % 2^6
  IN  CASE Tag(bytes) = 0 -> last
        [] Tag(bytes) = 1 -> bytes[n - 1] + last * 2^8
        [] OTHER -> bytes[n - 2] + bytes[n - 1] * 2^8 + last * 2^16

IsState(bytes) ==
  /\ Len(bytes) > 0
  /\ Tag(bytes) <= 2 /\ Tag(bytes) < Len(bytes)
  /\ LBase + Above(bytes) < LBase * IOBase

Initial(bytes) == [state |-> LBase + Above(bytes), offset |-> Len(bytes) - Tag(bytes) - 1]

(* RansBitDecoder.read: a byte is taken first when the state is too small. *)
Refilled(decoder, bytes) ==
  IF decoder.state < LBase /\ decoder.offset > 0
  THEN [state |-> decoder.state * IOBase + bytes[decoder.offset], offset |-> decoder.offset - 1]
  ELSE decoder

Decoded(x, p0) ==
  LET p == Precision - p0
      ones == (x \div Precision) * p
      rem == x % Precision
  IN  IF rem < p THEN [bit |-> 1, state |-> ones + rem]
                 ELSE [bit |-> 0, state |-> x - ones - p]

ReadStepThenRefill(decoder, bytes, p0) ==   \* takes the byte once the state has shrunk
  LET step == Decoded(decoder.state, p0)
  IN  [bit |-> step.bit, decoder |-> Refilled([decoder EXCEPT !.state = step.state], bytes)]
ReadStep(decoder, bytes, p0) ==
  LET full == Refilled(decoder, bytes)
      step == Decoded(full.state, p0)
  IN  [bit |-> step.bit, decoder |-> [full EXCEPT !.state = step.state]]

=============================================================================
