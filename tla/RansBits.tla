------------------------------ MODULE RansBits ------------------------------
(***************************************************************************)
(* The adaptive bit coder (internal/entropy/rans_bit.go) and the bank of   *)
(* 33 of them that codes the bits of a number by their place               *)
(* (internal/entropy/folded_bit.go).                                       *)
(*                                                                         *)
(* An encoder keeps its bits until it ends; then it fixes one probability  *)
(* for a zero and writes the bits last first, so that the decoder, which   *)
(* starts from the state the encoder ended in, gives them first first.     *)
(* The words the bits are kept in are left out: they keep the sequence.    *)
(***************************************************************************)
EXTENDS RansBitSteps, SequencesExt

CONSTANTS
  Banks,            \* "rans", one coder, or "folded", one for each place
  Inputs            \* the sequences of fields written, each [op, width, value]

Coders == 0 .. 32   \* 0 is the coder of single bits; the only one of "rans"

VARIABLES
  bank,
  fields,
  bits,             \* per coder, the bits it was given
  flushing,         \* [coder, left, state, buffer]: the coder that is writing its payload
  payload,          \* per coder [zeroProb, bytes], those written so far
  decoder,          \* per coder [state, offset]
  reading,          \* [field, place, value]: where the reader is
  got,
  phase

vars == <<bank, fields, bits, flushing, payload, decoder, reading, got, phase>>

(* The bits of a field, the most significant first.                        *)
BitsOf(field) == [i \in 1 .. field.width |-> (field.value \div 2^(field.width - i)) % 2]

(* The coder that gets bit i of a field.                                   *)
CoderOf(op, i) == IF bank = "rans" \/ op = "bit" THEN 0 ELSE i

Init ==
  /\ bank \in Banks
  /\ fields \in Inputs
  /\ bits = [c \in Coders |-> <<>>]
  /\ flushing = [coder |-> 0, left |-> 0, state |-> LBase, buffer |-> <<>>]
  /\ payload = <<>>
  /\ decoder = <<>>
  /\ reading = [field |-> 1, place |-> 1, value |-> 0]
  /\ got = <<>>
  /\ phase = "collect"

(* EncodeBit and EncodeLeastSignificantBits32 for every field: a coder     *)
(* gets its bits in the order of the fields.                               *)
BitsFor(c) ==
  FlattenSeq([f \in DOMAIN fields |->
    LET own == {i \in 1 .. fields[f].width : CoderOf(fields[f].op, i) = c}
    IN  [k \in 1 .. Cardinality(own) |->
           BitsOf(fields[f])[IF c = 0 THEN k ELSE c]]])

Collect ==
  /\ phase = "collect"
  /\ bits' = [c \in Coders |-> BitsFor(c)]
  /\ phase' = "flush"
  /\ UNCHANGED <<bank, fields, flushing, payload, decoder, reading, got>>

(* The order in which the coders of a bank write: the places, then the     *)
(* coder of single bits.                                                   *)
Order == IF bank = "rans" THEN <<0>> ELSE [i \in 1 .. 32 |-> i] \o <<0>>
Current == Order[Len(payload) + 1]
ZeroProbOf(c) == ZeroProb(Len(SelectSeq(bits[c], LAMBDA b : b = 0)), Len(bits[c]))

(* EndEncoding: start on a coder, write its bits, close its payload.       *)
StartPayload ==
  /\ phase = "flush" /\ Len(payload) < Len(Order)
  /\ flushing' = [coder |-> Current, left |-> Len(bits[Current]), state |-> LBase, buffer |-> <<>>]
  /\ phase' = "writing"
  /\ UNCHANGED <<bank, fields, bits, payload, decoder, reading, got>>

BitToWrite == flushing.left

WriteBit ==
  /\ phase = "writing" /\ flushing.left > 0
  /\ LET bit == bits[flushing.coder][BitToWrite]
         written == Written(flushing.state, bit, ZeroProbOf(flushing.coder))
     IN  flushing' = [flushing EXCEPT !.left = @ - 1, !.state = written.state,
                                      !.buffer = @ \o written.bytes]
  /\ UNCHANGED <<bank, fields, bits, payload, decoder, reading, got, phase>>

EndPayload ==
  /\ phase = "writing" /\ flushing.left = 0
  /\ payload' = Append(payload, [zeroProb |-> ZeroProbOf(flushing.coder),
                                 bytes |-> flushing.buffer \o StateBytes(flushing.state - LBase)])
  /\ phase' = "flush"
  /\ UNCHANGED <<bank, fields, bits, flushing, decoder, reading, got>>

(* StartDecoding of each coder in turn.                                    *)
PayloadOf(c) == payload[CHOOSE i \in DOMAIN Order : Order[i] = c]

StartDecoding ==
  /\ phase = "flush" /\ Len(payload) = Len(Order)
  /\ IF \A i \in DOMAIN payload : IsState(payload[i].bytes)
     THEN /\ decoder' = [c \in Range(Order) |-> Initial(PayloadOf(c).bytes)]
          /\ phase' = "read"
     ELSE phase' = "refused" /\ UNCHANGED decoder
  /\ UNCHANGED <<bank, fields, bits, flushing, payload, reading, got>>

(* DecodeNextBit, and DecodeLeastSignificantBits32 one bit at a time.      *)
ReadBit ==
  /\ phase = "read" /\ reading.field \in DOMAIN fields
  /\ LET field == fields[reading.field]
         c == CoderOf(field.op, reading.place)
         step == ReadStep(decoder[c], PayloadOf(c).bytes, PayloadOf(c).zeroProb)
         value == 2 * reading.value + step.bit
     IN  /\ decoder' = [decoder EXCEPT ![c] = step.decoder]
         /\ IF reading.place < field.width
            THEN /\ reading' = [reading EXCEPT !.place = @ + 1, !.value = value]
                 /\ UNCHANGED got
            ELSE /\ reading' = [field |-> reading.field + 1, place |-> 1, value |-> 0]
                 /\ got' = Append(got, value)
  /\ UNCHANGED <<bank, fields, bits, flushing, payload, phase>>

EndDecoding ==
  /\ phase = "read" /\ reading.field \notin DOMAIN fields
  /\ phase' = IF \A c \in DOMAIN decoder : decoder[c].state = LBase THEN "ended" ELSE "unclean"
  /\ UNCHANGED <<bank, fields, bits, flushing, payload, decoder, reading, got>>

Next == Collect \/ StartPayload \/ WriteBit \/ EndPayload \/ StartDecoding \/ ReadBit \/ EndDecoding

Spec == Init /\ [][Next]_vars

-----------------------------------------------------------------------------
(* The payload a decoder is given is one it can start from, and every      *)
(* number comes back: the decoder undoes the writer's steps in reverse,    *)
(* taking a byte exactly where the writer gave one.                        *)
NumbersComeBack ==
  /\ phase # "refused"
  /\ \A i \in DOMAIN got : got[i] = fields[i].value

(* The state stays in the range the decoder accepts and three bytes hold;  *)
(* ransBitWriter.end refuses a larger one.                                 *)
StateStaysInRange ==
  /\ flushing.state \in LBase .. LBase * IOBase - 1
  /\ phase = "read" =>
       \A c \in DOMAIN decoder : decoder[c].state \in LBase \div Precision .. LBase * IOBase - 1

(* EndEncoding allocates eight bytes for every 32 bits and 64 more; a bit  *)
(* of the rarer value can cost a whole byte, so only the probability that  *)
(* was chosen from the counts keeps the writer inside its buffer.          *)
PayloadFitsBuffer ==
  phase = "writing" =>
    Len(flushing.buffer) + 3 <= (Len(bits[flushing.coder]) \div 32 + 8) * 8

(* A decoder that has read every bit is back in the state the encoder      *)
(* started from, unless the last bit was of a value with the least chance  *)
(* there is: only then has the writer given a byte before its first step,  *)
(* and the reader takes a byte only before it reads another bit.           *)
RareLastBit(c) ==
  /\ bits[c] # <<>>
  /\ Chance(Last(bits[c]), ZeroProbOf(c)) = 1

UncleanOnlyAfterRareLastBit ==
  reading.field \notin DOMAIN fields /\ phase # "collect" =>
    \A c \in DOMAIN decoder : (decoder[c].state = LBase) <=> ~RareLastBit(c)

(* The numbers come back through states and buffers that never overflow.   *)
NumbersAreExact == NumbersComeBack /\ StateStaysInRange /\ PayloadFitsBuffer

=============================================================================
