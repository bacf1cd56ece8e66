----------------------------- MODULE BitPacking -----------------------------
(***************************************************************************)
(* Fields of bits packed into words and bytes and taken out again:         *)
(*   direct   words filled from their most significant bit                 *)
(*            (internal/entropy/direct_bit.go),                            *)
(*   lsb      bytes filled from their least significant bit, the values of *)
(*            tagged symbols (internal/core/writer.go, reader.go and       *)
(*            internal/entropy/symbols.go).                                *)
(* A word has 32 bits in the code and a byte eight; a field is as wide as  *)
(* a word at most.  Words and bytes are numbers here as there, and every   *)
(* shift is the one the code makes.                                        *)
(***************************************************************************)
EXTENDS Integers, Sequences, SequencesExt, Bitwise

CONSTANTS
  WordSize,         \* bits of a word: 32 in the code
  ByteSize,         \* bits of a byte: 8 in the code
  MaxFields         \* bound on the fields written

VARIABLES
  packing,          \* "direct" or "lsb"
  written,          \* the fields written, [op, width, value]
  encoder,          \* [words, local, used, failed]
  data,             \* what the decoder was given
  decoder,          \* [pos, used]: the word it is at and the bits of it taken
  got,              \* the values read, None where a read failed
  phase

vars == <<packing, written, encoder, data, decoder, got, phase>>

Size == IF packing = "direct" THEN WordSize ELSE ByteSize

Shl(value, n) == (value * 2^n) % 2^WordSize
Shr(value, n) == value \div 2^n

(* What EncodeLeastSignificantBits32 or WriteBitsLSB and EncodeBit are     *)
(* given; a value may have more bits than the field.                       *)
Fields == [op : {"field"}, width : -1 .. WordSize + 1, value : 0 .. 2^WordSize - 1]
Bits == [op : {"bit"}, width : {1}, value : {0, 1}]

IsWidth(n) == IF packing = "direct" THEN n \in 1 .. WordSize ELSE n \in 0 .. WordSize

ValueOf(field) == field.value % 2^field.width

Init ==
  /\ packing \in {"direct", "lsb"}
  /\ written = <<>>
  /\ encoder = [words |-> <<>>, local |-> 0, used |-> 0, failed |-> FALSE]
  /\ data = <<>>
  /\ decoder = [pos |-> 0, used |-> 0]
  /\ got = <<>>
  /\ phase = "write"

-----------------------------------------------------------------------------
(* DirectBitEncoder.                                                       *)

FlushedStale(e) ==                          \* keeps the bits of the word that left
  IF e.used = WordSize THEN [e EXCEPT !.words = Append(@, e.local), !.used = 0] ELSE e
Flushed(e) ==                               \* a full word leaves the encoder
  IF e.used = WordSize
  THEN [e EXCEPT !.words = Append(@, e.local), !.local = 0, !.used = 0]
  ELSE e

WithBit(e, bit) ==
  Flushed([e EXCEPT !.local = @ | (IF bit = 1 THEN Shl(1, WordSize - 1 - e.used) ELSE 0),
                    !.used = @ + 1])

WithField(e, n, value) ==
  LET remaining == WordSize - e.used
      high == Shl(value, WordSize - n)
      low == Shr(high, WordSize - n)
      over == n - remaining
  IN  IF n <= remaining
      THEN Flushed([e EXCEPT !.local = @ | Shr(high, e.used), !.used = @ + n])
      ELSE [e EXCEPT !.words = Append(@, e.local | Shr(low, over)),
                     !.local = Shl(low, WordSize - over), !.used = over]

(* BitWriter.WriteBitsLSB: one bit after the other, low bits first.        *)
WithLowBits(e, n, value) ==
  LET total == e.used + n
      bits == e.local + value * 2^e.used    \* the open byte and the field above it
      full == total \div ByteSize
  IN  [e EXCEPT !.words = @ \o [i \in 1 .. full |-> Shr(bits, (i - 1) * ByteSize) % 2^ByteSize],
                !.local = Shr(bits, full * ByteSize), !.used = total % ByteSize]

(* EncodeBit, EncodeLeastSignificantBits32 and WriteBitsLSB: a width that  *)
(* is out of range is an error the encoder keeps.                          *)
Write(field) ==
  /\ phase = "write" /\ ~encoder.failed
  /\ Len(written) < MaxFields
  /\ packing = "lsb" => field.op = "field"
  /\ written' = Append(written, field)
  /\ encoder' =
       IF field.op = "bit" THEN WithBit(encoder, field.value)
       ELSE IF ~IsWidth(field.width) THEN [encoder EXCEPT !.failed = TRUE]
       ELSE IF packing = "direct" THEN WithField(encoder, field.width, field.value)
       ELSE WithLowBits(encoder, field.width, ValueOf(field))
  /\ UNCHANGED <<packing, data, decoder, got, phase>>

(* EndEncoding: the word under way goes out whether it has bits or not; a  *)
(* BitWriter has a last byte only when it has bits.                        *)
EndEncoding ==
  /\ phase = "write"
  /\ data' = IF packing = "direct" \/ encoder.used > 0
             THEN Append(encoder.words, encoder.local) ELSE encoder.words
  /\ phase' = IF encoder.failed THEN "refused" ELSE "read"
  /\ UNCHANGED <<packing, written, encoder, decoder, got>>

-----------------------------------------------------------------------------
(* DirectBitDecoder: what a read gives and where it leaves the decoder.    *)

Word(i) == data[i + 1]
None == -1

Advanced(n) ==
  IF decoder.used + n = WordSize THEN [pos |-> decoder.pos + 1, used |-> 0]
                                 ELSE [decoder EXCEPT !.used = @ + n]

(* DecodeNextBit: past the data the answer is FALSE, like a bit that is 0. *)
NextBit ==
  IF decoder.pos >= Len(data) THEN [value |-> 0, decoder |-> decoder]
  ELSE [value |-> Shr(Word(decoder.pos), WordSize - 1 - decoder.used) % 2,
        decoder |-> Advanced(1)]

NextField(n) ==
  LET remaining == WordSize - decoder.used
      over == n - remaining
  IN  IF n <= remaining
      THEN IF decoder.pos >= Len(data) THEN [value |-> None, decoder |-> decoder]
           ELSE [value |-> Shr(Shl(Word(decoder.pos), decoder.used), WordSize - n),
                 decoder |-> Advanced(n)]
      ELSE IF decoder.pos + 1 >= Len(data) THEN [value |-> None, decoder |-> decoder]
           ELSE [value |-> Shr(Shl(Word(decoder.pos), decoder.used), WordSize - over - remaining)
                             | Shr(Word(decoder.pos + 1), WordSize - over),
                 decoder |-> [pos |-> decoder.pos + 1, used |-> over]]

(* BitReader.ReadBitsLSB and readTaggedBitsLSB: the bytes the field        *)
(* touches are loaded whole and shifted.                                   *)
BytesTouched(n) == (decoder.used + n + ByteSize - 1) \div ByteSize

Loaded(n) ==
  FoldFunctionOnSet(+, 0, [i \in 0 .. BytesTouched(n) - 1 |-> Word(decoder.pos + i) * 2^(i * ByteSize)],
                    0 .. BytesTouched(n) - 1)

BitsLeft == (Len(data) - decoder.pos) * ByteSize - decoder.used

NextLowBits(n) ==
  IF n = 0 THEN [value |-> 0, decoder |-> decoder]
  ELSE IF n > BitsLeft THEN [value |-> None, decoder |-> decoder]
  ELSE [value |-> Shr(Loaded(n), decoder.used) % 2^n,
        decoder |-> [pos |-> decoder.pos + (decoder.used + n) \div ByteSize,
                     used |-> (decoder.used + n) % ByteSize]]

NextOf(op, width) ==
  CASE op = "bit" -> NextBit
    [] op = "field" /\ packing = "direct" -> NextField(width)
    [] OTHER -> NextLowBits(width)

Take(op, width) ==
  /\ got' = Append(got, NextOf(op, width).value)
  /\ decoder' = NextOf(op, width).decoder

(* The reader asks for the fields in the order they were written, and goes *)
(* on past the last one as one that reads a cut stream does.               *)
Read ==
  /\ phase = "read"
  /\ \/ /\ Len(got) < Len(written)
        /\ Take(written[Len(got) + 1].op, written[Len(got) + 1].width)
     \/ /\ Len(got) = Len(written)
        /\ \E op \in {"field", "bit"}, width \in 1 .. WordSize :
             /\ op = "bit" => packing = "direct" /\ width = 1
             /\ Take(op, width)
  /\ UNCHANGED <<packing, written, encoder, data, phase>>

Next ==
  \/ \E field \in Fields \cup Bits : Write(field)
  \/ EndEncoding
  \/ Read

Spec == Init /\ [][Next]_vars

-----------------------------------------------------------------------------
TypeOK ==
  /\ \A i \in DOMAIN encoder.words : encoder.words[i] \in 0 .. 2^Size - 1
  /\ encoder.local \in 0 .. 2^Size - 1 /\ encoder.used \in 0 .. Size - 1
  /\ decoder.used \in 0 .. Size - 1 /\ decoder.pos \in 0 .. Len(data)

(* Every field comes back as it was written, cut to its width, however the *)
(* fields fall on the boundaries of the words: a bit kept in the wrong     *)
(* word or a shift that is one off shows in a field written later.         *)
FieldsComeBack ==
  \A i \in DOMAIN got : i <= Len(written) => got[i] = ValueOf(written[i])

(* A read past the last field gives only what the packing had left over in *)
(* the last word, and that is zero: no bit of an earlier field comes back  *)
(* a second time (DirectBitDecoder refuses when the words are used up).    *)
NothingAfterTheFields ==
  \A i \in DOMAIN got : i > Len(written) => got[i] \in {0, None}

(* The words hold exactly the fields: at most one word more than the bits  *)
(* need, and a packing whose fields end on a word boundary still hands the *)
(* decoder a payload it accepts (direct_bit.go refuses an empty one).      *)
PayloadIsAccepted ==
  LET bits == FoldSeq(LAMBDA f, total : f.width + total, 0, written)
  IN  phase = "read" =>
        IF packing = "direct" THEN Len(data) = bits \div WordSize + 1
                              ELSE Len(data) = (bits + ByteSize - 1) \div ByteSize

(* What goes in comes out, and nothing else.                               *)
FieldsAreExact == TypeOK /\ FieldsComeBack /\ NothingAfterTheFields /\ PayloadIsAccepted

=============================================================================
