---------------------------- MODULE EntropyCoders ----------------------------
(***************************************************************************)
(* The entropy coders of internal/entropy, one of them at work: a codec    *)
(* writes a part of its stream with the packed bits (BitPacking), with the *)
(* adaptive bit coder or its bank of 33 (RansBits), or with the symbol     *)
(* coder (RansSymbols), and never uses two of them on the same part.  The  *)
(* coders share no state, so this module only chooses one and runs it.     *)
(***************************************************************************)
EXTENDS RansSymbols

CONSTANTS WordSize, ByteSize, MaxFields, Banks, Inputs

VARIABLES
  coder,            \* "packing", "bits" or "symbols"
  packing, written, packer, data, unpacker, unpacked, packPhase,
  bank, fields, bits, flushing, payload, bitDecoder, reading, bitsGot, bitPhase

packVars == <<packing, written, packer, data, unpacker, unpacked, packPhase>>
bitVars == <<bank, fields, bits, flushing, payload, bitDecoder, reading, bitsGot, bitPhase>>
coderVars == <<coder, vars, packVars, bitVars>>

Packing == INSTANCE BitPacking
             WITH encoder <- packer, decoder <- unpacker, got <- unpacked, phase <- packPhase

Bits == INSTANCE RansBits
          WITH decoder <- bitDecoder, got <- bitsGot, phase <- bitPhase

(* A coder that is not at work has nothing to do.                          *)
CoderInit ==
  /\ coder \in {"packing", "bits", "symbols"}
  /\ packing \in IF coder = "packing" THEN {"direct", "lsb"} ELSE {"direct"}
  /\ bank \in IF coder = "bits" THEN Banks ELSE {"rans"}
  /\ fields \in IF coder = "bits" THEN Inputs ELSE {<<>>}
  /\ jobs \in IF coder = "symbols" THEN Jobs ELSE {<<>>}
  /\ Packing!Init /\ Bits!Init /\ Init

PackingStep == coder = "packing" /\ Packing!Next /\ UNCHANGED <<coder, vars, bitVars>>
BitsStep == coder = "bits" /\ Bits!Next /\ UNCHANGED <<coder, vars, packVars>>
SymbolsStep == coder = "symbols" /\ Next /\ UNCHANGED <<coder, packVars, bitVars>>

CoderNext == PackingStep \/ BitsStep \/ SymbolsStep

(* Encoding and decoding are calls that run to their end.                  *)
CoderSpec == CoderInit /\ [][CoderNext]_coderVars /\ WF_coderVars(SymbolsStep)

-----------------------------------------------------------------------------
(* Packed fields come out of the words and bytes as they went in, and      *)
(* nothing of them comes out twice (direct_bit.go, writer.go, reader.go).  *)
PackedFieldsAreExact == Packing!FieldsAreExact

(* The bit coders give the numbers back, in a state the wire can hold and  *)
(* within the buffer the encoder allocated (rans_bit.go, folded_bit.go).   *)
CodedNumbersAreExact == Bits!NumbersAreExact

(* A bit decoder that has read all bits tells the stream is used up, but   *)
(* for one known case (rans_bit.go, EndDecoding).                          *)
UncleanOnlyAfterRareLastBit == Bits!UncleanOnlyAfterRareLastBit

=============================================================================
