-------------------------- MODULE KdTreeAttributes --------------------------
(***************************************************************************)
(* kd_tree.go: a point cloud goes through the kd-tree codec as one vector  *)
(* of unsigned numbers per point.  Signed attributes are shifted by the    *)
(* least value of each component, float attributes are quantized; what is  *)
(* needed to undo this follows the points in the stream, first what        *)
(* belongs to the quantized attributes, then to the signed ones.           *)
(*                                                                         *)
(* The codec itself gives the vectors back in another order (RoundTrip of  *)
(* KdTreeRoundTrip); here any order may come.                              *)
(***************************************************************************)
EXTENDS Quantization, FiniteSetsExt, SequencesExt

CONSTANTS
  NarrowBits,       \* width of UINT8 and INT8: 8
  WideBits,         \* width of UINT32, INT32: 32
  Clouds,           \* [pointCount, attributes], an attribute is
                    \* [type, components, entries, mapping, option, skip]
  Streams           \* wires no encoder wrote

ASSUME WidthAssumption ==
  /\ NarrowBits \in Nat \ {0} /\ WideBits \in Nat /\ WideBits >= NarrowBits
  /\ MaxBits < WideBits

VARIABLES
  cloud,
  states,           \* of the encoder: [portable, minima, transform] per attribute
  vector, bitLength,
  wire,             \* [attributes, pointCount, rows, transforms, minima]
  pointID,          \* rows written by the decoder
  decoded,          \* entries per attribute
  minima, transforms,                \* of the decoder: per attribute
  phase, item

vars == <<cloud, states, vector, bitLength, wire, pointID, decoded, minima, transforms, phase, item>>

Unsigned == {"uint8", "uint32"}
Signed == {"int8", "int32"}
Supported == Unsigned \cup Signed \cup {"float32"}

Width(type) == IF type \in {"uint8", "int8"} THEN NarrowBits ELSE WideBits
Unwrapped(value, width) == value
ToSigned(value, width) == ((value + 2^(width - 1)) % 2^width) - 2^(width - 1)

Attributes == cloud.attributes
Attribute == Attributes[item]

EntryOf(attribute, point) == IF attribute.mapping = <<>> THEN point ELSE attribute.mapping[point]

NoWire == [attributes |-> <<>>, pointCount |-> 0, bitLength |-> 0, rows |-> <<>>,
           transforms |-> <<>>, minima |-> <<>>]

Init ==
  /\ \/ cloud \in Clouds /\ wire = NoWire /\ phase = "check"
     \/ cloud = [pointCount |-> 0, attributes |-> <<>>] /\ wire \in Streams /\ phase = "written"
  /\ states = <<>> /\ vector = <<>> /\ bitLength = 0
  /\ pointID = 0 /\ decoded = <<>> /\ minima = <<>> /\ transforms = <<>>
  /\ item = 1

decoderVars == <<pointID, decoded, minima, transforms>>

-----------------------------------------------------------------------------
(* Entries and points have to agree where an attribute has no mapping.     *)
CheckAttributes ==
  /\ phase = "check"
  /\ phase' = IF \/ Attributes = <<>>
                 \/ \E i \in DOMAIN Attributes : /\ Attributes[i].mapping = <<>>
                                                 /\ Len(Attributes[i].entries) # cloud.pointCount
              THEN "refused" ELSE "prepare"
  /\ UNCHANGED <<cloud, states, vector, bitLength, wire, decoderVars, item>>

(* attributeMinInt32: over all entries, also those no point refers to.     *)
MinimaOfPoints(entries) == entries[1]       \* the first entry's values
Minima(entries) == MinValues(entries)

Shifted(attribute, least) ==
  [i \in DOMAIN attribute.entries |-> [c \in 1 .. attribute.components |->
     (attribute.entries[i][c] - least[c]) % 2^Width(attribute.type)]]

(* A number below the origin has no unsigned value; what the conversion    *)
(* gives depends on the machine.                                           *)
Conversion(number, saturates) ==
  IF number >= 0 THEN number ELSE IF saturates THEN 0 ELSE number % 2^WideBits

QuantizedEntries(attribute, t, saturates) ==
  [i \in DOMAIN attribute.entries |-> [c \in 1 .. attribute.components |->
     Conversion(Rounded(t, c, attribute.entries[i][c]), saturates)]]

State(portable, least, transform) ==
  [portable |-> portable, minima |-> least, transform |-> transform]

PrepareAttribute ==
  /\ phase = "prepare" /\ item <= Len(Attributes)
  /\ LET a == Attribute
         ready(portable, least, transform) ==
           /\ states' = Append(states, State(portable, least, transform))
           /\ item' = item + 1 /\ UNCHANGED phase
         refuse == phase' = "refused" /\ UNCHANGED <<states, item>>
     IN  \/ a.type \in Unsigned /\ ready(a.entries, <<>>, Refused)
         \/ /\ a.type \in Signed
            /\ IF a.entries = <<>> THEN refuse
               ELSE LET least == Minima(a.entries)
                    IN  ready(Shifted(a, least), least, Refused)
         \/ /\ a.type = "float32"
            /\ LET t == Transform(a.entries, a.option)
               IN  IF t = Refused THEN refuse
                   ELSE \E saturates \in BOOLEAN : ready(QuantizedEntries(a, t, saturates), <<>>, t)
         \/ a.type \notin Supported /\ refuse
  /\ UNCHANGED <<cloud, vector, bitLength, wire, decoderVars>>

(* One row per point, the attributes one after another; bitLength is for   *)
(* the widest number of all rows.                                          *)
RowOf(point) ==
  FlattenSeq([i \in DOMAIN states |-> states[i].portable[EntryOf(Attributes[i], point)]])

BitLengthOf(rows) == Max({0} \cup {BitsRequired(v) : v \in UNION {ToSet(rows[i]) : i \in DOMAIN rows}})

BuildPointVector ==
  /\ phase = "prepare" /\ item > Len(Attributes)
  /\ vector' = [point \in 1 .. cloud.pointCount |-> RowOf(point)]
  /\ bitLength' = BitLengthOf(vector')
  /\ phase' = "encode"
  /\ UNCHANGED <<cloud, states, wire, decoderVars, item>>

(* The codec keeps bitLength bits of each number.                          *)
Reordered(rows) ==
  {[i \in DOMAIN rows |-> [c \in DOMAIN rows[p[i]] |-> rows[p[i]][c] % 2^bitLength]] :
     p \in {q \in [DOMAIN rows -> DOMAIN rows] : \A i, j \in DOMAIN rows : q[i] = q[j] => i = j}}

ForAttributes(Has(_), Item(_)) ==
  LET chosen == SelectSeq([i \in DOMAIN states |-> i], Has)
  IN  [k \in DOMAIN chosen |-> Item(chosen[k])]

EncodePoints ==
  /\ phase = "encode"
  /\ \E rows \in Reordered(vector) :
       wire' = [attributes |-> [i \in DOMAIN Attributes |->
                  [type |-> Attributes[i].type, components |-> Attributes[i].components,
                   skip |-> Attributes[i].skip]],
                pointCount |-> cloud.pointCount, bitLength |-> bitLength, rows |-> rows,
                transforms |-> ForAttributes(LAMBDA i : states[i].transform # Refused,
                                             LAMBDA i : states[i].transform),
                minima |-> FlattenSeq(ForAttributes(LAMBDA i : states[i].minima # <<>>,
                                                    LAMBDA i : states[i].minima))]
  /\ phase' = "written"
  /\ UNCHANGED <<cloud, states, vector, bitLength, decoderVars, item>>

-----------------------------------------------------------------------------
(* The attributes as announced, their entries still zero.                  *)
ReadAttributes ==
  /\ phase = "written"
  /\ IF \/ wire.attributes = <<>> \/ wire.pointCount < 0
        \/ \E i \in DOMAIN wire.attributes : wire.attributes[i].type \notin Supported
     THEN phase' = "failed" /\ UNCHANGED <<decoded, minima, transforms>>
     ELSE /\ decoded' = [i \in DOMAIN wire.attributes |-> [point \in 1 .. wire.pointCount |->
                           [c \in 1 .. wire.attributes[i].components |-> 0]]]
          /\ minima' = [i \in DOMAIN wire.attributes |-> <<>>]
          /\ transforms' = [i \in DOMAIN wire.attributes |-> Refused]
          /\ phase' = "rows"
  /\ item' = 1
  /\ UNCHANGED <<cloud, states, vector, bitLength, wire, pointID>>

Offset(i) == FoldSeq(LAMBDA a, n : a.components + n, 0, SubSeq(wire.attributes, 1, i - 1))

Stored(type, value) == value % 2^Width(type)

(* A row the codec emits: each attribute takes its numbers, as many bits   *)
(* of them as its portable form has.                                       *)
WriteRow ==
  /\ phase = "rows" /\ pointID < Len(wire.rows)
  /\ IF pointID >= wire.pointCount
     THEN phase' = "failed" /\ UNCHANGED <<decoded, pointID>>
     ELSE /\ decoded' = [i \in DOMAIN decoded |-> [decoded[i] EXCEPT ![pointID + 1] =
                [c \in 1 .. wire.attributes[i].components |->
                   Stored(wire.attributes[i].type, wire.rows[pointID + 1][Offset(i) + c])]]]
          /\ pointID' = pointID + 1
          /\ UNCHANGED phase
  /\ UNCHANGED <<cloud, states, vector, bitLength, wire, minima, transforms, item>>

RowsEnd ==
  /\ phase = "rows" /\ pointID = Len(wire.rows)
  /\ phase' = IF pointID # wire.pointCount THEN "failed" ELSE "transforms"
  /\ UNCHANGED <<cloud, states, vector, bitLength, wire, decoderVars, item>>

Of(types) == SelectSeq([i \in DOMAIN wire.attributes |-> i], LAMBDA i : wire.attributes[i].type \in types)

ReadTransforms ==
  /\ phase = "transforms"
  /\ LET quantized == Of({"float32"})
     IN  IF \/ Len(wire.transforms) < Len(quantized)
            \/ \E k \in DOMAIN quantized : \/ ~BitsAllowed(wire.transforms[k].bits)
                                           \/ wire.attributes[quantized[k]].components <= 0
         THEN phase' = "failed" /\ UNCHANGED transforms
         ELSE /\ transforms' = [i \in DOMAIN transforms |->
                   IF Contains(quantized, i)
                   THEN wire.transforms[CHOOSE k \in DOMAIN quantized : quantized[k] = i]
                   ELSE Refused]
              /\ phase' = "minima"
  /\ UNCHANGED <<cloud, states, vector, bitLength, wire, pointID, decoded, minima, item>>

MinimaBefore(signed, k) ==
  FoldSeq(LAMBDA i, n : wire.attributes[i].components + n, 0, SubSeq(signed, 1, k - 1))

ReadMinima ==
  /\ phase = "minima"
  /\ LET signed == Of(Signed)
     IN  IF Len(wire.minima) < MinimaBefore(signed, Len(signed) + 1)
         THEN phase' = "failed" /\ UNCHANGED minima
         ELSE /\ minima' = [i \in DOMAIN minima |->
                   IF Contains(signed, i)
                   THEN LET k == CHOOSE k \in DOMAIN signed : signed[k] = i
                        IN  SubSeq(wire.minima, MinimaBefore(signed, k) + 1, MinimaBefore(signed, k + 1))
                   ELSE <<>>]
              /\ phase' = "restore"
  /\ UNCHANGED <<cloud, states, vector, bitLength, wire, pointID, decoded, transforms, item>>

(* A shifted INT32 that does not fit into INT32 is refused, though the     *)
(* sum may fit; the narrow types have no such test.                        *)
Overflows(type, value) == type = "int32" /\ value > 2^(WideBits - 1) - 1

RestoredSigned(type, least, value) == ToSigned(value + least, Width(type))
RestoredFloat(t, c, value) == Dequantized(t, c, value)

RestoreAttribute ==
  /\ phase = "restore" /\ item <= Len(wire.attributes)
  /\ LET type == wire.attributes[item].type
         entries == decoded[item]
         become(Value(_, _)) ==
           /\ decoded' = [decoded EXCEPT ![item] =
                [i \in DOMAIN entries |-> [c \in DOMAIN entries[i] |-> Value(c, entries[i][c])]]]
           /\ item' = item + 1 /\ UNCHANGED phase
     IN  CASE type \in Signed ->
                IF \E i \in DOMAIN entries : \E c \in DOMAIN entries[i] : Overflows(type, entries[i][c])
                THEN phase' = "failed" /\ UNCHANGED <<decoded, item>>
                ELSE become(LAMBDA c, v : RestoredSigned(type, minima[item][c], v))
           [] type = "float32" /\ ~wire.attributes[item].skip ->
                become(LAMBDA c, v : RestoredFloat(transforms[item], c, v))
           [] OTHER -> item' = item + 1 /\ UNCHANGED <<decoded, phase>>
  /\ UNCHANGED <<cloud, states, vector, bitLength, wire, pointID, minima, transforms>>

EndDecoding ==
  /\ phase = "restore" /\ item > Len(wire.attributes)
  /\ phase' = "done"
  /\ UNCHANGED <<cloud, states, vector, bitLength, wire, decoderVars, item>>

Next ==
  \/ CheckAttributes \/ PrepareAttribute \/ BuildPointVector \/ EncodePoints
  \/ ReadAttributes \/ WriteRow \/ RowsEnd \/ ReadTransforms \/ ReadMinima
  \/ RestoreAttribute \/ EndDecoding

Spec == Init /\ [][Next]_vars

-----------------------------------------------------------------------------
(* Every entry has a place for every point of the header, and numbers as   *)
(* wide as its type.                                                       *)
TypeOK ==
  /\ phase \in {"check", "refused", "prepare", "encode", "written", "rows", "transforms", "minima",
               "restore", "failed", "done"}
  /\ phase \in {"rows", "transforms", "minima"} =>
       \A i \in DOMAIN decoded : \A k \in DOMAIN decoded[i] : \A c \in DOMAIN decoded[i][k] :
         decoded[i][k][c] \in 0 .. 2^Width(wire.attributes[i].type) - 1

SourceOf(i, point) == Attributes[i].entries[EntryOf(Attributes[i], point)]
Covered(i) == \A k \in DOMAIN Attributes[i].entries : \A c \in DOMAIN states[i].transform.min :
                Attributes[i].entries[k][c] >= states[i].transform.min[c]

(* Is a decoded entry what it was made from?  To half a step where it was  *)
(* quantized, to the quantized number where the transform is skipped.      *)
Restores(i, entry, source) ==
  IF Attributes[i].type # "float32" THEN entry = source
  ELSE \A c \in DOMAIN source :
         LET t == states[i].transform
         IN  IF Attributes[i].skip THEN entry[c] = Rounded(t, c, source[c]) ELSE Near(t, entry[c], source[c])

(* The points come back with all of their attributes together, each signed *)
(* and quantized one restored with its own minima and its own transform,   *)
(* whatever other attributes stand between (kd_tree.go:278-304, 413-461);  *)
(* only an explicit range may leave values below its origin.               *)
RoundTrip ==
  phase = "done" /\ Attributes # <<>> /\ (\A i \in DOMAIN Attributes : Attributes[i].type = "float32" => Covered(i)) =>
    \E place \in [1 .. cloud.pointCount -> 1 .. cloud.pointCount] :
      /\ \A k, n \in 1 .. cloud.pointCount : place[k] = place[n] => k = n
      /\ \A k \in 1 .. cloud.pointCount : \A i \in DOMAIN Attributes :
           Restores(i, decoded[i][place[k]], SourceOf(i, k))

(* A float value never gets more bits than asked for, so that bitLength is *)
(* that of the widest attribute and no attribute cuts another short        *)
(* (kd_tree.go:639-648, 1050-1062).                                             *)
QuantizedFits ==
  phase = "encode" =>
    \A i \in DOMAIN states :
      states[i].transform # Refused /\ Attributes[i].option.origin = <<>> =>
        \A k \in DOMAIN states[i].portable : \A c \in DOMAIN states[i].portable[k] :
          states[i].portable[k][c] \in 0 .. MaxQuantized(states[i].transform)

(* A decoder that is done has written every point once, and every restored *)
(* value is one of its type (kd_tree.go:409, 466-527).                     *)
DecodedCloudIsWhole ==
  phase = "done" =>
    /\ pointID = wire.pointCount /\ Len(wire.rows) = wire.pointCount
    /\ \A i \in DOMAIN decoded : wire.attributes[i].type \in Signed =>
         \A k \in DOMAIN decoded[i] : \A c \in DOMAIN decoded[i][k] :
           LET w == Width(wire.attributes[i].type)
           IN  decoded[i][k][c] \in -(2^(w - 1)) .. 2^(w - 1) - 1

(* Every stage keeps to the widths of the types it works on.               *)
DecodedCloudIsSound == TypeOK /\ QuantizedFits /\ DecodedCloudIsWhole

(* A stream of the encoder is refused only for an INT32 component whose    *)
(* values lie further apart than the greatest INT32: the minimum is the    *)
(* least of all entries (kd_tree.go:888-926, 1004).                        *)
NarrowSpansDecode ==
  phase = "failed" /\ Attributes # <<>> =>
    \E i \in DOMAIN Attributes : /\ Attributes[i].type = "int32"
                                 /\ Spread(Attributes[i].entries) > 2^(WideBits - 1) - 1

(* So a cloud that is not too wide comes back.                             *)
CloudComesBack == RoundTrip /\ NarrowSpansDecode

=============================================================================
