--------------------------- MODULE SequentialCodec ---------------------------
(***************************************************************************)
(* The sequential codec for one attribute of a mesh or a point cloud: its  *)
(* connectivity as a list of differences, its values predicted one from    *)
(* another and sent as corrections (encoder.go, integer_codec.go), and the *)
(* decoder that reads them back (decoder.go, integer_codec.go).            *)
(*                                                                         *)
(* The encoder predicts from the last entry to the first and knows all     *)
(* values; the decoder goes the other way and knows those before the entry *)
(* it restores.  A job says what is encoded:                               *)
(*   mesh      the faces, none for a cloud    cloud    whether it is one   *)
(*   points    the number of points           entries  of values           *)
(*   values    of the entries                 mapped   is there a mapping? *)
(*   entryOf   the entry of each point        kind     "integer", "generic"*)
(*   method    of prediction                                               *)
(* "integer" stands for quantized values too, "generic" for what is copied *)
(* without being looked at.                                                *)
(***************************************************************************)
EXTENDS MeshPrediction

CONSTANTS
  Jobs,        \* what is encoded
  Streams,     \* what a decoder is given that no encoder need have written
  FitIn,       \* FitIn[k] numbers fit in k bytes
  Leftovers    \* what the decoder's buffer may hold from an earlier attribute

VARIABLES
  job,          \* what is encoded, Foreign if the stream comes from elsewhere
  phase,
  entry,        \* the entry that is predicted or restored next
  method,       \* of prediction, chosen by the encoder, then read
  context,      \* the mesh prediction context of this side
  bounds,       \* the wrap transform of this side
  corrections,
  creases,      \* flags of the constrained method, by number of predictions
  history,      \* of each entry, what the encoder predicted, from which flags on
  stream,
  indices,      \* corners read so far
  values        \* the decoder's

vars == <<job, phase, entry, method, context, bounds, corrections, creases, history,
          stream, indices, values>>

Foreign == [kind |-> "foreign"]
None == "none"
Methods == MeshMethods \cup {"difference", None}
Contexts == 1 .. maxConstrainedMultiParallelograms
NoCreases == [n \in Contexts |-> <<>>]
NoStream == [kind |-> "nothing"]
NoBounds == Wrap(0, 0)
NoContext == PredictionContext([numVertices |-> 0, numFaces |-> 0, vertexAt |-> <<>>], <<>>, 0)

Entries(n) == 0 .. n - 1

(* What the public types hold of a geometry: faces of its points, and a    *)
(* mapping to entries that are there, which is the identity if none is set.*)
ASSUME JobsAssumption ==
  \A j \in Jobs :
     /\ j.kind \in {"integer", "generic"} /\ j.method \in Methods
     /\ j.cloud \in BOOLEAN /\ j.mapped \in BOOLEAN
     /\ j.points \in Nat /\ j.entries \in Nat
     /\ j.mesh.numFaces \in Nat
     /\ j.mesh.vertexAt \in [Corners(j.mesh.numFaces) -> Entries(j.points)]
     /\ j.mesh = [numVertices |-> j.points, numFaces |-> j.mesh.numFaces,
                  vertexAt |-> j.mesh.vertexAt]
     /\ j.values \in [Entries(j.entries) -> Int32]
     /\ j.entryOf \in [Entries(j.points) -> Entries(j.entries)]
     /\ ~j.mapped => \A p \in Entries(j.points) : j.entryOf[p] = p

(* A stream of no points is left out: the decoder slices the corrections of *)
(* a first point that is not there (integer_codec.go:200).                  *)
ASSUME StreamsAssumption == \A s \in Streams : s.points \in Nat \ {0}

ASSUME FitInAssumption ==
  /\ FitIn \in [1 .. 4 -> Nat]
  /\ FitIn[4] >= 2 * HalfRange

-----------------------------------------------------------------------------
(* Connectivity.                                                           *)

CornerIndices(mesh) == [i \in 1 .. 3 * mesh.numFaces |-> mesh.vertexAt[i - 1]]

Last0(read) == IF read = <<>> THEN 0 ELSE read[Len(read)]

DifferenceSymbol(difference) ==
  IF difference < 0 THEN 2 * (-difference) + 1 ELSE 2 * difference

(* encodeSequentialCompressedIndices: each index as the difference to the  *)
(* one before it, the sign in the last bit.                                *)
IndexSymbols(list) ==
  [i \in DOMAIN list |->
     DifferenceSymbol(list[i] - (IF i = 1 THEN 0 ELSE list[i - 1]))]

DifferenceOf(symbol) == IF symbol % 2 = 1 THEN -(symbol \div 2) ELSE symbol \div 2

(* What the decoder makes of the next number of the stream.                *)
IndexRead ==
  LET sent == stream.indices[Len(indices) + 1]
  IN  IF stream.compressed THEN Last0(indices) + DifferenceOf(sent) ELSE sent

MeshRead ==
  [numVertices |-> stream.points,
   numFaces |-> Len(indices) \div 3,
   vertexAt |-> [c \in Corners(Len(indices) \div 3) |-> indices[c + 1]]]

-----------------------------------------------------------------------------
(* The encoder.                                                            *)

Init ==
  /\ \/ job \in Jobs /\ phase = "encoding" /\ stream = NoStream
     \/ job = Foreign /\ phase = "faces" /\ stream \in Streams
  /\ entry = 0
  /\ method = None
  /\ context = NoContext
  /\ bounds = NoBounds
  /\ corrections = <<>>
  /\ creases = NoCreases
  /\ history = <<>>
  /\ indices = <<>>
  /\ values = <<>>

(* readAttributeInt32Values takes the first entries, as many as there are  *)
(* points, whatever the mapping says.                                      *)
ValuesByPoint == [p \in Entries(job.points) |-> job.values[job.entryOf[p]]]
ValuesRead == [e \in Entries(job.points) |-> job.values[e]]

TooFewEntries == job.entries < job.points

(* Values too far apart for the transform, or none, are sent as they are.  *)
CannotWrap(read) ==
  DOMAIN read # {} => \E d, e \in DOMAIN read : read[e] - read[d] >= HalfRange - 1

(* InitFromValues.                                                         *)
Spans(read, min, max) ==
  /\ \E e \in DOMAIN read : read[e] = min
  /\ \E e \in DOMAIN read : read[e] = max
  /\ \A e \in DOMAIN read : min <= read[e] /\ read[e] <= max

(* Parallelograms need a mesh whose corner table can be built.             *)
MeshMissing ==
  job.method \in MeshMethods /\ (job.cloud \/ TableIsRefused(job.mesh))

EncoderContext ==
  IF job.method \in MeshMethods THEN PredictionContext(job.mesh, job.entryOf, job.points)
  ELSE NoContext

Refuse == /\ phase' = "refused"
          /\ UNCHANGED <<job, entry, method, context, bounds, corrections, creases, history,
                         stream, indices, values>>

RefuseAttribute ==
  /\ phase = "encoding"
  /\ job.kind = "integer"
  /\ \/ TooFewEntries
     \/ ~TooFewEntries /\ ~CannotWrap(ValuesRead) /\ MeshMissing
  /\ Refuse

SendUnpredicted ==
  /\ phase = "encoding"
  /\ job.kind = "integer"
  /\ ~TooFewEntries
  /\ CannotWrap(ValuesRead) \/ job.method = None
  /\ phase' = "coding"
  /\ corrections' = ValuesRead
  /\ UNCHANGED <<job, entry, method, context, bounds, creases, history, stream, indices, values>>

StartPredicting ==
  /\ phase = "encoding"
  /\ job.kind = "integer"
  /\ ~TooFewEntries
  /\ ~CannotWrap(ValuesRead)
  /\ job.method # None
  /\ ~MeshMissing
  /\ phase' = "predicting"
  /\ method' = job.method
  /\ context' = EncoderContext
  /\ \E min, max \in {ValuesRead[e] : e \in DOMAIN ValuesRead} :
        Spans(ValuesRead, min, max) /\ bounds' = Wrap(min, max)
  /\ entry' = job.points - 1
  /\ UNCHANGED <<job, corrections, creases, history, stream, indices, values>>

(* The encoder tries all subsets of the predictions and keeps the one it   *)
(* estimates to be the cheapest: any of them.                              *)
CreaseChoices(by, n) == IF by = "constrained" /\ n > 0 THEN [1 .. n -> BOOLEAN] ELSE {<<>>}

NoFlags(crease) == crease = <<>>

(* The flags of an entry go behind those of the entries predicted with as  *)
(* many predictions.                                                       *)
WithCreases(all, crease) ==
  IF NoFlags(crease) THEN all ELSE [all EXCEPT ![Len(crease)] = Append(@, crease)]

PredictEntry ==
  /\ phase = "predicting"
  /\ entry >= 0
  /\ \E crease \in CreaseChoices(method, HowMany(PredictionsFor(method, context, entry, ValuesRead))) :
       LET guess == Prediction(method, context, entry, ValuesRead, crease)
       IN  /\ corrections' = [e \in DOMAIN corrections \cup {entry} |->
                                IF e = entry THEN Correction(bounds, ValuesRead[entry], guess)
                                ELSE corrections[e]]
           /\ creases' = WithCreases(creases, crease)
           /\ history' = [e \in DOMAIN history \cup {entry} |->
                            IF e = entry THEN [guess |-> guess, crease |-> crease, before |-> creases]
                            ELSE history[e]]
  /\ entry' = entry - 1
  /\ UNCHANGED <<job, phase, method, context, bounds, stream, indices, values>>

AllPredicted ==
  /\ phase = "predicting"
  /\ entry < 0
  /\ phase' = "coding"
  /\ UNCHANGED <<job, entry, method, context, bounds, corrections, creases, history, stream,
                 indices, values>>

-----------------------------------------------------------------------------
(* The stream.                                                             *)

Symbols == [e \in DOMAIN corrections |-> ToSymbol(corrections[e])]

(* encodeRawSymbols: as many bytes for each as the greatest needs.         *)
RawWidth(symbols) ==
  CHOOSE k \in 1 .. 4 : /\ \A e \in DOMAIN symbols : symbols[e] < FitIn[k]
                        /\ \A j \in 1 .. k - 1 : \E e \in DOMAIN symbols : symbols[e] >= FitIn[j]

RawBytes(symbols, width) == [e \in DOMAIN symbols |-> symbols[e] % FitIn[width]]

(* encodeConstrainedMultiPredictionData sends the flags of the last group  *)
(* first, which is the group of the first entry.                           *)
FlagsAsFound(all) == all
FlagsToSend(all) == [n \in Contexts |-> Reverse(all[n])]

Wire(compressed, kind, width, symbols) ==
  [points |-> job.points,
   compressed |-> compressed,
   indices |-> IF compressed THEN IndexSymbols(CornerIndices(job.mesh)) ELSE CornerIndices(job.mesh),
   kind |-> kind,
   cloud |-> job.cloud,
   method |-> method,
   width |-> width,
   symbols |-> symbols,
   min |-> bounds.minValue,
   max |-> bounds.maxValue,
   flags |-> FlagsToSend(creases)]

(* Width 0 stands for the symbol coder.                                    *)
WriteIntegers ==
  /\ phase = "coding"
  /\ \E compressed \in BOOLEAN, raw \in BOOLEAN :
       stream' = Wire(compressed, "integer",
                      IF raw THEN RawWidth(Symbols) ELSE 0,
                      IF raw THEN RawBytes(Symbols, RawWidth(Symbols)) ELSE Symbols)
  /\ phase' = "faces"
  /\ entry' = 0
  /\ bounds' = NoBounds
  /\ context' = NoContext
  /\ creases' = NoCreases
  /\ method' = None
  /\ UNCHANGED <<job, corrections, history, indices, values>>

(* A generic attribute without a mapping is written whole, with one, by    *)
(* point.                                                                  *)
GenericWritten == IF job.mapped THEN ValuesByPoint ELSE job.values

WriteGeneric ==
  /\ phase = "encoding"
  /\ job.kind = "generic"
  /\ \E compressed \in BOOLEAN : stream' = Wire(compressed, "generic", 0, GenericWritten)
  /\ phase' = "faces"
  /\ UNCHANGED <<job, entry, method, context, bounds, corrections, creases, history, indices, values>>

-----------------------------------------------------------------------------
(* The decoder.                                                            *)

Fail == /\ phase' = "failed"
        /\ UNCHANGED <<job, entry, method, context, bounds, corrections, creases, history, stream,
                       indices, values>>

FacesLeft == Len(indices) < Len(stream.indices)

ReadIndex ==
  /\ phase = "faces"
  /\ FacesLeft
  /\ IndexRead \in 0 .. stream.points - 1
  /\ indices' = Append(indices, IndexRead)
  /\ UNCHANGED <<job, phase, entry, method, context, bounds, corrections, creases, history, stream,
                 values>>

ReadBadIndex ==
  /\ phase = "faces"
  /\ FacesLeft
  /\ IndexRead \notin 0 .. stream.points - 1
  /\ Fail

(* The decoder reads as many values as there are points; its attribute has *)
(* no mapping.                                                             *)
SymbolsMissing == ~(Entries(stream.points) \subseteq DOMAIN stream.symbols)

DecoderContext ==
  IF stream.method \in MeshMethods
  THEN PredictionContext(MeshRead, [p \in Entries(stream.points) |-> p], stream.points)
  ELSE NoContext

BadHeader ==
  \/ stream.width > 4
  \/ SymbolsMissing
  \/ stream.kind = "integer" /\ stream.method # None /\ RangeIsRefused(stream.min, stream.max)
  \/ stream.kind = "integer" /\ stream.method \in MeshMethods
     /\ (stream.cloud \/ TableIsRefused(MeshRead))

RefuseStream ==
  /\ phase = "faces"
  /\ ~FacesLeft
  /\ BadHeader
  /\ Fail

ReadUnpredicted ==
  /\ phase = "faces"
  /\ ~FacesLeft
  /\ ~BadHeader
  /\ stream.kind = "generic" \/ stream.method = None
  /\ phase' = "decoded"
  /\ values' = [e \in Entries(stream.points) |->
                  IF stream.kind = "generic" THEN stream.symbols[e]
                  ELSE FromSymbol(stream.symbols[e])]
  /\ UNCHANGED <<job, entry, method, context, bounds, corrections, creases, history, stream, indices>>

(* The values of the constrained method get a new array, those of the      *)
(* others a buffer that was used before.                                   *)
MayHold == IF stream.method = "constrained" THEN {0} ELSE Leftovers

StartRestoring ==
  /\ phase = "faces"
  /\ ~FacesLeft
  /\ ~BadHeader
  /\ stream.kind = "integer"
  /\ stream.method # None
  /\ phase' = "restoring"
  /\ method' = stream.method
  /\ context' = DecoderContext
  /\ bounds' = Wrap(stream.min, stream.max)
  /\ creases' = stream.flags
  /\ entry' = 0
  /\ \E left \in MayHold : values' = [e \in Entries(stream.points) |-> left]
  /\ UNCHANGED <<job, corrections, history, stream, indices>>

PredictionsHere == PredictionsFor(method, context, entry, values)

NeedsFlags == method = "constrained" /\ PredictionsHere # <<>>

FlagsHere == IF NeedsFlags THEN Head(creases[HowMany(PredictionsHere)]) ELSE <<>>

FlagsTruncated ==
  LET groups == creases[HowMany(PredictionsHere)]
  IN  NeedsFlags /\ (groups # <<>> => Len(Head(groups)) < HowMany(PredictionsHere))

RestoreEntry ==
  /\ phase = "restoring"
  /\ entry < stream.points
  /\ ~FlagsTruncated
  /\ values' = [values EXCEPT ![entry] =
                  OriginalValue(bounds, Prediction(method, context, entry, values, FlagsHere),
                                FromSymbol(stream.symbols[entry]))]
  /\ creases' = IF NeedsFlags THEN [creases EXCEPT ![HowMany(PredictionsHere)] = Tail(@)] ELSE creases
  /\ entry' = entry + 1
  /\ UNCHANGED <<job, phase, method, context, bounds, corrections, history, stream, indices>>

MissFlags ==
  /\ phase = "restoring"
  /\ entry < stream.points
  /\ FlagsTruncated
  /\ Fail

AllRestored ==
  /\ phase = "restoring"
  /\ entry = stream.points
  /\ phase' = "decoded"
  /\ UNCHANGED <<job, entry, method, context, bounds, corrections, creases, history, stream, indices,
                 values>>

EncoderNext ==
  \/ RefuseAttribute
  \/ SendUnpredicted
  \/ StartPredicting
  \/ PredictEntry
  \/ AllPredicted
  \/ WriteIntegers
  \/ WriteGeneric

DecoderNext ==
  \/ ReadIndex
  \/ ReadBadIndex
  \/ RefuseStream
  \/ ReadUnpredicted
  \/ StartRestoring
  \/ RestoreEntry
  \/ MissFlags
  \/ AllRestored

Next == EncoderNext \/ DecoderNext

Spec == Init /\ [][Next]_vars

-----------------------------------------------------------------------------
(* Only generic values are sent through the mapping of the attribute:      *)
(* numbers are the first entries, as many as there are points              *)
(* (integer_codec.go:448), and come back as the values of these points.    *)
OwnEntries == \A p \in Entries(job.points) : job.entryOf[p] = p

ValuesSent ==
  IF job.kind = "generic" \/ OwnEntries THEN ValuesByPoint ELSE ValuesRead

(* What both sides need to predict alike: a mesh seen through a mapping is *)
(* walked by entry where it is encoded and by point where it is decoded,   *)
(* and a sum that turns over (wrap.go:119) is not undone.                  *)
SumsFit == stream.method # None => RoomForCorrections(Wrap(stream.min, stream.max))
SameWalk == stream.method \in MeshMethods => OwnEntries

Faithful == job # Foreign /\ SumsFit /\ SameWalk

Reading == phase \in {"faces", "restoring", "decoded", "failed"}

(* Geometry comes back: whatever the attribute, its mapping and the width  *)
(* of its values, a decoded mesh has the corners that were written         *)
(* (decoder.go:728), and no stream of the encoder's is refused but one of  *)
(* the constrained method, for want of flags, whose two sides predicted    *)
(* from different walks or lost a sum (mesh_prediction.go:437).  Where     *)
(* they predict alike, what was sent comes back (integer_codec.go:71):     *)
(* for every point its value, but for numbers that have a mapping, where   *)
(* it is the value of the entry that has the number of the point.          *)
GeometryComesBack ==
  Reading /\ job # Foreign =>
    /\ phase = "failed" => stream.method = "constrained" /\ ~Faithful
    /\ phase = "decoded" => indices = CornerIndices(job.mesh)
    /\ phase = "decoded" /\ Faithful => values = ValuesSent

(* The decoder, which knows the values before an entry only, predicts what *)
(* the encoder predicted with all of them in sight (mesh_prediction.go:128)*)
(* and takes the flags of the entry from lists that were filled from the   *)
(* other end (mesh_prediction.go:506).                                     *)
PredictionsAgree ==
  phase = "restoring" /\ Faithful /\ entry < stream.points =>
    /\ ~FlagsTruncated
    /\ FlagsHere = history[entry].crease
    /\ Prediction(method, context, entry, values, FlagsHere) = history[entry].guess

(* A generic attribute without a mapping is written whole: entries beyond  *)
(* the points stay in the stream (encoder.go:484).                         *)
NoSurplus == job.kind = "generic" => job.mapped \/ job.entries = job.points

(* Nothing in a stream is too much: the symbol of a predicted value is     *)
(* less than the span of the values (wrap.go:107), and once everything is  *)
(* decoded no flag and no value is left to be taken for what comes next.   *)
NothingIsLeftOver ==
  /\ Reading /\ job # Foreign /\ stream.method # None =>
        \A e \in DOMAIN stream.symbols : stream.symbols[e] <= stream.max - stream.min
  /\ phase = "decoded" /\ Faithful =>
        creases = NoCreases /\ (NoSurplus => DOMAIN stream.symbols = Entries(job.points))

=============================================================================
