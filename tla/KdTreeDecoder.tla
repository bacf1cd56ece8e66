---------------------------- MODULE KdTreeDecoder ----------------------------
(***************************************************************************)
(* DecodePointsToRowsContext of internal/codec/kdtree/dynamic.go.  It      *)
(* reads what an encoder wrote or, where none has, anything: then every    *)
(* read may give any value of its width, or fail.                          *)
(***************************************************************************)
EXTENDS KdTreeEncoder

VARIABLES
  read,             \* fields read of each stream
  decodeStack,      \* [numRemainingPoints, lastAxis, stackPos]
  decodeBase, decodeLevels,
  rows,             \* what was emitted
  misread           \* has a field been read with another width than it was written with?

decoderVars == <<read, decodeStack, decodeBase, decodeLevels, rows, misread>>

Unread == [numbers |-> 0, remaining |-> 0, axes |-> 0, halves |-> 0]

DecoderInit ==
  /\ read = Unread
  /\ decodeStack = <<>>
  /\ decodeBase = <<>> /\ decodeLevels = <<>>
  /\ rows = <<>>
  /\ misread = FALSE

NumPoints == header.numPoints

(* No encode of this program made the streams.                             *)
Arbitrary == jobs = <<>>

(* From the header to the loop.  No points are no streams either.          *)
StartDecoding ==
  /\ phase = "written"
  /\ read' = Unread /\ rows' = <<>> /\ misread' = FALSE
  /\ IF dimension <= 0 \/ level \notin Levels \/ BitLength > WordBits
     THEN phase' = "failed" /\ UNCHANGED <<decodeStack, decodeBase, decodeLevels>>
     ELSE IF NumPoints = 0
     THEN phase' = "done" /\ UNCHANGED <<decodeStack, decodeBase, decodeLevels>>
     ELSE /\ decodeStack' = <<[numRemainingPoints |-> NumPoints, lastAxis |-> 0, stackPos |-> 0]>>
          /\ decodeBase' = Prepared(decodeBase, dimension)
          /\ decodeLevels' = Prepared(decodeLevels, dimension)
          /\ phase' = "decode"
  /\ UNCHANGED <<wireVars, encoderVars>>

-----------------------------------------------------------------------------
(* The n-th field from here on of a stream, read with this width.          *)
Values(stream, taken, width) ==
  IF Arbitrary THEN 0 .. TwoTo[width] - 1
  ELSE IF taken + 1 \in DOMAIN stream THEN {stream[taken + 1].value % TwoTo[width]}
  ELSE {}

Misreads(stream, taken, width) ==
  ~Arbitrary /\ (taken + 1 \in DOMAIN stream => stream[taken + 1].width # width)

Cell == Last(decodeStack)
CellBase == decodeBase[Cell.stackPos]
CellLevels == decodeLevels[Cell.stackPos]
CellSize == Cell.numRemainingPoints
ReadsAxis == SelectAxis /\ CellSize >= AxisThreshold

(* kdTreeGetAxis.                                                          *)
AxesRead ==
  IF ~SelectAxis THEN {IncrementMod(Cell.lastAxis, dimension)}
  ELSE IF ~ReadsAxis THEN {LeastLevelAxis(CellLevels)}
  ELSE Values(axes, read.axes, AxisBitCount)

DecodingNode(a) ==
  /\ phase = "decode" /\ decodeStack # <<>>
  /\ a \in AxesRead /\ a \in Axes
  /\ UNCHANGED <<wireVars, encoderVars>>

AfterAxis == IF ReadsAxis THEN [read EXCEPT !.axes = @ + 1] ELSE read
AxisMisread == misread \/ (ReadsAxis /\ Misreads(axes, read.axes, AxisBitCount))

DecodeKnownNode(a) ==
  /\ DecodingNode(a)
  /\ CellLevels[a] = BitLength
  /\ rows' = rows \o [i \in 1 .. CellSize |-> CellBase]
  /\ decodeStack' = Front(decodeStack)
  /\ read' = AfterAxis
  /\ misread' = AxisMisread
  /\ UNCHANGED <<decodeBase, decodeLevels, phase>>

(* One or two points: of every axis the bits that are open, beside those   *)
(* of the base, which has zeros there.                                     *)
Open(b) == BitLength - CellLevels[b]
NumWanted == CellSize * Cardinality(OpenAxes(CellLevels))

(* Pairs of a point and the place of an axis, and where their bits are.    *)
Places(order) == (1 .. CellSize) \X (DOMAIN order)
FieldAt(p) == read.remaining + (p[1] - 1) * Cardinality(OpenAxes(CellLevels)) + p[2]

Taken(order) ==
  IF Arbitrary
  THEN {t \in [Places(order) -> 0 .. TwoTo[BitLength] - 1] :
          \A p \in Places(order) : t[p] < TwoTo[Open(order[p[2]])]}
  ELSE IF read.remaining + NumWanted > Len(remaining) THEN {}
  ELSE {[p \in Places(order) |-> remaining[FieldAt(p)].value % TwoTo[Open(order[p[2]])]]}

RowsOf(order, taken) ==
  [i \in 1 .. CellSize |-> [b \in Axes |-> CellBase[b] +
     IF b \in OpenAxes(CellLevels) THEN taken[<<i, CHOOSE k \in DOMAIN order : order[k] = b>>] ELSE 0]]

DecodeSmallNode(a) ==
  /\ DecodingNode(a)
  /\ CellLevels[a] < BitLength /\ CellSize <= 2
  /\ \E order \in OpenAxesFrom(a, CellLevels) :
       /\ \E taken \in Taken(order) : rows' = rows \o RowsOf(order, taken)
       /\ misread' = (AxisMisread \/ \E p \in Places(order) :
                        Misreads(remaining, FieldAt(p) - 1, Open(order[p[2]])))
  /\ read' = [AfterAxis EXCEPT !.remaining = @ + NumWanted]
  /\ decodeStack' = Front(decodeStack)
  /\ UNCHANGED <<decodeBase, decodeLevels, phase>>

(* The sizes of the halves: what the smaller lacks to half of the points,  *)
(* and which it is.                                                        *)
SizesUnswapped(number, bit) ==              \* takes the first for the smaller always
  <<CellSize \div 2 - number, CellSize - (CellSize \div 2 - number)>>
SizesHalved(number, bit) ==                 \* loses the odd point
  <<CellSize \div 2 - number, CellSize \div 2 + number>>
Sizes(number, bit) ==
  LET smaller == CellSize \div 2 - number
  IN  IF bit = 1 THEN <<smaller, CellSize - smaller>> ELSE <<CellSize - smaller, smaller>>

(* A stream of bits that has run out goes on with zeros.                   *)
Bits == IF Values(halves, read.halves, 1) = {} THEN {0} ELSE Values(halves, read.halves, 1)

DecodeSplit(a) ==
  /\ DecodingNode(a)
  /\ CellLevels[a] < BitLength /\ CellSize > 2
  /\ LET width == MostSignificantBit(CellSize)
         pos == Cell.stackPos
         levels == [CellLevels EXCEPT ![a] = @ + 1]
         half(n, p) == IfAny(n, [numRemainingPoints |-> n, lastAxis |-> a, stackPos |-> p])
     IN  \E number \in Values(numbers, read.numbers, width) :
           /\ number <= CellSize \div 2
           /\ LET differ == 2 * (CellSize \div 2 - number) # CellSize
              IN  \E bit \in IF differ THEN Bits ELSE {1} :
                    /\ decodeStack' = Front(decodeStack) \o
                         Push(half(Sizes(number, bit)[1], pos), half(Sizes(number, bit)[2], pos + 1))
                    /\ read' = [AfterAxis EXCEPT !.numbers = @ + 1,
                                                 !.halves = IF differ THEN @ + 1 ELSE @]
                    /\ misread' = (AxisMisread \/ Misreads(numbers, read.numbers, width))
           /\ decodeBase' = [decodeBase EXCEPT ![pos + 1] =
                               [CellBase EXCEPT ![a] = @ + Half(CellLevels, a)]]
           /\ decodeLevels' = [decodeLevels EXCEPT ![pos] = levels, ![pos + 1] = levels]
  /\ UNCHANGED <<rows, phase>>

(* An axis that does not exist, a half that is larger than the whole, a    *)
(* stream that has run out, a context that is cancelled.                   *)
DecodeFails ==
  /\ phase = "decode" /\ decodeStack # <<>>
  /\ \/ Arbitrary
     \/ \E a \in AxesRead : a \notin Axes
     \/ AxesRead = {}
     \/ \E a \in AxesRead \cap Axes :
          /\ CellLevels[a] < BitLength
          /\ \/ CellSize <= 2 /\ read.remaining + NumWanted > Len(remaining)
             \/ /\ CellSize > 2
                /\ \A number \in Values(numbers, read.numbers, MostSignificantBit(CellSize)) :
                     number > CellSize \div 2
  /\ phase' = "failed"
  /\ UNCHANGED <<wireVars, encoderVars, decoderVars>>

CancelDecoding ==
  /\ phase = "decode" /\ decodeStack # <<>>
  /\ phase' = "cancelled"
  /\ UNCHANGED <<wireVars, encoderVars, decoderVars>>

EndDecoding ==
  /\ phase = "decode" /\ decodeStack = <<>>
  /\ phase' \in IF Arbitrary THEN {"done", "failed"}
                ELSE IF NumbersEndClean THEN {"done"} ELSE {"failed"}
  /\ UNCHANGED <<wireVars, encoderVars, decoderVars>>

DecodeNode ==
  \E a \in Axes : DecodeKnownNode(a) \/ DecodeSmallNode(a) \/ DecodeSplit(a)

DecoderNext ==
  \/ StartDecoding \/ DecodeNode \/ DecodeFails \/ CancelDecoding \/ EndDecoding

=============================================================================
