--------------------------- MODULE KdTreeRoundTrip ---------------------------
(***************************************************************************)
(* The kd-tree encoder and decoder in a row, as a point cloud goes through *)
(* them: the streams of one encode are decoded, then the next job begins   *)
(* with the scratches as this one left them, ended or not.  Under one of   *)
(* Headers the decoder stands alone and its streams are arbitrary.         *)
(***************************************************************************)
EXTENDS KdTreeDecoder

CONSTANT
  Headers           \* of arbitrary streams: [bitLength, numPoints, level, dimension]

(* What a header can say: two numbers of 32 bits, a level and a dimension  *)
(* of any value.                                                           *)
ASSUME HeadersAssumption ==
  \A h \in Headers :
    /\ h.bitLength \in Nat /\ h.level \in Int /\ h.dimension \in Int
    /\ h.numPoints \in Nat /\ Fits32(h.numPoints)

vars == <<wireVars, encoderVars, decoderVars, phase>>

Init ==
  /\ DecoderInit
  /\ \/ EncoderInit
     \/ \E h \in Headers :
          /\ header = [bitLength |-> h.bitLength, numPoints |-> h.numPoints]
          /\ level = h.level /\ dimension = h.dimension
          /\ numbers = <<>> /\ remaining = <<>> /\ axes = <<>> /\ halves = <<>>
          /\ jobs = <<>> /\ points = <<>> /\ encodeStack = <<>>
          /\ encodeBase = <<>> /\ encodeLevels = <<>>
          /\ phase = "written"

Resting == {"done", "refused", "cancelled", "failed"}

NextJob ==
  /\ phase \in Resting /\ Len(jobs) > 1
  /\ jobs' = Tail(jobs)
  /\ phase' = "start"
  /\ UNCHANGED <<wireVars, points, encodeStack, encodeBase, encodeLevels, decoderVars>>

EncodeStep == EncoderNext /\ UNCHANGED decoderVars

Next == EncodeStep \/ DecoderNext \/ NextJob

(* Both loops run on without waiting for anyone; nothing forces a context  *)
(* to be cancelled.                                                        *)
Spec == Init /\ [][Next]_vars /\ WF_vars(Next)

-----------------------------------------------------------------------------
(* Each side has sound nodes while it works, points are rows of the header.*)
TypeOK ==
  /\ phase \in Resting \cup {"start", "encode", "written", "decode"}
  /\ phase = "encode" => \A i \in DOMAIN encodeStack :
       encodeStack[i].begin < encodeStack[i].end /\ encodeStack[i].end \in 1 .. NumPoints
  /\ phase = "decode" => \A i \in DOMAIN decodeStack :
       decodeStack[i].numRemainingPoints \in 1 .. NumPoints
  /\ phase \in {"decode", "done"} => \A i \in DOMAIN rows : rows[i] \in [Axes -> Nat]
  /\ misread \in BOOLEAN

Occurrences(s) == [p \in Range(s) |-> Cardinality({i \in DOMAIN s : s[i] = p})]

(* A cloud comes back as the same bag of points: partitioning reorders it, *)
(* but neither loses nor doubles a point, and no base or level of another  *)
(* branch, or of an earlier encode of the same scratch, gets into a row    *)
(* (dynamic.go:196, 578, 597, 729, 759, 792), whether or not the decoder   *)
(* is content in the end.                                                  *)
RoundTrip ==
  phase \in {"done", "failed"} /\ ~Arbitrary => Occurrences(rows) = Occurrences(Job.points)

(* The decoder follows the encoder: it asks for fields of the widths they  *)
(* were written with, in this order, finds none of them missing or wrong,  *)
(* and when it has emitted all points every stream is read to its end      *)
(* (dynamic.go:566-595 and 747-788).  It may still refuse the cloud after  *)
(* that, for one reason: the numbers end unclean (dynamic.go:666), their   *)
(* last bit being one of the rarest (rans_bit.go:231).                     *)
DecoderFollowsEncoder ==
  ~Arbitrary =>
    /\ ~misread
    /\ phase = "failed" => decodeStack = <<>> /\ ~NumbersEndClean
    /\ phase \in {"done", "failed"} /\ NumPoints > 0 =>
         read = [numbers |-> Len(numbers), remaining |-> Len(remaining),
                 axes |-> Len(axes), halves |-> Len(halves)]

(* The two sides understand each other, and the cloud arrives.             *)
PointsComeBack == RoundTrip /\ DecoderFollowsEncoder

(* The points of a pending node agree with its base in all known bits,     *)
(* though its base and levels lie where later splits of the other half are *)
(* working (dynamic.go:576-605).                                           *)
PointsInTheirCell ==
  phase = "encode" =>
    \A i \in DOMAIN encodeStack : \A k \in encodeStack[i].begin + 1 .. encodeStack[i].end :
      \A a \in Axes :
        LET open == TwoTo[BitLength - encodeLevels[encodeStack[i].stackPos][a]]
        IN  points[k][a] \div open = encodeBase[encodeStack[i].stackPos][a] \div open

(* The nodes of one stack lie at different, growing positions, and none    *)
(* that can still be split lies at the last one: the scratch of            *)
(* kdTreeScratchSizes is deep enough (dynamic.go:424, 578, 772).           *)
WithinScratch(stack, levels) ==
  /\ \A i, j \in DOMAIN stack : i < j => stack[i].stackPos < stack[j].stackPos
  /\ \A i \in DOMAIN stack :
       /\ stack[i].stackPos < StackLen
       /\ (\E a \in Axes : levels[stack[i].stackPos][a] < BitLength) => stack[i].stackPos + 1 < StackLen

ScratchIsDeepEnough ==
  /\ phase = "encode" => WithinScratch(encodeStack, encodeLevels)
  /\ phase = "decode" => WithinScratch(decodeStack, decodeLevels)

(* The scratch serves every node as if it had one of its own.              *)
ScratchIsSound == TypeOK /\ PointsInTheirCell /\ ScratchIsDeepEnough

(* What was emitted and what is pending are the points of the header; when *)
(* decoding is done, all of them were emitted (dynamic.go:721-800).        *)
Pending ==
  {p \in (DOMAIN decodeStack) \X (1 .. NumPoints) : p[2] <= decodeStack[p[1]].numRemainingPoints}

NoPointLost ==
  /\ phase = "decode" => Len(rows) + Cardinality(Pending) = NumPoints
  /\ phase = "done" => Len(rows) = NumPoints

(* Whatever the streams say, a row has no more bits than the header gives  *)
(* (dynamic.go:747-759, 771).                                              *)
RowsFitBitLength ==
  phase \in {"decode", "done"} =>
    \A i \in DOMAIN rows : \A a \in Axes : rows[i][a] < TwoTo[BitLength]

(* The rows are those the header announced, whoever wrote the streams.     *)
RowsAreAnnounced == NoPointLost /\ RowsFitBitLength

(* Every encode and every decode comes to an end: each turn of a loop      *)
(* takes a node away or makes a level of its halves smaller, and a half    *)
(* with all the points of its parent is no exception (dynamic.go:532, 698).*)
CodingEnds == <>(phase \in Resting /\ Len(jobs) <= 1)

=============================================================================
