---------------------------- MODULE KdTreeEncoder ----------------------------
(***************************************************************************)
(* EncodePointsContext of internal/codec/kdtree/dynamic.go, with a scratch *)
(* that is used for one encode after another.  One action is one turn of   *)
(* the loop over the stack.                                                *)
(***************************************************************************)
EXTENDS KdTreeWire

CONSTANTS
  Jobs,             \* the encodes a scratch is used for: sequences of
                    \* [points, dimension, bitLength, level]
  PollInterval      \* stack lengths at which the context is looked at: 1024

(* A point is a row of coordinates that fit bitLength; the number of them  *)
(* is written in 32 bits, and so is an axis (dynamic.go:436 allows a       *)
(* scratch of some thousand axes at most).                                 *)
AllJobs == UNION {Range(js) : js \in Jobs}
ASSUME JobsAssumption ==
  /\ \A js \in Jobs : js \in Seq(AllJobs)
  /\ \A job \in AllJobs :
       /\ job.dimension \in Int /\ job.level \in Int /\ job.bitLength \in 0 .. WordBits
       /\ job.points \in Seq([0 .. job.dimension - 1 -> 0 .. TwoTo[job.bitLength] - 1])
       /\ Fits32(Len(job.points)) /\ Fits32(job.dimension - 1)

VARIABLES
  jobs,             \* still to do, the current one first
  points,           \* of the current job, reordered as the encoder does in place
  encodeStack,      \* [begin, end, lastAxis, stackPos]
  encodeBase, encodeLevels,          \* the scratch: per position, per axis
  phase

encoderVars == <<jobs, points, encodeStack, encodeBase, encodeLevels>>

Job == Head(jobs)
BitLength == header.bitLength

EncoderInit ==
  /\ jobs \in Jobs
  /\ points = <<>> /\ encodeStack = <<>>
  /\ encodeBase = <<>> /\ encodeLevels = <<>>
  /\ header = [bitLength |-> 0, numPoints |-> 0]
  /\ numbers = <<>> /\ remaining = <<>> /\ axes = <<>> /\ halves = <<>>
  /\ level = 0 /\ dimension = 1
  /\ phase = "start"

(* EncodeScratch.prepare: as many positions as the deepest tree needs, all *)
(* of them cleared.                                                        *)
PreparedAsLeft(old, d) ==                   \* keeps what an earlier encode left there
  [p \in 0 .. ScratchLen(d) - 1 |-> [a \in 0 .. d - 1 |->
     IF p \in DOMAIN old /\ a \in DOMAIN old[p] THEN old[p][a] ELSE 0]]
Prepared(old, d) == [p \in 0 .. d * WordBits |-> [a \in 0 .. d - 1 |-> 0]]

(* Up to the loop; no points are a header and nothing more.                *)
StartEncoding ==
  /\ phase = "start" /\ jobs # <<>>
  /\ level' = Job.level
  /\ dimension' = Job.dimension
  /\ IF Job.level \notin Levels \/ Job.dimension <= 0
     THEN phase' = "refused" /\ UNCHANGED <<header, points, encodeStack, encodeBase, encodeLevels>>
     ELSE /\ header' = [bitLength |-> Job.bitLength, numPoints |-> Len(Job.points)]
          /\ points' = Job.points
          /\ encodeStack' = IF Job.points = <<>> THEN <<>>
                            ELSE <<[begin |-> 0, end |-> Len(Job.points), lastAxis |-> 0, stackPos |-> 0]>>
          /\ encodeBase' = Prepared(encodeBase, Job.dimension)
          /\ encodeLevels' = Prepared(encodeLevels, Job.dimension)
          /\ phase' = "encode"
  /\ numbers' = <<>> /\ remaining' = <<>> /\ axes' = <<>> /\ halves' = <<>>
  /\ UNCHANGED jobs

-----------------------------------------------------------------------------
Node == Last(encodeStack)
NodeBase == encodeBase[Node.stackPos]
NodeLevels == encodeLevels[Node.stackPos]
NodeSize == Node.end - Node.begin
NodePoints == Node.begin + 1 .. Node.end    \* as indices

Half(levels, a) == TwoTo[BitLength - levels[a] - 1]
LowPoints(a, split) == {i \in NodePoints : points[i][a] < split}

(* kdTreeGetAndEncodeAxis: with many points, the axis that leaves most of  *)
(* them in one half, among those that are not known whole.                 *)
Deviation(a) ==
  LET below == Cardinality(LowPoints(a, NodeBase[a] + Half(NodeLevels, a)))
  IN  IF NodeSize - below > below THEN NodeSize - below ELSE below

UnevenAxis ==
  IF OpenAxes(NodeLevels) = {} THEN 0
  ELSE CHOOSE a \in OpenAxes(NodeLevels) : \A b \in OpenAxes(NodeLevels) :
         Deviation(a) > Deviation(b) \/ (Deviation(a) = Deviation(b) /\ a <= b)

ChoosesAxis == SelectAxis /\ NodeSize >= AxisThreshold

NodeAxis ==
  IF ~SelectAxis THEN IncrementMod(Node.lastAxis, dimension)
  ELSE IF ChoosesAxis THEN UnevenAxis ELSE LeastLevelAxis(NodeLevels)

WriteAxis ==
  axes' = IF ChoosesAxis THEN Append(axes, Field(AxisBitCount, NodeAxis)) ELSE axes

Popping ==
  /\ phase = "encode" /\ encodeStack # <<>>
  /\ WriteAxis
  /\ UNCHANGED <<header, level, dimension, jobs>>

(* The axis is known whole: all points of the node are its base.           *)
EncodeKnownNode ==
  /\ Popping
  /\ NodeLevels[NodeAxis] = BitLength
  /\ encodeStack' = Front(encodeStack)
  /\ UNCHANGED <<numbers, remaining, halves, points, encodeBase, encodeLevels, phase>>

(* One or two points: the open bits of each axis, from the node's axis on. *)
OpenBits(order, point) ==
  [k \in DOMAIN order |-> Field(BitLength - NodeLevels[order[k]], point[order[k]])]

EncodeSmallNode ==
  /\ Popping
  /\ NodeLevels[NodeAxis] < BitLength /\ NodeSize <= 2
  /\ \E order \in OpenAxesFrom(NodeAxis, NodeLevels) :
       remaining' = remaining \o OpenBits(order, points[Node.begin + 1]) \o
         (IF NodeSize = 2 THEN OpenBits(order, points[Node.end]) ELSE <<>>)
  /\ encodeStack' = Front(encodeStack)
  /\ UNCHANGED <<numbers, halves, points, encodeBase, encodeLevels, phase>>

(* partitionKDTreePoints: the points that are on the wrong side change     *)
(* places, the first from the left with the last from the right.           *)
Swapped(partner) ==
  [i \in DOMAIN points |->
     IF i \in DOMAIN partner THEN points[partner[i]]
     ELSE IF i \in Range(partner) THEN points[CHOOSE j \in DOMAIN partner : partner[j] = i]
     ELSE points[i]]

Partition(low, middle) ==
  \E partner \in Bijection({i \in NodePoints : i <= middle} \ low, {i \in low : i > middle}) :
    /\ \A i, j \in DOMAIN partner : i < j => partner[i] > partner[j]
    /\ points' = Swapped(partner)

(* What is written for halves of these sizes: which is the smaller, when   *)
(* they differ, and how much it lacks to half of the points.               *)
WriteHalves(first, second) ==
  LET n == first + second
      smaller == IF first < second THEN first ELSE second
  IN  /\ halves' = IF first # second THEN Append(halves, [width |-> 1, value |-> IF first < second THEN 1 ELSE 0])
                   ELSE halves
      /\ numbers' = Append(numbers, Field(MostSignificantBit(n), n \div 2 - smaller))

IfAny(count, node) == IF count > 0 THEN <<node>> ELSE <<>>

PushLeftLast(left, right) == right \o left  \* the left half on top
Push(left, right) == left \o right          \* the right half on top

(* The points in `low` lie below `split` on axis a.                        *)
SplitInto(a, split, low) ==
  \E pos \in {Node.stackPos}, middle \in {Node.begin + Cardinality(low)} :
    LET levels == [NodeLevels EXCEPT ![a] = @ + 1]
        left == [begin |-> Node.begin, end |-> middle, lastAxis |-> a, stackPos |-> pos]
        right == [begin |-> middle, end |-> Node.end, lastAxis |-> a, stackPos |-> pos + 1]
    IN  /\ WriteHalves(middle - Node.begin, Node.end - middle)
        /\ Partition(low, middle)
        /\ encodeBase' = [encodeBase EXCEPT ![pos + 1] = [NodeBase EXCEPT ![a] = split]]
        /\ encodeLevels' = [encodeLevels EXCEPT ![pos] = levels, ![pos + 1] = levels]
        /\ encodeStack' = Front(encodeStack) \o
             Push(IfAny(middle - Node.begin, left), IfAny(Node.end - middle, right))

SplitNode ==
  /\ Popping
  /\ NodeLevels[NodeAxis] < BitLength /\ NodeSize > 2
  /\ \E a \in {NodeAxis} : \E split \in {NodeBase[a] + Half(NodeLevels, a)} :
       \E low \in {LowPoints(a, split)} : SplitInto(a, split, low)
  /\ UNCHANGED <<remaining, phase>>

(* The context is looked at when the stack has a certain length and before *)
(* the points of a small node; what is in the scratch stays there.         *)
CancelEncoding ==
  /\ phase = "encode" /\ encodeStack # <<>>
  /\ \/ Len(encodeStack) % PollInterval = 0
     \/ NodeSize <= 2 /\ NodeLevels[NodeAxis] < BitLength
  /\ phase' = "cancelled"
  /\ UNCHANGED <<wireVars, encoderVars>>

EndEncoding ==
  /\ phase = "encode" /\ encodeStack = <<>>
  /\ phase' = "written"
  /\ UNCHANGED <<wireVars, encoderVars>>

EncoderNext ==
  \/ StartEncoding \/ EncodeKnownNode \/ EncodeSmallNode \/ SplitNode
  \/ CancelEncoding \/ EndEncoding

=============================================================================
