------------------------ MODULE KdTreeRoundTrip_proof ------------------------
(***************************************************************************)
(* The scratch serves every node as if it had one of its own, the rows     *)
(* that come out are those of the header, whoever wrote the streams, and a *)
(* cloud comes back from the streams it was written to: ScratchIsSound,    *)
(* RowsAreAnnounced and PointsComeBack hold of every behaviour of Spec,    *)
(* for words of any width and points of any number and dimension.          *)
(*                                                                         *)
(* None is inductive.  KdInv says of every position of the scratch, in use *)
(* or not, that it holds a cell within the space, and of every node that   *)
(* it has as many known bits as its position counts: each split makes one  *)
(* more bit known and moves one half up by one position, so that the       *)
(* positions end when the bits do.                                         *)
(*                                                                         *)
(* StreamInv says what the decoder will do before it begins.  While the    *)
(* encoder works there is a sequence of decoder states, from the first on, *)
(* each the outcome of one turn of the decoder's loop over the streams     *)
(* written so far, of which the last has the encoder's stack, bases and    *)
(* levels, has read all that was written and has as its rows the points    *)
(* the encoder is done with.  A turn stays one while the streams grow; and *)
(* at a state from which a turn is foreseen the decoder can do nothing     *)
(* else.  So it follows the sequence to its end.                           *)
(***************************************************************************)
EXTENDS KdTreeRoundTrip, FiniteSetTheorems, FunctionTheorems, SequenceTheorems, TLAPS

Positions == 0 .. StackLen - 1

(* The cells, for each axis a number of known bits and where it begins.    *)
CellIsSound(base, levels) ==
  /\ base \in [Axes -> Nat] /\ levels \in [Axes -> 0 .. BitLength]
  /\ \A a \in Axes :
       /\ \E q \in 0 .. base[a] : base[a] = q * TwoTo[BitLength - levels[a]]
       /\ base[a] + TwoTo[BitLength - levels[a]] <= TwoTo[BitLength]

CellsAreSound(bases, levels) ==
  /\ DOMAIN bases = Positions /\ DOMAIN levels = Positions
  /\ \A p \in Positions : CellIsSound(bases[p], levels[p])

KnownBits(levels) == {bit \in Axes \X (0 .. BitLength - 1) : bit[2] < levels[bit[1]]}

NodesAreDeep(stack, levels) ==
  /\ \A i, j \in DOMAIN stack : i < j => stack[i].stackPos < stack[j].stackPos
  /\ \A i \in DOMAIN stack :
       /\ stack[i].stackPos \in Positions
       /\ stack[i].stackPos <= Cardinality(KnownBits(levels[stack[i].stackPos]))

(* What a loop works on.                                                   *)
SpaceIsSound == dimension \in Nat \ {0} /\ BitLength \in 0 .. WordBits

EncodeNodes == [begin : Nat, end : Nat, lastAxis : Axes, stackPos : Nat]
DecodeNodes == [numRemainingPoints : 1 .. NumPoints, lastAxis : Axes, stackPos : Nat]

RangesAreApart(stack) ==
  /\ \A i \in DOMAIN stack : stack[i].begin < stack[i].end /\ stack[i].end <= NumPoints
  /\ \A i, j \in DOMAIN stack : i < j => stack[i].end <= stack[j].begin

PointInCell(point, base, levels) ==
  \A a \in Axes : base[a] <= point[a] /\ point[a] < base[a] + TwoTo[BitLength - levels[a]]

NodeHoldsItsPoints(node, pts, bases, levels) ==
  \A k \in node.begin + 1 .. node.end :
    PointInCell(pts[k], bases[node.stackPos], levels[node.stackPos])

EncoderIsSound ==
  /\ SpaceIsSound
  /\ points \in Seq([Axes -> Nat]) /\ Len(points) = NumPoints
  /\ CellsAreSound(encodeBase, encodeLevels)
  /\ encodeStack \in Seq(EncodeNodes)
  /\ RangesAreApart(encodeStack)
  /\ NodesAreDeep(encodeStack, encodeLevels)
  /\ \A i \in DOMAIN encodeStack :
       NodeHoldsItsPoints(encodeStack[i], points, encodeBase, encodeLevels)

DecoderIsSound ==
  /\ SpaceIsSound
  /\ CellsAreSound(decodeBase, decodeLevels)
  /\ decodeStack \in Seq(DecodeNodes)
  /\ NodesAreDeep(decodeStack, decodeLevels)

Fields == [width : Nat, value : Nat]
Phases == Resting \cup {"start", "encode", "written", "decode"}

WireIsSound ==
  /\ header \in [bitLength : Nat, numPoints : Nat] /\ Fits32(NumPoints)
  /\ dimension \in Int /\ level \in Int
  /\ numbers \in Seq(Fields) /\ remaining \in Seq(Fields)
  /\ jobs \in Seq(AllJobs)
  /\ read \in [numbers : Nat, remaining : Nat, axes : Nat, halves : Nat]
  /\ phase \in Phases /\ misread \in BOOLEAN

Rows == [Axes -> 0 .. TwoTo[BitLength] - 1]

KdInv ==
  /\ WireIsSound
  /\ phase = "encode" => EncoderIsSound
  /\ phase = "decode" => DecoderIsSound
  /\ phase \in {"decode", "done"} => rows \in Seq(Rows)
  /\ NoPointLost

-----------------------------------------------------------------------------
(* Powers of two.                                                          *)

(* Every set of numbers that is not empty has a least one.                 *)
LEMMA LeastNumber ==
  ASSUME NEW S \in SUBSET Nat, S # {}
  PROVE  \E n \in S : \A m \in S : n <= m
<1> DEFINE R == {ss \in Nat \X Nat : ss[1] < ss[2]}
<1>1. IsWellFoundedOn(R, Nat)
  BY NatLessThanWellFounded DEF OpToRel
<1>2. PICK n \in S : \A m \in S : ~(<<m, n>> \in R)
  <2> HIDE DEF R
  <2> QED BY <1>1, WFMin
<1>3. \A m \in S : ~(m < n)
  BY <1>2
<1> QED
  BY <1>2, <1>3

(* A function that doubles from 1 on, up to n.                             *)
Doubling(f, n) ==
  /\ f \in [0 .. n -> Nat \ {0}]
  /\ f[0] = 1
  /\ \A k \in 0 .. n - 1 : f[k + 1] = 2 * f[k]

LEMMA DoublingExists ==
  ASSUME NEW n \in Nat
  PROVE  \E f : Doubling(f, n)
<1> DEFINE Bad == {m \in Nat : ~ \E f : Doubling(f, m)}
<1> SUFFICES ASSUME Bad # {} PROVE FALSE
  OBVIOUS
<1>1. PICK m \in Bad : \A k \in Bad : m <= k
  BY LeastNumber
<1>2. m # 0
  <2>1. Doubling([k \in 0 .. 0 |-> 1], 0)
    BY DEF Doubling
  <2> QED
    BY <2>1
<1>3. m \in Nat /\ m - 1 \in Nat /\ m - 1 \notin Bad
  BY <1>1, <1>2
<1>4. PICK f : Doubling(f, m - 1)
  BY <1>3
<1> DEFINE g == [k \in 0 .. m |-> IF k = m THEN 2 * f[m - 1] ELSE f[k]]
<1>5. /\ \A k \in 0 .. m : k = m \/ k \in 0 .. m - 1
      /\ \A k \in 0 .. m - 1 : k \in 0 .. m /\ k # m /\ k + 1 \in 0 .. m
      /\ \A k \in 0 .. m - 1 : k = m - 1 \/ (k \in 0 .. m - 1 - 1 /\ k + 1 # m)
      /\ 0 \in 0 .. m - 1 /\ m - 1 \in 0 .. m - 1 /\ m \in 0 .. m /\ m - 1 + 1 = m
  BY <1>3
<1>6. /\ g[m] = 2 * f[m - 1]
      /\ \A k \in 0 .. m - 1 : g[k] = f[k]
  BY <1>5
<1>7. g \in [0 .. m -> Nat \ {0}]
  BY <1>4, <1>5 DEF Doubling
<1>8. \A k \in 0 .. m - 1 : g[k + 1] = 2 * g[k]
  <2> TAKE k \in 0 .. m - 1
  <2> HIDE DEF g
  <2>1. CASE k = m - 1
    BY <1>5, <1>6, <2>1
  <2>2. CASE k # m - 1
    <3>1. k \in 0 .. m - 1 - 1 /\ k + 1 \in 0 .. m - 1
      BY <1>3, <2>2
    <3> QED
      BY <1>4, <1>6, <3>1 DEF Doubling
  <2> QED
    BY <2>1, <2>2
<1>9. Doubling(g, m)
  <2> HIDE DEF g
  <2> QED
    BY <1>4, <1>5, <1>6, <1>7, <1>8 DEF Doubling
<1> QED
  BY <1>1, <1>9

LEMMA DoublingIsUnique ==
  ASSUME NEW m \in Nat, NEW n \in Nat, NEW f, Doubling(f, m), NEW g, Doubling(g, n),
         NEW k \in Nat, k <= m, k <= n
  PROVE  f[k] = g[k]
<1> DEFINE Bad == {j \in Nat : j <= k /\ f[j] # g[j]}
<1> SUFFICES ASSUME Bad # {} PROVE FALSE
  OBVIOUS
<1>1. PICK j \in Bad : \A i \in Bad : j <= i
  BY LeastNumber
<1>2. j # 0 /\ j \in Nat /\ j <= k
  BY <1>1 DEF Doubling
<1>3. j - 1 \in Nat /\ j - 1 <= k /\ ~ (j <= j - 1) /\ j - 1 \notin Bad
  BY <1>1, <1>2
<1>4. f[j - 1] = g[j - 1] /\ j - 1 \in 0 .. m - 1 /\ j - 1 \in 0 .. n - 1 /\ j - 1 + 1 = j
  BY <1>2, <1>3
<1>5. f[j] = 2 * f[j - 1] /\ g[j] = 2 * g[j - 1]
  BY <1>4 DEF Doubling
<1> QED
  BY <1>1, <1>4, <1>5

(* TwoTo is what its definition asks for.                                  *)
LEMMA PowersDouble ==
  /\ TwoTo \in [Nat -> Nat \ {0}]
  /\ TwoTo[0] = 1
  /\ \A n \in Nat : TwoTo[n + 1] = 2 * TwoTo[n]
<1> DEFINE upTo == [n \in Nat |-> CHOOSE f : Doubling(f, n)]
           h == [n \in Nat |-> upTo[n][n]]
           IsTwoTo(f) == f = [n \in Nat |-> IF n = 0 THEN 1 ELSE 2 * f[n - 1]]
<1>1. \A n \in Nat : Doubling(upTo[n], n)
  BY DoublingExists
<1> HIDE DEF upTo
<1>2. \A n \in Nat : h[n] = upTo[n][n] /\ h[n] \in Nat \ {0}
  <2> TAKE n \in Nat
  <2>1. n \in 0 .. n
    OBVIOUS
  <2> QED
    BY <1>1, <2>1 DEF Doubling
<1>3. h[0] = 1
  BY <1>1 DEF Doubling
<1>4. \A n \in Nat : n # 0 => h[n] = 2 * h[n - 1]
  <2> SUFFICES ASSUME NEW n \in Nat, n # 0 PROVE h[n] = 2 * h[n - 1]
    OBVIOUS
  <2>1. n - 1 \in Nat /\ n - 1 \in 0 .. n - 1 /\ n - 1 + 1 = n /\ n - 1 <= n /\ n - 1 <= n - 1
    OBVIOUS
  <2>2. upTo[n][n] = 2 * upTo[n][n - 1]
    BY <1>1, <2>1 DEF Doubling
  <2>3. upTo[n][n - 1] = upTo[n - 1][n - 1]
    BY <1>1, <2>1, DoublingIsUnique
  <2> QED
    BY <1>2, <2>1, <2>2, <2>3
<1>5. IsTwoTo(h)
  <2>1. h = [n \in Nat |-> h[n]]
    OBVIOUS
  <2>2. \A n \in Nat : h[n] = IF n = 0 THEN 1 ELSE 2 * h[n - 1]
    <3> HIDE DEF h
    <3> QED BY <1>3, <1>4
  <2> HIDE DEF h
  <2> QED
    BY <2>1, <2>2
<1>6. TwoTo = CHOOSE f : IsTwoTo(f)
  BY DEF TwoTo
<1>7. IsTwoTo(TwoTo)
  <2> HIDE DEF IsTwoTo, h
  <2> QED BY <1>5, <1>6
<1>8. \A n \in Nat : TwoTo[n] = IF n = 0 THEN 1 ELSE 2 * TwoTo[n - 1]
  BY <1>7
<1> HIDE DEF h
<1>9. \A n \in Nat : TwoTo[n] = h[n]
  <2> DEFINE Bad == {n \in Nat : TwoTo[n] # h[n]}
  <2> SUFFICES ASSUME Bad # {} PROVE FALSE
    OBVIOUS
  <2>1. PICK n \in Bad : \A m \in Bad : n <= m
    BY LeastNumber
  <2>2. n \in Nat /\ n # 0
    BY <1>3, <1>8, <2>1
  <2>3. n - 1 \in Nat /\ n - 1 \notin Bad
    BY <2>1, <2>2
  <2> QED
    BY <1>4, <1>8, <2>1, <2>2, <2>3
<1>10. TwoTo \in [Nat -> Nat \ {0}]
  <2>1. TwoTo = [n \in Nat |-> IF n = 0 THEN 1 ELSE 2 * TwoTo[n - 1]]
    BY <1>7
  <2>2. \A n \in Nat : TwoTo[n] \in Nat \ {0}
    BY <1>2, <1>9
  <2> QED
    BY <2>1, <2>2
<1>11. \A n \in Nat : n + 1 \in Nat /\ n + 1 # 0 /\ n + 1 - 1 = n
  OBVIOUS
<1> QED
  BY <1>8, <1>10, <1>11

(* The half of what is open on an axis.                                    *)
LEMMA HalfOfOpen ==
  ASSUME NEW n \in Nat \ {0}
  PROVE  /\ n - 1 \in Nat /\ TwoTo[n] \in Nat \ {0} /\ TwoTo[n - 1] \in Nat \ {0}
         /\ TwoTo[n] = 2 * TwoTo[n - 1]
<1>1. n - 1 \in Nat /\ n - 1 + 1 = n
  OBVIOUS
<1> QED
  BY <1>1, PowersDouble

(* mostSignificantBit finds the width of every number of 32 bits.          *)
LEMMA WidthsAreNumbers ==
  ASSUME NEW n \in Nat, Fits32(n)
  PROVE  MostSignificantBit(n) \in Nat
<1> DEFINE Wide == {k \in 0 .. 32 : n < TwoTo[k]}
<1>1. Wide # {} /\ Wide \in SUBSET Nat
  BY DEF Fits32
<1>2. PICK k \in Wide : \A j \in Wide : k <= j
  BY <1>1, LeastNumber
<1>3. k # 0 => k - 1 \in 0 .. 32 /\ k - 1 \notin Wide
  BY <1>2
<1>4. k # 0 => n >= TwoTo[k - 1]
  BY <1>3, PowersDouble
<1>5. \E j \in 0 .. 32 : n < TwoTo[j] /\ (j = 0 \/ n >= TwoTo[j - 1])
  BY <1>2, <1>4
<1>6. Len32(n) \in 0 .. 32 /\ n < TwoTo[Len32(n)]
  BY <1>5 DEF Len32
<1>7. n # 0 => Len32(n) # 0
  BY <1>6, PowersDouble
<1> QED
  BY <1>6, <1>7 DEF MostSignificantBit

(* A smaller number fits as well.                                          *)
LEMMA FewerFit ==
  ASSUME NEW n \in Nat, Fits32(n), NEW m \in Nat, m <= n
  PROVE  Fits32(m)
<1>1. PICK k \in 0 .. 32 : n < TwoTo[k]
  BY DEF Fits32
<1>2. TwoTo[k] \in Nat
  BY <1>1, PowersDouble
<1>3. m < TwoTo[k]
  BY <1>1, <1>2
<1> QED
  BY <1>3 DEF Fits32

-----------------------------------------------------------------------------
(* The axis of a node is one of the axes.                                  *)

(* The first where a function is least.                                    *)
LEMMA FirstOfLeast ==
  ASSUME NEW S \in SUBSET Nat, S # {}, NEW f \in [S -> Nat]
  PROVE  \E a \in S : \A b \in S : f[a] < f[b] \/ (f[a] = f[b] /\ a <= b)
<1> DEFINE V == {f[a] : a \in S}
<1>1. PICK v \in V : \A w \in V : v <= w
  <2>1. V \in SUBSET Nat /\ V # {}
    OBVIOUS
  <2> QED
    BY <2>1, LeastNumber
<1> DEFINE T == {a \in S : f[a] = v}
<1>2. PICK a \in T : \A b \in T : a <= b
  <2>1. T \in SUBSET Nat /\ T # {}
    BY <1>1
  <2> QED
    BY <2>1, LeastNumber
<1>3. ASSUME NEW b \in S
      PROVE  f[a] < f[b] \/ (f[a] = f[b] /\ a <= b)
  <2>1. v <= f[b] /\ f[a] = v /\ f[a] \in Nat /\ f[b] \in Nat
    BY <1>1, <1>2
  <2> QED
    BY <1>2, <2>1
<1> QED
  BY <1>2, <1>3

LEMMA LeastLevelIsAnAxis ==
  ASSUME dimension \in Nat \ {0}, NEW levels \in [Axes -> 0 .. BitLength], BitLength \in Nat
  PROVE  LeastLevelAxis(levels) \in Axes
<1>1. Axes \in SUBSET Nat /\ Axes # {} /\ levels \in [Axes -> Nat]
  <2>1. 0 \in Axes
    BY DEF Axes
  <2> QED
    BY <2>1 DEF Axes
<1>2. \E a \in Axes : \A b \in Axes : levels[a] < levels[b] \/ (levels[a] = levels[b] /\ a <= b)
  BY <1>1, FirstOfLeast
<1> QED
  BY <1>2 DEF LeastLevelAxis

LEMMA NumbersBetween ==
  ASSUME NEW i \in Nat, NEW j \in Nat, i <= j
  PROVE  IsFiniteSet(i + 1 .. j) /\ Cardinality(i + 1 .. j) = j - i
<1>1. \A a, b \in Int : IsFiniteSet(a .. b)
                          /\ Cardinality(a .. b) = IF a > b THEN 0 ELSE b - a + 1
  BY FS_Interval
<1>2. i + 1 \in Int /\ j \in Int
  OBVIOUS
<1>3. IsFiniteSet(i + 1 .. j)
        /\ Cardinality(i + 1 .. j) = IF i + 1 > j THEN 0 ELSE j - (i + 1) + 1
  BY <1>1, <1>2
<1> QED
  BY <1>3

LEMMA LowPointsCount ==
  ASSUME Node.begin \in Nat, Node.end \in Nat, Node.begin <= Node.end, NEW a, NEW split
  PROVE  /\ LowPoints(a, split) \in SUBSET NodePoints /\ IsFiniteSet(LowPoints(a, split))
         /\ Cardinality(LowPoints(a, split)) \in 0 .. NodeSize
<1>1. IsFiniteSet(NodePoints) /\ Cardinality(NodePoints) = NodeSize
  BY NumbersBetween DEF NodePoints, NodeSize
<1>2. LowPoints(a, split) \in SUBSET NodePoints
  BY DEF LowPoints
<1>3. IsFiniteSet(LowPoints(a, split)) /\ Cardinality(LowPoints(a, split)) <= Cardinality(NodePoints)
  BY <1>1, <1>2, FS_Subset
<1>4. Cardinality(LowPoints(a, split)) \in Nat /\ NodeSize \in Nat
  BY <1>3, FS_CardinalityType DEF NodeSize
<1> QED
  BY <1>1, <1>2, <1>3, <1>4

LEMMA UnevenIsAnAxis ==
  ASSUME dimension \in Nat \ {0},
         Node.begin \in Nat, Node.end \in Nat, Node.begin <= Node.end
  PROVE  /\ UnevenAxis \in Axes
         /\ OpenAxes(NodeLevels) # {} => UnevenAxis \in OpenAxes(NodeLevels)
<1> DEFINE open == OpenAxes(NodeLevels)
           n == NodeSize
           f == [a \in open |-> n - Deviation(a)]
<1>1. CASE open = {}
  <2>1. 0 \in Axes
    BY DEF Axes
  <2> QED
    BY <1>1, <2>1 DEF UnevenAxis
<1>2. CASE open # {}
  <2>1. open \in SUBSET Axes /\ open \in SUBSET Nat
    BY DEF OpenAxes, Axes
  <2>2. ASSUME NEW a \in open
        PROVE  Deviation(a) \in 0 .. n /\ n \in Nat
    <3> DEFINE below == Cardinality(LowPoints(a, NodeBase[a] + Half(NodeLevels, a)))
    <3>1. below \in 0 .. n
      BY LowPointsCount
    <3>2. n \in Nat
      BY DEF NodeSize
    <3>3. Deviation(a) = IF n - below > below THEN n - below ELSE below
      BY DEF Deviation
    <3> HIDE DEF below, n
    <3> QED
      BY <3>1, <3>2, <3>3
  <2>3. f \in [open -> Nat]
    BY <2>2
  <2>4. PICK a \in open : \A b \in open : f[a] < f[b] \/ (f[a] = f[b] /\ a <= b)
    <3> HIDE DEF f, open
    <3> QED
      BY <1>2, <2>1, <2>3, FirstOfLeast
  <2>5. \A b \in open : Deviation(a) > Deviation(b) \/ (Deviation(a) = Deviation(b) /\ a <= b)
    <3> SUFFICES ASSUME NEW b \in open
                 PROVE  Deviation(a) > Deviation(b) \/ (Deviation(a) = Deviation(b) /\ a <= b)
      OBVIOUS
    <3>1. f[a] = n - Deviation(a) /\ f[b] = n - Deviation(b)
      OBVIOUS
    <3>2. Deviation(a) \in Int /\ Deviation(b) \in Int /\ n \in Nat
      BY <2>2
    <3>3. f[a] < f[b] \/ (f[a] = f[b] /\ a <= b)
      BY <2>4
    <3> HIDE DEF f, n
    <3> QED
      BY <3>1, <3>2, <3>3
  <2>6. UnevenAxis \in open
    <3>1. UnevenAxis = CHOOSE c \in open : \A b \in open :
             Deviation(c) > Deviation(b) \/ (Deviation(c) = Deviation(b) /\ c <= b)
      BY <1>2 DEF UnevenAxis
    <3> QED
      BY <2>5, <3>1
  <2> QED
    BY <2>1, <2>6
<1> QED
  BY <1>1, <1>2

LEMMA NextIsAnAxis ==
  ASSUME dimension \in Nat \ {0}, NEW a \in Axes
  PROVE  IncrementMod(a, dimension) \in Axes
BY DEF IncrementMod, Axes

LEMMA NodeAxisIsAnAxis ==
  ASSUME SpaceIsSound, Node \in EncodeNodes, Node.begin <= Node.end,
         NodeLevels \in [Axes -> 0 .. BitLength]
  PROVE  NodeAxis \in Axes
<1>1. /\ dimension \in Nat \ {0} /\ BitLength \in Nat
      /\ Node.begin \in Nat /\ Node.end \in Nat /\ Node.lastAxis \in Axes
  BY DEF SpaceIsSound, EncodeNodes
<1> QED
  BY <1>1, UnevenIsAnAxis, LeastLevelIsAnAxis, NextIsAnAxis DEF NodeAxis

-----------------------------------------------------------------------------
(* Cells.                                                                  *)

(* Nothing is known of the first cell, and nothing of the others before    *)
(* they are used.                                                          *)
LEMMA PreparedCells ==
  ASSUME SpaceIsSound, NEW old, NEW older
  PROVE  CellsAreSound(Prepared(old, dimension), Prepared(older, dimension))
<1> DEFINE zero == [a \in Axes |-> 0]
<1>1. Prepared(old, dimension) = [p \in Positions |-> zero]
      /\ Prepared(older, dimension) = [p \in Positions |-> zero]
  <2>1. \A n \in Int : n + 1 - 1 = n
    OBVIOUS
  <2>2. dimension * WordBits \in Int
    BY WireAssumption DEF SpaceIsSound
  <2>3. Positions = 0 .. dimension * WordBits
    BY <2>1, <2>2 DEF Positions, StackLen, ScratchLen
  <2> QED
    BY <2>3 DEF Prepared, Axes
<1>2. CellIsSound(zero, zero)
  <2>1. BitLength \in Nat /\ TwoTo[BitLength] \in Nat
    BY PowersDouble, WireAssumption DEF SpaceIsSound
  <2>2. zero \in [Axes -> Nat] /\ zero \in [Axes -> 0 .. BitLength]
    BY <2>1
  <2>3. ASSUME NEW a \in Axes
        PROVE  /\ \E q \in 0 .. zero[a] : zero[a] = q * TwoTo[BitLength - zero[a]]
               /\ zero[a] + TwoTo[BitLength - zero[a]] <= TwoTo[BitLength]
    <3>1. zero[a] = 0 /\ BitLength - 0 = BitLength /\ 0 \in 0 .. 0 /\ 0 = 0 * TwoTo[BitLength]
      BY <2>1
    <3> QED
      BY <2>1, <3>1
  <2> QED
    BY <2>2, <2>3 DEF CellIsSound
<1> HIDE DEF zero
<1> QED
  BY <1>1, <1>2 DEF CellsAreSound

(* A point of a cell lies in its lower or in its upper half.               *)
HalvesHoldPoints(base, levels, upper, deeper, split, a) ==
  \A point \in [Axes -> Nat] : PointInCell(point, base, levels) =>
    IF point[a] < split
    THEN PointInCell(point, base, deeper) ELSE PointInCell(point, upper, deeper)

(* The halves of a cell are cells; the points of the cell lie in the one   *)
(* or the other.                                                           *)
LEMMA HalvesAreCells ==
  ASSUME SpaceIsSound, NEW base, NEW levels, CellIsSound(base, levels),
         NEW a \in Axes, levels[a] < BitLength,
         NEW deeper, deeper = [levels EXCEPT ![a] = @ + 1],
         NEW upper, upper = [base EXCEPT ![a] = @ + Half(levels, a)]
  PROVE  /\ CellIsSound(base, deeper)
         /\ CellIsSound(upper, deeper)
         /\ HalvesHoldPoints(base, levels, upper, deeper, base[a] + Half(levels, a), a)
<1> DEFINE open == TwoTo[BitLength - levels[a]]
           half == TwoTo[BitLength - levels[a] - 1]
           whole == TwoTo[BitLength]
<1>1. /\ base \in [Axes -> Nat] /\ levels \in [Axes -> 0 .. BitLength]
      /\ base[a] \in Nat /\ levels[a] \in Nat /\ BitLength \in Nat
  BY WireAssumption DEF CellIsSound, SpaceIsSound
<1>2. /\ open \in Nat \ {0} /\ half \in Nat \ {0} /\ whole \in Nat /\ open = 2 * half
  <2>1. BitLength - levels[a] \in Nat \ {0}
    BY <1>1
  <2> QED
    BY <1>1, <2>1, HalfOfOpen, PowersDouble
<1>3. /\ Half(levels, a) = half
      /\ deeper[a] = levels[a] + 1 /\ TwoTo[BitLength - deeper[a]] = half
      /\ upper[a] = base[a] + half
      /\ deeper \in [Axes -> 0 .. BitLength] /\ upper \in [Axes -> Nat]
  <2>1. Half(levels, a) = half
    BY DEF Half
  <2>2. deeper[a] = levels[a] + 1 /\ upper[a] = base[a] + half
    BY <1>1, <2>1
  <2>3. BitLength - deeper[a] = BitLength - levels[a] - 1
    BY <1>1, <2>2
  <2>4. levels[a] + 1 \in 0 .. BitLength
    BY <1>1
  <2>5. base[a] + half \in Nat
    BY <1>1, <1>2
  <2> QED
    BY <1>1, <2>1, <2>2, <2>3, <2>4, <2>5
<1>4. \A b \in Axes : b # a => deeper[b] = levels[b] /\ upper[b] = base[b]
  BY <1>1
<1>5. PICK q \in 0 .. base[a] : base[a] = q * open
  BY DEF CellIsSound
<1>6. base[a] + open <= whole
  BY DEF CellIsSound
<1>7. base[a] = (2 * q) * half /\ base[a] + half = (2 * q + 1) * half
      /\ 2 * q \in 0 .. base[a] /\ 2 * q + 1 \in 0 .. base[a] + half
  <2>1. \A m \in Nat, h \in Nat \ {0} : /\ m * (2 * h) = (2 * m) * h
                                       /\ (2 * m) * h + h = (2 * m + 1) * h
                                       /\ 2 * m <= (2 * m) * h
    OBVIOUS
  <2>2. q \in Nat
    BY <1>1
  <2> HIDE DEF half, open
  <2>3. q * (2 * half) = (2 * q) * half /\ (2 * q) * half + half = (2 * q + 1) * half
        /\ 2 * q <= (2 * q) * half
    BY <1>2, <2>1, <2>2
  <2>4. base[a] = (2 * q) * half
    BY <1>2, <1>5, <2>3
  <2> QED
    BY <1>1, <1>2, <2>2, <2>3, <2>4
<1> HIDE DEF open, half, whole
<1>8. CellIsSound(base, deeper)
  <2>1. ASSUME NEW b \in Axes
        PROVE  /\ \E r \in 0 .. base[b] : base[b] = r * TwoTo[BitLength - deeper[b]]
               /\ base[b] + TwoTo[BitLength - deeper[b]] <= TwoTo[BitLength]
    <3>1. CASE b = a
      <4>1. base[a] + half <= whole
        BY <1>1, <1>2, <1>6
      <4> QED
        BY <1>3, <1>7, <3>1, <4>1 DEF whole
    <3>2. CASE b # a
      BY <1>4, <3>2 DEF CellIsSound
    <3> QED
      BY <3>1, <3>2
  <2> QED
    BY <1>1, <1>3, <2>1 DEF CellIsSound
<1>9. CellIsSound(upper, deeper)
  <2>1. ASSUME NEW b \in Axes
        PROVE  /\ \E r \in 0 .. upper[b] : upper[b] = r * TwoTo[BitLength - deeper[b]]
               /\ upper[b] + TwoTo[BitLength - deeper[b]] <= TwoTo[BitLength]
    <3>1. CASE b = a
      <4>1. base[a] + half + half <= whole
        BY <1>1, <1>2, <1>6
      <4> QED
        BY <1>3, <1>7, <3>1, <4>1 DEF whole
    <3>2. CASE b # a
      BY <1>4, <3>2 DEF CellIsSound
    <3> QED
      BY <3>1, <3>2
  <2> QED
    BY <1>3, <2>1 DEF CellIsSound
<1>10. ASSUME NEW point \in [Axes -> Nat], PointInCell(point, base, levels)
       PROVE  IF point[a] < base[a] + half
              THEN PointInCell(point, base, deeper) ELSE PointInCell(point, upper, deeper)
  <2>1. /\ point[a] \in Nat /\ base[a] <= point[a] /\ point[a] < base[a] + open
        /\ \A b \in Axes : base[b] <= point[b] /\ point[b] < base[b] + TwoTo[BitLength - levels[b]]
    BY <1>10 DEF PointInCell, open
  <2>2. CASE point[a] < base[a] + half
    <3>1. \A b \in Axes : base[b] <= point[b] /\ point[b] < base[b] + TwoTo[BitLength - deeper[b]]
      BY <1>3, <1>4, <2>1, <2>2
    <3> QED
      BY <2>2, <3>1 DEF PointInCell
  <2>3. CASE ~ (point[a] < base[a] + half)
    <3>1. base[a] + half <= point[a] /\ point[a] < base[a] + half + half
      BY <1>1, <1>2, <2>1, <2>3
    <3>2. \A b \in Axes : upper[b] <= point[b] /\ point[b] < upper[b] + TwoTo[BitLength - deeper[b]]
      BY <1>3, <1>4, <2>1, <3>1
    <3> QED
      BY <2>3, <3>2 DEF PointInCell
  <2> QED
    BY <2>2, <2>3
<1> QED
  BY <1>3, <1>8, <1>9, <1>10 DEF HalvesHoldPoints

(* What the scratch holds after a split, in the node's position and the    *)
(* next one, are cells.                                                    *)
LEMMA SplitKeepsCells ==
  ASSUME NEW bases, NEW levels, CellsAreSound(bases, levels),
         NEW pos \in Positions, pos + 1 \in Positions,
         NEW upper, NEW deeper,
         CellIsSound(bases[pos], deeper), CellIsSound(upper, deeper)
  PROVE  CellsAreSound([bases EXCEPT ![pos + 1] = upper],
                       [levels EXCEPT ![pos] = deeper, ![pos + 1] = deeper])
<1> DEFINE newBases == [bases EXCEPT ![pos + 1] = upper]
           newLevels == [levels EXCEPT ![pos] = deeper, ![pos + 1] = deeper]
<1>1. DOMAIN newBases = Positions /\ DOMAIN newLevels = Positions
  BY DEF CellsAreSound
<1>2. pos # pos + 1
  BY DEF Positions
<1>3. /\ newBases[pos] = bases[pos] /\ newLevels[pos] = deeper
      /\ newBases[pos + 1] = upper /\ newLevels[pos + 1] = deeper
      /\ \A p \in Positions : p # pos /\ p # pos + 1 =>
           newBases[p] = bases[p] /\ newLevels[p] = levels[p]
  BY <1>2 DEF CellsAreSound
<1>4. \A p \in Positions : CellIsSound(newBases[p], newLevels[p])
  <2> TAKE p \in Positions
  <2> HIDE DEF newBases, newLevels
  <2>1. CASE p = pos
    BY <1>3, <2>1
  <2>2. CASE p = pos + 1
    BY <1>3, <2>2
  <2>3. CASE p # pos /\ p # pos + 1
    BY <1>3, <2>3 DEF CellsAreSound
  <2> QED
    BY <2>1, <2>2, <2>3
<1> HIDE DEF newBases, newLevels
<1>5. CellsAreSound(newBases, newLevels)
  BY <1>1, <1>4 DEF CellsAreSound
<1> QED
  BY <1>5 DEF newBases, newLevels

-----------------------------------------------------------------------------
(* How deep the tree can get.                                              *)

LEMMA AllBits ==
  ASSUME SpaceIsSound
  PROVE  /\ IsFiniteSet(Axes \X (0 .. BitLength - 1))
         /\ Cardinality(Axes \X (0 .. BitLength - 1)) = dimension * BitLength
<1>1. \A n \in Nat : IsFiniteSet(0 .. n - 1) /\ Cardinality(0 .. n - 1) = n
  <2>1. \A a, b \in Int : IsFiniteSet(a .. b)
                            /\ Cardinality(a .. b) = IF a > b THEN 0 ELSE b - a + 1
    BY FS_Interval
  <2> TAKE n \in Nat
  <2>2. 0 \in Int /\ n - 1 \in Int
    OBVIOUS
  <2>3. IsFiniteSet(0 .. n - 1)
          /\ Cardinality(0 .. n - 1) = IF 0 > n - 1 THEN 0 ELSE n - 1 - 0 + 1
    BY <2>1, <2>2
  <2> QED
    BY <2>3
<1>2. dimension \in Nat /\ BitLength \in Nat
  BY WireAssumption DEF SpaceIsSound
<1>3. /\ IsFiniteSet(Axes) /\ Cardinality(Axes) = dimension
      /\ IsFiniteSet(0 .. BitLength - 1) /\ Cardinality(0 .. BitLength - 1) = BitLength
  BY <1>1, <1>2 DEF Axes
<1> QED
  BY <1>3, FS_Product

LEMMA KnownBitsAreFinite ==
  ASSUME SpaceIsSound, NEW levels
  PROVE  IsFiniteSet(KnownBits(levels)) /\ Cardinality(KnownBits(levels)) \in Nat
<1>1. KnownBits(levels) \in SUBSET (Axes \X (0 .. BitLength - 1))
  BY DEF KnownBits
<1>2. IsFiniteSet(KnownBits(levels))
  BY <1>1, AllBits, FS_Subset
<1> QED
  BY <1>2, FS_CardinalityType

(* A node that can still be split leaves a bit unknown, so the next        *)
(* position is one of the scratch.                                         *)
LEMMA NextPositionExists ==
  ASSUME SpaceIsSound, NEW levels \in [Axes -> 0 .. BitLength],
         NEW a \in Axes, levels[a] < BitLength,
         NEW pos \in Nat, pos <= Cardinality(KnownBits(levels))
  PROVE  pos + 1 \in Positions
<1> DEFINE all == Axes \X (0 .. BitLength - 1)
<1>1. dimension \in Nat /\ BitLength \in Nat /\ WordBits \in Nat /\ BitLength <= WordBits
  BY WireAssumption DEF SpaceIsSound
<1>2. IsFiniteSet(all) /\ Cardinality(all) = dimension * BitLength
  BY AllBits
<1>3. KnownBits(levels) \in SUBSET all
  BY DEF KnownBits
<1>4. /\ Cardinality(KnownBits(levels)) \in Nat
      /\ Cardinality(KnownBits(levels)) <= Cardinality(all)
      /\ Cardinality(all) = Cardinality(KnownBits(levels)) => all = KnownBits(levels)
  <2> HIDE DEF all
  <2> QED
    BY <1>2, <1>3, KnownBitsAreFinite, FS_Subset
<1>5. KnownBits(levels) # all
  <2>1. <<a, levels[a]>> \in all
    BY <1>1
  <2>2. <<a, levels[a]>> \notin KnownBits(levels)
    BY <1>1 DEF KnownBits
  <2> QED
    BY <2>1, <2>2
<1>6. dimension * BitLength <= dimension * WordBits /\ dimension * BitLength \in Nat
      /\ dimension * WordBits \in Nat
  <2>1. \A d, b, w \in Nat : b <= w => d * b <= d * w /\ d * b \in Nat /\ d * w \in Nat
    OBVIOUS
  <2> QED
    BY <1>1, <2>1
<1>7. pos + 1 <= dimension * WordBits
  <2> HIDE DEF all
  <2> QED
    BY <1>2, <1>4, <1>5, <1>6
<1> QED
  BY <1>6, <1>7 DEF Positions, StackLen, ScratchLen

(* A split makes one bit known.                                            *)
LEMMA OneMoreBit ==
  ASSUME SpaceIsSound, NEW levels \in [Axes -> 0 .. BitLength],
         NEW a \in Axes, levels[a] < BitLength,
         NEW deeper, deeper = [levels EXCEPT ![a] = @ + 1]
  PROVE  Cardinality(KnownBits(deeper)) = Cardinality(KnownBits(levels)) + 1
<1>1. BitLength \in Nat /\ levels[a] \in Nat
  BY WireAssumption DEF SpaceIsSound
<1>2. deeper[a] = levels[a] + 1 /\ \A b \in Axes : b # a => deeper[b] = levels[b]
  OBVIOUS
<1>3. KnownBits(deeper) = KnownBits(levels) \cup {<<a, levels[a]>>}
  <2>1. \A b \in Axes, l \in 0 .. BitLength - 1 :
          l < deeper[b] <=> l < levels[b] \/ (b = a /\ l = levels[a])
    <3> TAKE b \in Axes, l \in 0 .. BitLength - 1
    <3>1. CASE b = a
      BY <1>1, <1>2, <3>1
    <3>2. CASE b # a
      BY <1>2, <3>2
    <3> QED
      BY <3>1, <3>2
  <2>2. levels[a] \in 0 .. BitLength - 1
    BY <1>1
  <2>3. ASSUME NEW bit
        PROVE  bit \in KnownBits(deeper) <=> bit \in KnownBits(levels) \cup {<<a, levels[a]>>}
    <3>1. bit \in KnownBits(deeper) => bit \in KnownBits(levels) \cup {<<a, levels[a]>>}
      BY <2>1 DEF KnownBits
    <3>2. bit \in KnownBits(levels) \cup {<<a, levels[a]>>} => bit \in KnownBits(deeper)
      BY <2>1, <2>2 DEF KnownBits
    <3> QED
      BY <3>1, <3>2
  <2> QED
    BY <2>3
<1>4. <<a, levels[a]>> \notin KnownBits(levels)
  BY <1>1 DEF KnownBits
<1> QED
  BY <1>3, <1>4, KnownBitsAreFinite, FS_AddElement

-----------------------------------------------------------------------------
(* The stack: the node on top makes way for its halves, if they have       *)
(* points.                                                                 *)

(* A node with c points or one with d points, or both, on what lies below  *)
(* the top.                                                                *)
Replaced(s, new, x, c, y, d) ==
  LET m == Len(s) - 1
      n == m + (IF c > 0 THEN 1 ELSE 0) + (IF d > 0 THEN 1 ELSE 0)
  IN  /\ Len(new) = n
      /\ \A i \in 1 .. m : new[i] = s[i]
      /\ c > 0 => new[m + 1] = x
      /\ d > 0 => new[n] = y

LEMMA PushReplacesTop ==
  ASSUME NEW S, NEW s \in Seq(S), s # <<>>, NEW x, NEW y,
         NEW c \in Nat, NEW d \in Nat, c > 0 => x \in S, d > 0 => y \in S
  PROVE  LET new == Front(s) \o Push(IfAny(c, x), IfAny(d, y))
         IN  new \in Seq(S) /\ Replaced(s, new, x, c, y, d)
<1> DEFINE m == Len(s) - 1
           front == Front(s)
           left == IfAny(c, x)
           right == IfAny(d, y)
           both == left \o right
           new == front \o both
<1>1. Len(s) \in Nat /\ Len(s) # 0 /\ m \in Nat
  BY EmptySeq, LenProperties
<1>2. front \in Seq(S) /\ Len(front) = m /\ \A i \in 1 .. m : front[i] = s[i]
  <2>1. \A i \in 1 .. m : s[i] \in S
    BY <1>1, LenProperties
  <2>2. /\ SubSeq(s, 1, m) \in Seq(S) /\ Len(SubSeq(s, 1, m)) = IF 1 <= m THEN m - 1 + 1 ELSE 0
        /\ \A i \in 1 .. m - 1 + 1 : SubSeq(s, 1, m)[i] = s[1 + i - 1]
    <3>1. 1 \in Int /\ m \in Int
      BY <1>1
    <3> HIDE DEF m
    <3> QED
      BY <2>1, <3>1, SubSeqProperties
  <2>3. front = SubSeq(s, 1, m)
    BY DEF Front
  <2>4. \A i \in 1 .. m : i \in 1 .. m - 1 + 1 /\ 1 + i - 1 = i
    BY <1>1
  <2> HIDE DEF front, m
  <2> QED
    BY <1>1, <2>2, <2>3, <2>4
<1>3. /\ left \in Seq(S) /\ Len(left) = (IF c > 0 THEN 1 ELSE 0) /\ (c > 0 => left[1] = x)
      /\ right \in Seq(S) /\ Len(right) = (IF d > 0 THEN 1 ELSE 0) /\ (d > 0 => right[1] = y)
  BY DEF IfAny
<1> HIDE DEF front, left, right, m
<1>4. /\ both \in Seq(S) /\ Len(both) = Len(left) + Len(right)
      /\ \A i \in 1 .. Len(left) + Len(right) :
           both[i] = IF i <= Len(left) THEN left[i] ELSE right[i - Len(left)]
  BY <1>3, ConcatProperties
<1> HIDE DEF both
<1>5. /\ new \in Seq(S) /\ Len(new) = Len(front) + Len(both)
      /\ \A i \in 1 .. Len(front) + Len(both) :
           new[i] = IF i <= Len(front) THEN front[i] ELSE both[i - Len(front)]
  <2>1. front \in Seq(S) /\ both \in Seq(S)
    BY <1>2, <1>4
  <2> QED
    BY <2>1, ConcatProperties
<1> HIDE DEF new
<1>6. Len(new) = m + (IF c > 0 THEN 1 ELSE 0) + (IF d > 0 THEN 1 ELSE 0)
  BY <1>1, <1>2, <1>3, <1>4, <1>5
<1>7. \A i \in 1 .. m : new[i] = s[i]
  BY <1>1, <1>2, <1>5, <1>6
<1>8. c > 0 => new[m + 1] = x
  <2> SUFFICES ASSUME c > 0 PROVE new[m + 1] = x
    OBVIOUS
  <2>1. m + 1 \in 1 .. Len(new) /\ ~ (m + 1 <= m) /\ m + 1 - m = 1
    BY <1>1, <1>6
  <2>2. new[m + 1] = both[1]
    BY <1>2, <1>5, <2>1
  <2>3. 1 \in 1 .. Len(both) /\ 1 <= Len(left)
    BY <1>3, <1>4
  <2> QED
    BY <1>3, <1>4, <2>2, <2>3
<1>9. d > 0 => new[Len(new)] = y
  <2> SUFFICES ASSUME d > 0 PROVE new[Len(new)] = y
    OBVIOUS
  <2>1. /\ Len(new) \in 1 .. Len(new) /\ ~ (Len(new) <= m) /\ Len(new) - m = Len(both)
        /\ Len(both) \in 1 .. Len(both) /\ ~ (Len(both) <= Len(left)) /\ Len(both) - Len(left) = 1
    BY <1>1, <1>2, <1>3, <1>4, <1>5, <1>6
  <2>2. new[Len(new)] = both[Len(both)]
    BY <1>2, <1>5, <2>1
  <2> QED
    BY <1>3, <1>4, <2>1, <2>2
<1>10. Replaced(s, new, x, c, y, d)
  BY <1>6, <1>7, <1>8, <1>9 DEF Replaced, m
<1>11. new = Front(s) \o Push(IfAny(c, x), IfAny(d, y))
  BY DEF new, both, front, left, right, Push
<1> QED
  BY <1>5, <1>10, <1>11

(* What the nodes are that lie on the stack now.                           *)
LEMMA NodesAfterPush ==
  ASSUME NEW S, NEW s \in Seq(S), s # <<>>, NEW new \in Seq(S),
         NEW x, NEW y, NEW c \in Nat, NEW d \in Nat,
         Replaced(s, new, x, c, y, d)
  PROVE  LET m == Len(s) - 1
         IN  \A i \in DOMAIN new :
               \/ i \in 1 .. m /\ i \in DOMAIN s /\ new[i] = s[i]
               \/ i = m + 1 /\ c > 0 /\ new[i] = x
               \/ i = Len(new) /\ i > m /\ d > 0 /\ new[i] = y /\ (c > 0 => i = m + 2)
<1> DEFINE m == Len(s) - 1
<1>1. Len(s) \in Nat /\ Len(s) # 0 /\ m \in Nat /\ DOMAIN s = 1 .. Len(s)
      /\ Len(new) \in Nat /\ DOMAIN new = 1 .. Len(new)
  BY EmptySeq, LenProperties
<1>2. /\ Len(new) = m + (IF c > 0 THEN 1 ELSE 0) + (IF d > 0 THEN 1 ELSE 0)
      /\ \A i \in 1 .. m : new[i] = s[i]
      /\ c > 0 => new[m + 1] = x
      /\ d > 0 => new[Len(new)] = y
  BY DEF Replaced
<1> SUFFICES ASSUME NEW i \in DOMAIN new
             PROVE  \/ i \in 1 .. m /\ i \in DOMAIN s /\ new[i] = s[i]
                    \/ i = m + 1 /\ c > 0 /\ new[i] = x
                    \/ i = Len(new) /\ i > m /\ d > 0 /\ new[i] = y /\ (c > 0 => i = m + 2)
  OBVIOUS
<1>3. CASE i <= m
  <2>1. i \in 1 .. m /\ i \in DOMAIN s
    BY <1>1, <1>3
  <2> QED
    BY <1>2, <2>1
<1>4. CASE ~ (i <= m) /\ c > 0 /\ i = m + 1
  BY <1>2, <1>4
<1>5. CASE ~ (i <= m) /\ ~ (c > 0 /\ i = m + 1)
  <2>1. i \in Nat /\ i > m /\ i <= Len(new)
    BY <1>1, <1>5
  <2>2. i = Len(new) /\ d > 0 /\ (c > 0 => i = m + 2)
    <3>1. CASE c > 0
      BY <1>1, <1>2, <1>5, <2>1, <3>1
    <3>2. CASE ~ c > 0
      BY <1>1, <1>2, <1>5, <2>1, <3>2
    <3> QED
      BY <3>1, <3>2
  <2> QED
    BY <1>2, <2>1, <2>2
<1> QED
  BY <1>3, <1>4, <1>5

(* Taking the top away.                                                    *)
LEMMA PopReplacesTop ==
  ASSUME NEW S, NEW s \in Seq(S), s # <<>>, NEW x, NEW y
  PROVE  Front(s) \in Seq(S) /\ Replaced(s, Front(s), x, 0, y, 0)
<1> DEFINE m == Len(s) - 1
           front == Front(s)
<1>1. Len(s) \in Nat /\ Len(s) # 0 /\ m \in Nat
  BY EmptySeq, LenProperties
<1>2. \A i \in 1 .. m : s[i] \in S
  BY <1>1, LenProperties
<1>3. /\ SubSeq(s, 1, m) \in Seq(S) /\ Len(SubSeq(s, 1, m)) = IF 1 <= m THEN m - 1 + 1 ELSE 0
      /\ \A i \in 1 .. m - 1 + 1 : SubSeq(s, 1, m)[i] = s[1 + i - 1]
  <2>1. 1 \in Int /\ m \in Int
    BY <1>1
  <2> HIDE DEF m
  <2> QED
    BY <1>2, <2>1, SubSeqProperties
<1>4. front = SubSeq(s, 1, m)
  BY DEF Front
<1>5. \A i \in 1 .. m : i \in 1 .. m - 1 + 1 /\ 1 + i - 1 = i
  BY <1>1
<1> HIDE DEF front, m
<1>6. front \in Seq(S) /\ Len(front) = m + 0 + 0 /\ \A i \in 1 .. m : front[i] = s[i]
  BY <1>1, <1>3, <1>4, <1>5
<1> QED
  BY <1>6 DEF Replaced, front, m

LEMMA TopOfStack ==
  ASSUME NEW S, NEW s \in Seq(S), s # <<>>
  PROVE  /\ Last(s) \in S /\ Len(s) \in DOMAIN s /\ Last(s) = s[Len(s)] /\ Len(s) \in Nat
         /\ \A i \in DOMAIN s : i \in 1 .. Len(s) - 1 => i < Len(s)
<1>1. Len(s) \in Nat /\ Len(s) # 0 /\ DOMAIN s = 1 .. Len(s)
  BY EmptySeq, LenProperties
<1>2. Len(s) \in DOMAIN s
  BY <1>1
<1> QED
  BY <1>1, <1>2, ElementOfSeq DEF Last

LEMMA PoppedNodesAreDeep ==
  ASSUME NEW S, NEW s \in Seq(S), s # <<>>, NEW levels, NodesAreDeep(s, levels)
  PROVE  NodesAreDeep(Front(s), levels)
<1> DEFINE new == Front(s)
<1>1. new \in Seq(S) /\ Replaced(s, new, 0, 0, 0, 0)
  BY PopReplacesTop
<1> HIDE DEF new
<1>2. \A i \in DOMAIN new : i \in DOMAIN s /\ new[i] = s[i]
  <2>1. 0 \in Nat /\ ~ (0 > 0)
    OBVIOUS
  <2> QED
    BY <1>1, <2>1, NodesAfterPush
<1> QED
  BY <1>2 DEF NodesAreDeep, new

(* The halves of a node are as deep as their positions say, and no node    *)
(* below them lies where the split has written.                            *)
LEMMA HalvesAreDeep ==
  ASSUME SpaceIsSound, NEW S, NEW s \in Seq(S), s # <<>>,
         NEW levels, DOMAIN levels = Positions, NodesAreDeep(s, levels),
         NEW pos, pos = Last(s).stackPos, pos + 1 \in Positions,
         NEW deeper, Cardinality(KnownBits(deeper)) = Cardinality(KnownBits(levels[pos])) + 1,
         NEW new \in Seq(S), NEW x, NEW y, NEW c \in Nat, NEW d \in Nat,
         Replaced(s, new, x, c, y, d), x.stackPos = pos, y.stackPos = pos + 1
  PROVE  NodesAreDeep(new, [levels EXCEPT ![pos] = deeper, ![pos + 1] = deeper])
<1> DEFINE m == Len(s) - 1
           after == [levels EXCEPT ![pos] = deeper, ![pos + 1] = deeper]
           card(l) == Cardinality(KnownBits(l))
<1>1. /\ Len(s) \in Nat /\ Len(s) \in DOMAIN s /\ Last(s) = s[Len(s)] /\ m \in Nat
      /\ Len(new) \in Nat /\ DOMAIN new = 1 .. Len(new)
      /\ \A i \in 1 .. m : i < Len(s)
  BY TopOfStack, LenProperties, EmptySeq
<1>2. pos \in Positions /\ pos <= card(levels[pos])
  BY <1>1 DEF NodesAreDeep
<1>3. pos \in Nat /\ pos # pos + 1 /\ \A p \in Positions : p \in Nat
  BY <1>2 DEF Positions
<1>4. /\ after[pos] = deeper /\ after[pos + 1] = deeper
      /\ \A p \in Positions : p # pos /\ p # pos + 1 => after[p] = levels[p]
  BY <1>2, <1>3
<1>5. card(levels[pos]) \in Nat /\ card(deeper) \in Nat /\ card(deeper) = card(levels[pos]) + 1
  BY KnownBitsAreFinite
<1>6. pos <= card(after[pos]) /\ pos + 1 <= card(after[pos + 1])
  BY <1>2, <1>3, <1>4, <1>5
<1>7. \A i \in DOMAIN new :
         \/ i \in 1 .. m /\ i \in DOMAIN s /\ new[i] = s[i]
         \/ i = m + 1 /\ c > 0 /\ new[i] = x
         \/ i = Len(new) /\ i > m /\ d > 0 /\ new[i] = y /\ (c > 0 => i = m + 2)
  <2> HIDE DEF m, after, card
  <2> QED
    BY ONLY s \in Seq(S), s # <<>>, new \in Seq(S), c \in Nat, d \in Nat,
            Replaced(s, new, x, c, y, d), NodesAfterPush DEF m
<1>8. \A i \in 1 .. m : i \in DOMAIN s =>
         /\ s[i].stackPos \in Positions /\ s[i].stackPos < pos
         /\ s[i].stackPos <= card(levels[s[i].stackPos])
         /\ after[s[i].stackPos] = levels[s[i].stackPos]
  <2> SUFFICES ASSUME NEW i \in 1 .. m, i \in DOMAIN s
               PROVE  /\ s[i].stackPos \in Positions /\ s[i].stackPos < pos
                      /\ s[i].stackPos <= card(levels[s[i].stackPos])
                      /\ after[s[i].stackPos] = levels[s[i].stackPos]
    OBVIOUS
  <2>1. s[i].stackPos \in Positions /\ s[i].stackPos <= card(levels[s[i].stackPos])
    BY DEF NodesAreDeep
  <2>2. s[i].stackPos < pos
    BY <1>1 DEF NodesAreDeep
  <2> DEFINE p == s[i].stackPos
  <2>3. p \in Positions /\ p < pos
    BY <2>1, <2>2
  <2> HIDE DEF after, p
  <2>4. p # pos /\ p # pos + 1
    BY <1>3, <2>3
  <2>5. after[p] = levels[p]
    BY <1>4, <2>3, <2>4
  <2> QED
    BY <2>1, <2>2, <2>5 DEF p
<1> HIDE DEF after, m
<1>9. \A i \in DOMAIN new :
         new[i].stackPos \in Positions /\ new[i].stackPos <= card(after[new[i].stackPos])
  BY <1>2, <1>6, <1>7, <1>8
<1>10. ASSUME NEW i \in DOMAIN new, NEW j \in DOMAIN new, i < j
       PROVE  new[i].stackPos < new[j].stackPos
  <2>4. i # j
    BY <1>1, <1>10
  <2>1. CASE j \in 1 .. m /\ j \in DOMAIN s /\ new[j] = s[j]
    <3>1. i \in 1 .. m /\ i \in DOMAIN s /\ new[i] = s[i]
      BY <1>1, <1>7, <1>10, <2>1
    <3> QED
      BY <1>10, <2>1, <3>1 DEF NodesAreDeep
  <2>2. CASE j = m + 1 /\ c > 0 /\ new[j] = x
    <3>1. i \in 1 .. m /\ i \in DOMAIN s /\ new[i] = s[i]
      BY <1>1, <1>7, <1>10, <2>2
    <3> QED
      BY <1>8, <2>2, <3>1
  <2>3. CASE j = Len(new) /\ j > m /\ d > 0 /\ new[j] = y /\ (c > 0 => j = m + 2)
    <3>1. CASE i \in 1 .. m /\ i \in DOMAIN s /\ new[i] = s[i]
      BY <1>3, <1>8, <2>3, <3>1
    <3>2. CASE i = m + 1 /\ c > 0 /\ new[i] = x
      BY <1>3, <2>3, <3>2
    <3>3. i # Len(new)
      BY <2>3, <2>4
    <3> QED
      BY <1>7, <3>1, <3>2, <3>3
  <2> QED
    BY <1>7, <2>1, <2>2, <2>3
<1> QED
  BY <1>9, <1>10 DEF NodesAreDeep, after

-----------------------------------------------------------------------------
(* Partitioning: afterwards the points before the middle are the low ones, *)
(* and points of other nodes are where they were.                          *)
LEMMA PartitionIsRight ==
  ASSUME NEW P, points \in Seq(P),
         Node.begin \in Nat, Node.end \in Nat, Node.end <= Len(points),
         NEW low \in SUBSET NodePoints, NEW middle \in Int, Partition(low, middle)
  PROVE  /\ points' \in Seq(P) /\ Len(points') = Len(points)
         /\ \A k \in DOMAIN points : k \notin NodePoints => points'[k] = points[k]
         /\ \A k \in NodePoints : \E j \in NodePoints :
              points'[k] = points[j] /\ (k <= middle <=> j \in low)
<1> DEFINE L == {i \in NodePoints : i <= middle} \ low
           R == {i \in low : i > middle}
<1>1. DOMAIN points = 1 .. Len(points) /\ Len(points) \in Nat
      /\ \A k \in DOMAIN points : points[k] \in P
  BY LenProperties
<1>2. \A k \in NodePoints : k \in DOMAIN points
  BY <1>1 DEF NodePoints
<1>3. PICK partner \in Bijection(L, R) : points' = Swapped(partner)
  BY DEF Partition
<1>4. /\ partner \in [L -> R] /\ DOMAIN partner = L
      /\ \A j \in R : \E i \in L : partner[i] = j
  BY <1>3 DEF Bijection, Surjection
<1>5. Range(partner) = R
  BY <1>4 DEF Range
<1>6. points' = [i \in DOMAIN points |->
                   IF i \in L THEN points[partner[i]]
                   ELSE IF i \in R THEN points[CHOOSE j \in L : partner[j] = i]
                   ELSE points[i]]
  BY <1>3, <1>4, <1>5 DEF Swapped
<1>7. \A k \in L : k \in NodePoints /\ k <= middle /\ partner[k] \in low /\ partner[k] \in NodePoints
  BY <1>4
<1>8. \A k \in R : /\ k \in NodePoints /\ ~ (k <= middle) /\ k \notin L
                   /\ (CHOOSE j \in L : partner[j] = k) \in L
  <2> TAKE k \in R
  <2>1. k \in NodePoints /\ k > middle
    OBVIOUS
  <2>2. \E j \in L : partner[j] = k
    BY <1>4
  <2>3. ~ (k <= middle)
    <3>1. k \in Int
      BY <2>1 DEF NodePoints
    <3> QED
      BY <2>1, <3>1
  <2> QED
    BY <2>1, <2>2, <2>3
<1>9. \A k \in NodePoints : \E j \in NodePoints :
         points'[k] = points[j] /\ (k <= middle <=> j \in low)
  <2> SUFFICES ASSUME NEW k \in NodePoints
               PROVE  \E j \in NodePoints : points'[k] = points[j] /\ (k <= middle <=> j \in low)
    OBVIOUS
  <2>1. CASE k \in L
    <3>1. points'[k] = points[partner[k]]
      BY <1>2, <1>6, <2>1
    <3> QED
      BY <1>7, <2>1, <3>1
  <2>2. CASE k \in R
    <3> DEFINE j == CHOOSE i \in L : partner[i] = k
    <3>1. j \in L /\ k \notin L /\ ~ (k <= middle)
      BY <1>8, <2>2
    <3>2. points'[k] = points[j]
      BY <1>2, <1>6, <2>2, <3>1
    <3> HIDE DEF j
    <3>3. j \in NodePoints /\ j \notin low
      BY <3>1
    <3> QED
      BY <3>1, <3>2, <3>3
  <2>3. CASE k \notin L /\ k \notin R
    <3>1. points'[k] = points[k]
      BY <1>2, <1>6, <2>3
    <3>2. k \in Int
      BY DEF NodePoints
    <3>3. k <= middle => k \in low
      BY <2>3
    <3>4. k \in low => k <= middle
      BY <2>3, <3>2
    <3> QED
      BY <3>1, <3>3, <3>4
  <2> QED
    BY <2>1, <2>2, <2>3
<1>10. \A k \in DOMAIN points : k \notin NodePoints => points'[k] = points[k]
  <2>1. \A k \in DOMAIN points : k \notin NodePoints => k \notin L /\ k \notin R
    OBVIOUS
  <2> HIDE DEF L, R
  <2> QED
    BY <1>6, <2>1
<1>11. points' \in Seq(P) /\ Len(points') = Len(points)
  <2>1. \A k \in DOMAIN points : points'[k] \in P
    BY <1>1, <1>2, <1>9, <1>10
  <2>2. points' \in [1 .. Len(points) -> P]
    <3>1. DOMAIN points' = 1 .. Len(points)
      BY <1>1, <1>6
    <3>2. points' = [k \in DOMAIN points' |-> points'[k]]
      BY <1>6
    <3> QED
      BY <1>1, <2>1, <3>1, <3>2
  <2> QED
    BY <1>1, <2>2
<1> QED
  BY <1>9, <1>10, <1>11

-----------------------------------------------------------------------------
(* The steps of the encoder.                                               *)

(* What the encoder starts with.                                           *)
RootNode == [begin |-> 0, end |-> Len(points), lastAxis |-> 0, stackPos |-> 0]
EncoderStarts ==
  /\ SpaceIsSound
  /\ points \in Seq([Axes -> 0 .. TwoTo[BitLength] - 1]) /\ Len(points) = NumPoints
  /\ encodeStack = IF points = <<>> THEN <<>> ELSE <<RootNode>>
  /\ encodeBase = Prepared(<<>>, dimension) /\ encodeLevels = Prepared(<<>>, dimension)

LEMMA StartIsSound == EncoderStarts => EncoderIsSound
<1> SUFFICES ASSUME EncoderStarts PROVE EncoderIsSound
  OBVIOUS
<1> DEFINE Points == [Axes -> 0 .. TwoTo[BitLength] - 1]
<1>1. /\ SpaceIsSound /\ dimension \in Nat \ {0} /\ BitLength \in Nat
      /\ points \in Seq(Points) /\ Len(points) = NumPoints
      /\ encodeBase = Prepared(<<>>, dimension) /\ encodeLevels = Prepared(<<>>, dimension)
  BY WireAssumption DEF EncoderStarts, SpaceIsSound
<1>2. CellsAreSound(encodeBase, encodeLevels)
  BY <1>1, PreparedCells
<1>3. /\ Len(points) \in Nat /\ (points # <<>> => Len(points) > 0)
      /\ \A k \in 1 .. Len(points) : points[k] \in Points
  BY <1>1, EmptySeq, LenProperties
<1>4. points \in Seq([Axes -> Nat])
  <2>1. Points \subseteq [Axes -> Nat]
    BY <1>1, PowersDouble
  <2> HIDE DEF Points
  <2> QED
    BY <1>1, <2>1, SeqMonotonic
<1>5. CASE points = <<>>
  <2>1. encodeStack = <<>>
    BY <1>5 DEF EncoderStarts
  <2>2. encodeStack \in Seq(EncodeNodes) /\ DOMAIN encodeStack = {}
    BY <2>1
  <2> QED
    BY <1>1, <1>2, <1>4, <2>2 DEF EncoderIsSound, RangesAreApart, NodesAreDeep
<1>6. CASE points # <<>>
  <2>1. encodeStack = <<RootNode>>
    BY <1>6 DEF EncoderStarts
  <2>2. /\ RootNode.begin = 0 /\ RootNode.end = Len(points) /\ RootNode.stackPos = 0
        /\ RootNode \in EncodeNodes
    <3>1. 0 \in Axes
      BY <1>1 DEF Axes
    <3> QED
      BY <1>3, <3>1 DEF RootNode, EncodeNodes
  <2>3. /\ encodeStack \in Seq(EncodeNodes) /\ DOMAIN encodeStack = {1} /\ encodeStack[1] = RootNode
    BY <2>1, <2>2
  <2>4. RangesAreApart(encodeStack)
    BY <1>1, <1>3, <1>6, <2>2, <2>3 DEF RangesAreApart
  <2>5. 0 \in Positions
    <3>1. \A d, w \in Nat : d * w \in Nat
      OBVIOUS
    <3>2. dimension * WordBits \in Nat
      BY <1>1, <3>1, WireAssumption
    <3> QED
      BY <3>2 DEF Positions, StackLen, ScratchLen
  <2>6. NodesAreDeep(encodeStack, encodeLevels)
    <3>1. 0 <= Cardinality(KnownBits(encodeLevels[0]))
      BY <1>1, KnownBitsAreFinite
    <3> QED
      BY <2>2, <2>3, <2>5, <3>1 DEF NodesAreDeep
  <2>7. encodeBase[0] = [a \in Axes |-> 0] /\ encodeLevels[0] = [a \in Axes |-> 0]
    <3>1. 0 \in 0 .. dimension * WordBits
      <4>1. \A d, w \in Nat : d * w \in Nat
        OBVIOUS
      <4> QED
        BY <1>1, <4>1, WireAssumption
    <3> QED
      BY <1>1, <3>1 DEF Prepared, Axes
  <2>8. \A k \in 1 .. Len(points) : PointInCell(points[k], encodeBase[0], encodeLevels[0])
    <3> SUFFICES ASSUME NEW k \in 1 .. Len(points), NEW a \in Axes
                 PROVE  /\ encodeBase[0][a] <= points[k][a]
                        /\ points[k][a] < encodeBase[0][a] + TwoTo[BitLength - encodeLevels[0][a]]
      BY DEF PointInCell
    <3>1. points[k] \in Points
      BY <1>3
    <3>2. points[k][a] \in 0 .. TwoTo[BitLength] - 1 /\ TwoTo[BitLength] \in Nat
      BY <1>1, <3>1, PowersDouble
    <3>3. encodeBase[0][a] = 0 /\ BitLength - encodeLevels[0][a] = BitLength
      BY <1>1, <2>7
    <3> QED
      BY <3>2, <3>3
  <2>9. NodeHoldsItsPoints(RootNode, points, encodeBase, encodeLevels)
    <3>1. RootNode.begin + 1 .. RootNode.end = 1 .. Len(points)
      BY <2>2
    <3> QED
      BY <2>2, <2>8, <3>1 DEF NodeHoldsItsPoints
  <2> QED
    BY <1>1, <1>2, <1>4, <2>3, <2>4, <2>6, <2>9 DEF EncoderIsSound
<1> QED
  BY <1>5, <1>6

(* A loop changes neither header nor dimension.                            *)
LEMMA SameSpace ==
  ASSUME UNCHANGED <<header, dimension>>
  PROVE  /\ SpaceIsSound' <=> SpaceIsSound
         /\ Axes' = Axes /\ BitLength' = BitLength /\ NumPoints' = NumPoints
         /\ Positions' = Positions /\ Rows' = Rows
         /\ EncodeNodes' = EncodeNodes /\ DecodeNodes' = DecodeNodes
         /\ CellsAreSound(encodeBase, encodeLevels)' <=> CellsAreSound(encodeBase', encodeLevels')
         /\ CellsAreSound(decodeBase, decodeLevels)' <=> CellsAreSound(decodeBase', decodeLevels')
         /\ NodesAreDeep(encodeStack, encodeLevels)' <=> NodesAreDeep(encodeStack', encodeLevels')
         /\ NodesAreDeep(decodeStack, decodeLevels)' <=> NodesAreDeep(decodeStack', decodeLevels')
         /\ RangesAreApart(encodeStack)' <=> RangesAreApart(encodeStack')
<1>1. Axes' = Axes /\ BitLength' = BitLength /\ NumPoints' = NumPoints /\ StackLen' = StackLen
  BY DEF Axes, BitLength, NumPoints, StackLen, ScratchLen
<1>2. Positions' = Positions
  BY <1>1 DEF Positions
<1>3. /\ CellsAreSound(encodeBase, encodeLevels)' <=> CellsAreSound(encodeBase', encodeLevels')
      /\ CellsAreSound(decodeBase, decodeLevels)' <=> CellsAreSound(decodeBase', decodeLevels')
  BY <1>1, <1>2 DEF CellsAreSound, CellIsSound
<1>4. /\ NodesAreDeep(encodeStack, encodeLevels)' <=> NodesAreDeep(encodeStack', encodeLevels')
      /\ NodesAreDeep(decodeStack, decodeLevels)' <=> NodesAreDeep(decodeStack', decodeLevels')
  BY <1>1, <1>2 DEF NodesAreDeep, KnownBits
<1>5. RangesAreApart(encodeStack)' <=> RangesAreApart(encodeStack')
  BY <1>1 DEF RangesAreApart
<1>6. (SpaceIsSound' <=> SpaceIsSound) /\ Rows' = Rows
      /\ EncodeNodes' = EncodeNodes /\ DecodeNodes' = DecodeNodes
  BY <1>1 DEF SpaceIsSound, Rows, EncodeNodes, DecodeNodes
<1> QED
  BY <1>1, <1>2, <1>3, <1>4, <1>5, <1>6

(* The points of all nodes, told without the definitions of state.         *)
LEMMA SamePoints ==
  ASSUME UNCHANGED <<header, dimension>>
  PROVE  (\A i \in DOMAIN encodeStack :
            NodeHoldsItsPoints(encodeStack[i], points, encodeBase, encodeLevels))'
         <=> \A i \in DOMAIN encodeStack' :
               NodeHoldsItsPoints(encodeStack'[i], points', encodeBase', encodeLevels')
<1>1. Axes' = Axes /\ BitLength' = BitLength
  BY SameSpace
<1> QED
  BY <1>1 DEF NodeHoldsItsPoints, PointInCell

LEMMA EncoderPops ==
  ASSUME EncoderIsSound, encodeStack # <<>>, encodeStack' = Front(encodeStack),
         UNCHANGED <<header, dimension, points, encodeBase, encodeLevels>>
  PROVE  EncoderIsSound'
<1> DEFINE new == Front(encodeStack)
<1>1. encodeStack \in Seq(EncodeNodes) /\ NodesAreDeep(encodeStack, encodeLevels)
      /\ RangesAreApart(encodeStack)
  BY DEF EncoderIsSound
<1>2. new \in Seq(EncodeNodes) /\ Replaced(encodeStack, new, 0, 0, 0, 0)
  BY <1>1, PopReplacesTop
<1>3. NodesAreDeep(new, encodeLevels)
  BY <1>1, PoppedNodesAreDeep
<1> HIDE DEF new
<1>4. \A i \in DOMAIN new : i \in DOMAIN encodeStack /\ new[i] = encodeStack[i]
  <2>1. 0 \in Nat /\ ~ (0 > 0)
    OBVIOUS
  <2> QED
    BY <1>1, <1>2, <2>1, NodesAfterPush
<1>5. RangesAreApart(new)
  BY <1>1, <1>4 DEF RangesAreApart
<1>6. \A i \in DOMAIN new : NodeHoldsItsPoints(new[i], points, encodeBase, encodeLevels)
  BY <1>4 DEF EncoderIsSound
<1>7. encodeStack' = new
  BY DEF new
<1> QED
  BY <1>2, <1>3, <1>5, <1>6, <1>7, SameSpace, SamePoints DEF EncoderIsSound

(* The node on top, its cell and its axis.                                 *)
LEMMA TopOfEncoder ==
  ASSUME EncoderIsSound, encodeStack # <<>>
  PROVE  /\ Node \in EncodeNodes
         /\ Node.begin \in Nat /\ Node.end \in Nat /\ Node.lastAxis \in Axes
         /\ Node.begin < Node.end /\ Node.end <= Len(points) /\ Node.end <= NumPoints
         /\ Node.stackPos \in Positions /\ Node.stackPos \in Nat
         /\ Node.stackPos <= Cardinality(KnownBits(NodeLevels))
         /\ CellIsSound(NodeBase, NodeLevels)
         /\ NodeBase \in [Axes -> Nat] /\ NodeLevels \in [Axes -> 0 .. BitLength]
         /\ NodeAxis \in Axes
         /\ NodeHoldsItsPoints(Node, points, encodeBase, encodeLevels)
<1>1. /\ Node \in EncodeNodes /\ Len(encodeStack) \in DOMAIN encodeStack
      /\ Node = encodeStack[Len(encodeStack)]
  BY TopOfStack DEF EncoderIsSound, Node
<1>2. Node.begin \in Nat /\ Node.end \in Nat /\ Node.lastAxis \in Axes /\ Node.stackPos \in Nat
  BY <1>1 DEF EncodeNodes
<1>3. Node.begin < Node.end /\ Node.end <= NumPoints /\ Node.end <= Len(points)
  BY <1>1 DEF EncoderIsSound, RangesAreApart
<1>4. Node.stackPos \in Positions /\ Node.stackPos <= Cardinality(KnownBits(NodeLevels))
  BY <1>1 DEF EncoderIsSound, NodesAreDeep, NodeLevels
<1>5. CellIsSound(NodeBase, NodeLevels)
  BY <1>4 DEF EncoderIsSound, CellsAreSound, NodeBase, NodeLevels
<1>6. NodeBase \in [Axes -> Nat] /\ NodeLevels \in [Axes -> 0 .. BitLength]
  BY <1>5 DEF CellIsSound
<1>7. NodeAxis \in Axes
  <2>1. Node.begin <= Node.end
    BY <1>2, <1>3
  <2> QED
    BY <1>1, <1>6, <2>1, NodeAxisIsAnAxis DEF EncoderIsSound
<1>8. NodeHoldsItsPoints(Node, points, encodeBase, encodeLevels)
  BY <1>1 DEF EncoderIsSound
<1> QED
  BY <1>1, <1>2, <1>3, <1>4, <1>5, <1>6, <1>7, <1>8

LEMMA FieldsHaveValues ==
  ASSUME NEW width \in Nat, NEW value \in Int
  PROVE  Field(width, value) \in Fields
<1>1. TwoTo[width] \in Nat \ {0}
  BY PowersDouble
<1>2. value % TwoTo[width] \in Nat
  BY <1>1
<1> QED
  BY <1>2 DEF Field, Fields

LEMMA StartEncodingKeeps ==
  ASSUME KdInv, StartEncoding, UNCHANGED decoderVars
  PROVE  KdInv'
<1>1. Job \in AllJobs
  <2>1. jobs \in Seq(AllJobs) /\ jobs # <<>>
    BY DEF KdInv, WireIsSound, StartEncoding
  <2> QED
    BY <2>1, HeadTailProperties DEF Job
<1>2. /\ Job.dimension \in Int /\ Job.level \in Int /\ Job.bitLength \in 0 .. WordBits
      /\ Job.points \in Seq([0 .. Job.dimension - 1 -> 0 .. TwoTo[Job.bitLength] - 1])
      /\ Fits32(Len(Job.points))
  BY <1>1, JobsAssumption
<1>3. Job.bitLength \in Nat /\ Len(Job.points) \in Nat
  BY <1>2, WireAssumption, LenProperties
<1>4. /\ dimension' = Job.dimension /\ level' = Job.level /\ jobs' = jobs
      /\ numbers' = <<>> /\ remaining' = <<>> /\ read' = read /\ misread' = misread
  BY DEF StartEncoding, decoderVars
<1>5. \/ phase' = "refused" /\ header' = header
      \/ /\ phase' = "encode" /\ Job.dimension > 0
         /\ header' = [bitLength |-> Job.bitLength, numPoints |-> Len(Job.points)]
         /\ points' = Job.points
         /\ encodeStack' = IF Job.points = <<>> THEN <<>>
                           ELSE <<[begin |-> 0, end |-> Len(Job.points), lastAxis |-> 0, stackPos |-> 0]>>
         /\ encodeBase' = Prepared(encodeBase, Job.dimension)
         /\ encodeLevels' = Prepared(encodeLevels, Job.dimension)
  BY <1>2 DEF StartEncoding
<1>6. header' \in [bitLength : Nat, numPoints : Nat] /\ Fits32(NumPoints')
  <2>1. CASE header' = header
    BY <2>1 DEF KdInv, WireIsSound, NumPoints
  <2>2. CASE header' = [bitLength |-> Job.bitLength, numPoints |-> Len(Job.points)]
    BY <1>2, <1>3, <2>2 DEF NumPoints
  <2> QED
    BY <1>5, <2>1, <2>2
<1>7. WireIsSound'
  <2>1. /\ read \in [numbers : Nat, remaining : Nat, axes : Nat, halves : Nat]
        /\ misread \in BOOLEAN /\ jobs \in Seq(AllJobs)
    BY DEF KdInv, WireIsSound
  <2>2. numbers' \in Seq(Fields) /\ remaining' \in Seq(Fields)
    BY <1>4
  <2>3. phase' \in Phases
    BY <1>5 DEF Phases, Resting
  <2>4. Fits32(NumPoints)'
    BY <1>6 DEF Fits32
  <2> QED
    BY <1>2, <1>4, <1>6, <2>1, <2>2, <2>3, <2>4 DEF WireIsSound
<1>8. phase' = "encode" => EncoderIsSound'
  <2> SUFFICES ASSUME phase' = "encode" PROVE EncoderIsSound'
    OBVIOUS
  <2>1. /\ Job.dimension > 0
        /\ header' = [bitLength |-> Job.bitLength, numPoints |-> Len(Job.points)]
        /\ points' = Job.points
        /\ encodeStack' = IF Job.points = <<>> THEN <<>>
                          ELSE <<[begin |-> 0, end |-> Len(Job.points), lastAxis |-> 0, stackPos |-> 0]>>
        /\ encodeBase' = Prepared(<<>>, dimension') /\ encodeLevels' = Prepared(<<>>, dimension')
    BY <1>4, <1>5 DEF Prepared
  <2>2. BitLength' = Job.bitLength /\ NumPoints' = Len(Job.points)
        /\ Axes' = 0 .. Job.dimension - 1
    BY <1>4, <2>1 DEF BitLength, NumPoints, Axes
  <2>3. SpaceIsSound'
    BY <1>2, <1>4, <2>1, <2>2 DEF SpaceIsSound
  <2>4. EncoderStarts'
    BY <1>2, <2>1, <2>2, <2>3 DEF EncoderStarts, RootNode
  <2>5. EncoderStarts' => EncoderIsSound'
    BY StartIsSound, PTL
  <2> QED
    BY <2>4, <2>5
<1>9. phase' # "decode" /\ phase' # "done"
  BY <1>5
<1> QED
  BY <1>7, <1>8, <1>9 DEF KdInv, NoPointLost

(* What the other steps of the encoder leave alone.                        *)
LEMMA EncoderKeepsTheRest ==
  ASSUME KdInv, UNCHANGED <<header, level, dimension, jobs>>, UNCHANGED decoderVars,
         numbers' \in Seq(Fields), remaining' \in Seq(Fields),
         phase' \in {"encode", "cancelled", "written"}, phase' = "encode" => EncoderIsSound'
  PROVE  KdInv'
<1>1. WireIsSound'
  <2>1. NumPoints' = NumPoints
    BY DEF NumPoints
  <2>2. phase' \in Phases
    BY DEF Phases, Resting
  <2>3. read' = read /\ misread' = misread
    BY DEF decoderVars
  <2> QED
    BY <2>1, <2>2, <2>3 DEF KdInv, WireIsSound, Fits32
<1> QED
  BY <1>1 DEF KdInv, NoPointLost

LEMMA EncodeKnownNodeKeeps ==
  ASSUME KdInv, EncodeKnownNode, UNCHANGED decoderVars
  PROVE  KdInv'
<1>1. /\ EncoderIsSound /\ encodeStack # <<>> /\ phase' = "encode"
      /\ encodeStack' = Front(encodeStack)
      /\ UNCHANGED <<header, level, dimension, jobs>>
      /\ UNCHANGED <<numbers, remaining, points, encodeBase, encodeLevels>>
  BY DEF KdInv, EncodeKnownNode, Popping
<1>2. EncoderIsSound'
  BY <1>1, EncoderPops
<1>3. numbers' \in Seq(Fields) /\ remaining' \in Seq(Fields)
  BY <1>1 DEF KdInv, WireIsSound
<1> QED
  BY <1>1, <1>2, <1>3, EncoderKeepsTheRest

(* The order of the open axes names each of them once.                     *)
LEMMA OrderOfOpenAxes ==
  ASSUME SpaceIsSound, NEW levels \in [Axes -> 0 .. BitLength],
         NEW a, NEW order \in OpenAxesFrom(a, levels)
  PROVE  /\ Cardinality(OpenAxes(levels)) \in Nat
         /\ DOMAIN order = 1 .. Cardinality(OpenAxes(levels))
         /\ \A k \in DOMAIN order :
              /\ order[k] \in Axes /\ order[k] \in OpenAxes(levels)
              /\ BitLength - levels[order[k]] \in Nat
         /\ \A b \in OpenAxes(levels) : \E k \in DOMAIN order : order[k] = b
<1> DEFINE open == OpenAxes(levels)
           n == Cardinality(open)
<1>1. /\ order \in [1 .. n -> open] /\ \A b \in open : \E k \in 1 .. n : order[k] = b
  BY DEF OpenAxesFrom, Bijection, Injection, Surjection
<1>2. open \in SUBSET Axes
  BY DEF OpenAxes
<1>3. n \in Nat
  <2>1. IsFiniteSet(Axes)
    <3>1. \A i, j \in Int : IsFiniteSet(i .. j)
      BY FS_Interval
    <3>2. dimension - 1 \in Int
      BY DEF SpaceIsSound
    <3> QED
      BY <3>1, <3>2 DEF Axes
  <2>2. IsFiniteSet(open)
    BY <1>2, <2>1, FS_Subset
  <2> QED
    BY <2>2, FS_CardinalityType
<1>4. \A b \in Axes : BitLength - levels[b] \in Nat
  BY WireAssumption DEF SpaceIsSound
<1>5. DOMAIN order = 1 .. n
  BY <1>1
<1> HIDE DEF open, n
<1> QED
  BY <1>1, <1>2, <1>3, <1>4, <1>5 DEF open, n

(* The open bits of a point are fields.                                    *)
LEMMA OpenBitsAreFields ==
  ASSUME SpaceIsSound, NodeLevels \in [Axes -> 0 .. BitLength],
         NEW a, NEW order \in OpenAxesFrom(a, NodeLevels), NEW point \in [Axes -> Nat]
  PROVE  OpenBits(order, point) \in Seq(Fields)
<1> DEFINE n == Cardinality(OpenAxes(NodeLevels))
<1>3. /\ n \in Nat /\ DOMAIN order = 1 .. n
      /\ \A k \in DOMAIN order : order[k] \in Axes /\ BitLength - NodeLevels[order[k]] \in Nat
  BY OrderOfOpenAxes
<1>4. \A k \in 1 .. n : Field(BitLength - NodeLevels[order[k]], point[order[k]]) \in Fields
  <2> TAKE k \in 1 .. n
  <2>1. order[k] \in Axes /\ BitLength - NodeLevels[order[k]] \in Nat
    BY <1>3
  <2>2. point[order[k]] \in Int
    BY <2>1
  <2> QED
    BY <2>1, <2>2, FieldsHaveValues
<1>5. DOMAIN order = 1 .. n
  BY <1>3
<1> HIDE DEF n
<1>6. OpenBits(order, point) =
        [k \in 1 .. n |-> Field(BitLength - NodeLevels[order[k]], point[order[k]])]
  BY <1>5 DEF OpenBits
<1>7. OpenBits(order, point) \in [1 .. n -> Fields]
  BY <1>4, <1>6
<1> QED
  BY <1>3, <1>7

LEMMA EncodeSmallNodeKeeps ==
  ASSUME KdInv, EncodeSmallNode, UNCHANGED decoderVars
  PROVE  KdInv'
<1>1. /\ EncoderIsSound /\ encodeStack # <<>> /\ phase' = "encode"
      /\ encodeStack' = Front(encodeStack)
      /\ UNCHANGED <<header, level, dimension, jobs>>
      /\ UNCHANGED <<numbers, points, encodeBase, encodeLevels>>
  BY DEF KdInv, EncodeSmallNode, Popping
<1>2. EncoderIsSound'
  BY <1>1, EncoderPops
<1>3. numbers' \in Seq(Fields) /\ remaining \in Seq(Fields)
  BY <1>1 DEF KdInv, WireIsSound
<1>4. PICK order \in OpenAxesFrom(NodeAxis, NodeLevels) :
        remaining' = remaining \o OpenBits(order, points[Node.begin + 1]) \o
          (IF NodeSize = 2 THEN OpenBits(order, points[Node.end]) ELSE <<>>)
  BY DEF EncodeSmallNode
<1>5. /\ SpaceIsSound /\ points \in Seq([Axes -> Nat])
      /\ Node.begin \in Nat /\ Node.end \in Nat /\ Node.begin < Node.end /\ Node.end <= Len(points)
      /\ NodeLevels \in [Axes -> 0 .. BitLength]
  BY <1>1, TopOfEncoder DEF EncoderIsSound
<1>6. points[Node.begin + 1] \in [Axes -> Nat] /\ points[Node.end] \in [Axes -> Nat]
  <2>1. Len(points) \in Nat /\ \A k \in 1 .. Len(points) : points[k] \in [Axes -> Nat]
    BY <1>5, LenProperties
  <2>2. Node.begin + 1 \in 1 .. Len(points) /\ Node.end \in 1 .. Len(points)
    BY <1>5, <2>1
  <2> QED
    BY <2>1, <2>2
<1> DEFINE one == OpenBits(order, points[Node.begin + 1])
           two == IF NodeSize = 2 THEN OpenBits(order, points[Node.end]) ELSE <<>>
<1>7. one \in Seq(Fields) /\ two \in Seq(Fields)
  BY <1>5, <1>6, OpenBitsAreFields
<1>8. remaining' = (remaining \o one) \o two
  BY <1>4
<1> HIDE DEF one, two
<1>9. remaining' \in Seq(Fields)
  BY <1>3, <1>7, <1>8
<1> QED
  BY <1>1, <1>2, <1>3, <1>9, EncoderKeepsTheRest

(* The stream of numbers gets what the smaller half lacks.                 *)
LEMMA WrittenHalves ==
  ASSUME KdInv, NEW first \in Nat, NEW second \in Nat, first + second <= NumPoints,
         WriteHalves(first, second)
  PROVE  numbers' \in Seq(Fields)
<1> DEFINE n == first + second
           smaller == IF first < second THEN first ELSE second
<1>1. numbers' = Append(numbers, Field(MostSignificantBit(n), n \div 2 - smaller))
  BY DEF WriteHalves
<1>2. n \in Nat /\ smaller \in Nat /\ n \div 2 \in Int /\ NumPoints \in Nat /\ Fits32(NumPoints)
      /\ numbers \in Seq(Fields)
  BY DEF KdInv, WireIsSound, NumPoints
<1> HIDE DEF n, smaller
<1>3. Fits32(n)
  BY <1>2, FewerFit DEF n
<1>4. MostSignificantBit(n) \in Nat
  BY <1>2, <1>3, WidthsAreNumbers
<1>5. Field(MostSignificantBit(n), n \div 2 - smaller) \in Fields
  <2>1. n \div 2 - smaller \in Int
    BY <1>2
  <2> QED
    BY <1>4, <2>1, FieldsHaveValues
<1> QED
  BY <1>1, <1>2, <1>5, AppendProperties

LEMMA SplitNodeKeeps ==
  ASSUME KdInv, SplitNode, UNCHANGED decoderVars
  PROVE  KdInv'
<1> DEFINE a == NodeAxis
           pos == Node.stackPos
           split == NodeBase[a] + Half(NodeLevels, a)
           low == LowPoints(a, split)
           middle == Node.begin + Cardinality(low)
           deeper == [NodeLevels EXCEPT ![a] = @ + 1]
           upper == [NodeBase EXCEPT ![a] = split]
           left == [begin |-> Node.begin, end |-> middle, lastAxis |-> a, stackPos |-> pos]
           right == [begin |-> middle, end |-> Node.end, lastAxis |-> a, stackPos |-> pos + 1]
           new == Front(encodeStack) \o
                    Push(IfAny(middle - Node.begin, left), IfAny(Node.end - middle, right))
           m == Len(encodeStack) - 1
           c == middle - Node.begin
           d == Node.end - middle
<1>1. /\ EncoderIsSound /\ encodeStack # <<>> /\ phase' = "encode"
      /\ UNCHANGED <<header, level, dimension, jobs, remaining>>
      /\ NodeLevels[a] < BitLength
  BY DEF KdInv, SplitNode, Popping
<1>2. /\ WriteHalves(middle - Node.begin, Node.end - middle)
      /\ Partition(low, middle)
      /\ encodeBase' = [encodeBase EXCEPT ![pos + 1] = upper]
      /\ encodeLevels' = [encodeLevels EXCEPT ![pos] = deeper, ![pos + 1] = deeper]
      /\ encodeStack' = new
  <2>1. SplitInto(a, split, low)
    BY DEF SplitNode
  <2> HIDE DEF a, split, low
  <2> QED
    BY <2>1 DEF SplitInto
<1>3. /\ SpaceIsSound /\ points \in Seq([Axes -> Nat]) /\ Len(points) = NumPoints
      /\ CellsAreSound(encodeBase, encodeLevels)
      /\ encodeStack \in Seq(EncodeNodes)
      /\ RangesAreApart(encodeStack)
      /\ NodesAreDeep(encodeStack, encodeLevels)
      /\ \A i \in DOMAIN encodeStack :
           NodeHoldsItsPoints(encodeStack[i], points, encodeBase, encodeLevels)
  BY <1>1 DEF EncoderIsSound
<1>4. /\ Node.begin \in Nat /\ Node.end \in Nat /\ Node.begin < Node.end
      /\ Node.end <= Len(points) /\ Node.end <= NumPoints
      /\ pos \in Positions /\ pos \in Nat /\ pos <= Cardinality(KnownBits(NodeLevels))
      /\ CellIsSound(NodeBase, NodeLevels)
      /\ NodeBase \in [Axes -> Nat] /\ NodeLevels \in [Axes -> 0 .. BitLength]
      /\ a \in Axes
      /\ NodeHoldsItsPoints(Node, points, encodeBase, encodeLevels)
  BY <1>1, TopOfEncoder
<1> HIDE DEF a
<1>5. /\ low \in SUBSET NodePoints /\ Cardinality(low) \in 0 .. NodeSize
      /\ middle \in Nat /\ Node.begin <= middle /\ middle <= Node.end
  <2>1. Node.begin <= Node.end
    BY <1>4
  <2>2. low \in SUBSET NodePoints /\ Cardinality(low) \in 0 .. NodeSize
    BY <1>4, <2>1, LowPointsCount
  <2> HIDE DEF low
  <2> QED
    BY <1>4, <2>2 DEF NodeSize
<1>6. pos + 1 \in Positions
  BY <1>1, <1>3, <1>4, NextPositionExists
<1>7. /\ CellIsSound(NodeBase, deeper) /\ CellIsSound(upper, deeper)
      /\ HalvesHoldPoints(NodeBase, NodeLevels, upper, deeper, split, a)
  <2>1. /\ upper = [NodeBase EXCEPT ![a] = @ + Half(NodeLevels, a)]
        /\ deeper = [NodeLevels EXCEPT ![a] = @ + 1]
        /\ split = NodeBase[a] + Half(NodeLevels, a)
    OBVIOUS
  <2>2. SpaceIsSound /\ CellIsSound(NodeBase, NodeLevels) /\ a \in Axes /\ NodeLevels[a] < BitLength
    BY <1>1, <1>3, <1>4
  <2> HIDE DEF upper, deeper, split
  <2>3. /\ CellIsSound(NodeBase, deeper) /\ CellIsSound(upper, deeper)
        /\ HalvesHoldPoints(NodeBase, NodeLevels, upper, deeper,
                            NodeBase[a] + Half(NodeLevels, a), a)
    BY ONLY <2>1, <2>2, HalvesAreCells
  <2> QED
    BY <2>1, <2>3
<1> HIDE DEF low, middle, split
<1>8. CellsAreSound(encodeBase', encodeLevels')
  <2>1. CellIsSound(encodeBase[pos], deeper)
    BY <1>7 DEF NodeBase
  <2> HIDE DEF upper, deeper, pos
  <2> QED
    BY <1>2, <1>3, <1>4, <1>6, <1>7, <2>1, SplitKeepsCells
<1>9. /\ new \in Seq(EncodeNodes)
      /\ Replaced(encodeStack, new, left, c, right, d)
  <2>1. middle - Node.begin \in Nat /\ Node.end - middle \in Nat
    BY <1>4, <1>5
  <2>2. left \in EncodeNodes /\ right \in EncodeNodes
    <3>1. pos + 1 \in Nat
      BY <1>4
    <3> QED
      BY <1>4, <1>5, <3>1 DEF EncodeNodes
  <2> HIDE DEF left, right
  <2> QED
    BY <1>1, <1>3, <2>1, <2>2, PushReplacesTop
<1>10. NodesAreDeep(new, encodeLevels')
  <2>1. Cardinality(KnownBits(deeper)) = Cardinality(KnownBits(encodeLevels[pos])) + 1
    BY <1>1, <1>3, <1>4, OneMoreBit DEF NodeLevels
  <2>2. left.stackPos = pos /\ right.stackPos = pos + 1 /\ pos = Last(encodeStack).stackPos
    BY DEF Node
  <2>3. DOMAIN encodeLevels = Positions
    BY <1>3 DEF CellsAreSound
  <2>4. c \in Nat /\ d \in Nat
    BY <1>4, <1>5
  <2>5. encodeLevels' = [encodeLevels EXCEPT ![pos] = deeper, ![pos + 1] = deeper]
    BY <1>2
  <2>6. /\ SpaceIsSound /\ encodeStack \in Seq(EncodeNodes) /\ encodeStack # <<>>
        /\ NodesAreDeep(encodeStack, encodeLevels)
    BY <1>1, <1>3
  <2> HIDE DEF left, right, deeper, pos, new, c, d
  <2>7. NodesAreDeep(new, [encodeLevels EXCEPT ![pos] = deeper, ![pos + 1] = deeper])
    BY ONLY <1>6, <1>9, <2>1, <2>2, <2>3, <2>4, <2>6, HalvesAreDeep
  <2> QED
    BY <2>5, <2>7
<1>11. \A i \in DOMAIN new :
          \/ i \in 1 .. m /\ i \in DOMAIN encodeStack /\ new[i] = encodeStack[i]
          \/ i = m + 1 /\ middle - Node.begin > 0 /\ new[i] = left
          \/ /\ i = Len(new) /\ i > m /\ Node.end - middle > 0 /\ new[i] = right
             /\ middle - Node.begin > 0 => i = m + 2
  <2>1. c \in Nat /\ d \in Nat
    BY <1>4, <1>5
  <2>2. encodeStack \in Seq(EncodeNodes) /\ encodeStack # <<>>
    BY <1>1, <1>3
  <2> HIDE DEF left, right, new, c, d, m
  <2>3. \A i \in DOMAIN new :
          \/ i \in 1 .. m /\ i \in DOMAIN encodeStack /\ new[i] = encodeStack[i]
          \/ i = m + 1 /\ c > 0 /\ new[i] = left
          \/ i = Len(new) /\ i > m /\ d > 0 /\ new[i] = right /\ (c > 0 => i = m + 2)
    BY ONLY <1>9, <2>1, <2>2, NodesAfterPush DEF m
  <2> QED
    BY <2>3 DEF c, d
<1>12. /\ Node = encodeStack[Len(encodeStack)] /\ Len(encodeStack) \in DOMAIN encodeStack
       /\ m \in Nat /\ \A i \in 1 .. m : i \in Nat /\ i < Len(encodeStack)
       /\ Len(new) \in Nat /\ DOMAIN new = 1 .. Len(new)
  <2>1. Len(encodeStack) \in Nat /\ Len(encodeStack) # 0
    BY <1>1, <1>3, EmptySeq, LenProperties
  <2>2. Node = encodeStack[Len(encodeStack)] /\ Len(encodeStack) \in DOMAIN encodeStack
    BY <1>1, <1>3, TopOfStack DEF Node
  <2>3. Len(new) \in Nat /\ DOMAIN new = 1 .. Len(new)
    <3> HIDE DEF new
    <3> QED
      BY <1>9, LenProperties
  <2> HIDE DEF new
  <2> QED
    BY <2>1, <2>2, <2>3
<1>13. /\ left.begin = Node.begin /\ left.end = middle /\ left.stackPos = pos
       /\ right.begin = middle /\ right.end = Node.end /\ right.stackPos = pos + 1
  OBVIOUS
<1>14. ASSUME NEW i \in 1 .. m, i \in DOMAIN encodeStack
       PROVE  /\ encodeStack[i].begin \in Nat /\ encodeStack[i].end \in Nat
              /\ encodeStack[i].begin < encodeStack[i].end
              /\ encodeStack[i].end <= Node.begin /\ encodeStack[i].end <= NumPoints
              /\ encodeStack[i].stackPos \in Positions /\ encodeStack[i].stackPos < pos
              /\ encodeStack[i].stackPos \in Nat
  <2>1. encodeStack[i] \in EncodeNodes
    BY <1>3, <1>14, LenProperties
  <2>2. i < Len(encodeStack)
    BY <1>12
  <2>3. encodeStack[i].begin \in Nat /\ encodeStack[i].end \in Nat /\ encodeStack[i].stackPos \in Nat
    BY <2>1 DEF EncodeNodes
  <2> QED
    BY <1>3, <1>12, <1>14, <2>2, <2>3 DEF RangesAreApart, NodesAreDeep
<1> HIDE DEF new, left, right, m, pos
<1>15. RangesAreApart(new)
  <2>1. ASSUME NEW i \in DOMAIN new
        PROVE  new[i].begin < new[i].end /\ new[i].end <= NumPoints
    <3>1. CASE i \in 1 .. m /\ i \in DOMAIN encodeStack /\ new[i] = encodeStack[i]
      BY <1>14, <3>1
    <3>2. CASE i = m + 1 /\ middle - Node.begin > 0 /\ new[i] = left
      <4>1. NumPoints \in Int
        BY DEF KdInv, WireIsSound, NumPoints
      <4> QED
        BY <1>4, <1>5, <1>13, <3>2, <4>1
    <3>3. CASE Node.end - middle > 0 /\ new[i] = right
      BY <1>4, <1>5, <1>13, <3>3
    <3> QED
      BY <1>11, <3>1, <3>2, <3>3
  <2>2. ASSUME NEW i \in DOMAIN new, NEW j \in DOMAIN new, i < j
        PROVE  new[i].end <= new[j].begin
    <3>0. i # j
      BY <1>12, <2>2
    <3>1. CASE j \in 1 .. m /\ j \in DOMAIN encodeStack /\ new[j] = encodeStack[j]
      <4>1. i \in 1 .. m /\ i \in DOMAIN encodeStack /\ new[i] = encodeStack[i]
        BY <1>11, <1>12, <2>2, <3>1
      <4> QED
        BY <1>3, <2>2, <3>1, <4>1 DEF RangesAreApart
    <3>2. CASE j = m + 1 /\ middle - Node.begin > 0 /\ new[j] = left
      <4>1. i \in 1 .. m /\ i \in DOMAIN encodeStack /\ new[i] = encodeStack[i]
        BY <1>11, <1>12, <2>2, <3>2
      <4> QED
        BY <1>13, <1>14, <3>2, <4>1
    <3>3. CASE j = Len(new) /\ new[j] = right
      <4>1. CASE i \in 1 .. m /\ i \in DOMAIN encodeStack /\ new[i] = encodeStack[i]
        <5>1. /\ encodeStack[i].end \in Nat /\ encodeStack[i].end <= Node.begin
          BY <1>14, <4>1
        <5>2. encodeStack[i].end <= middle
          BY <1>4, <1>5, <5>1
        <5> QED
          BY <1>13, <3>3, <4>1, <5>2
      <4>2. CASE i = m + 1 /\ new[i] = left
        BY <1>5, <1>13, <3>3, <4>2
      <4>3. i # Len(new)
        BY <3>0, <3>3
      <4> QED
        BY <1>11, <4>1, <4>2, <4>3
    <3> QED
      BY <1>11, <3>1, <3>2, <3>3
  <2> QED
    BY <2>1, <2>2 DEF RangesAreApart
<1>16. /\ points' \in Seq([Axes -> Nat]) /\ Len(points') = Len(points)
       /\ \A k \in DOMAIN points : k \notin NodePoints => points'[k] = points[k]
       /\ \A k \in NodePoints : \E j \in NodePoints :
            points'[k] = points[j] /\ (k <= middle <=> j \in low)
  <2>1. middle \in Int
    BY <1>5
  <2>2. Partition(low, middle)
    BY <1>2
  <2>3. points \in Seq([Axes -> Nat])
    BY <1>3
  <2> QED
    BY <1>4, <1>5, <2>1, <2>2, <2>3, PartitionIsRight
<1>17. /\ pos # pos + 1 /\ pos + 1 \in Positions
       /\ encodeBase'[pos] = NodeBase /\ encodeBase'[pos + 1] = upper
       /\ encodeLevels'[pos] = deeper /\ encodeLevels'[pos + 1] = deeper
       /\ \A p \in Positions : p # pos /\ p # pos + 1 =>
            encodeBase'[p] = encodeBase[p] /\ encodeLevels'[p] = encodeLevels[p]
  <2>1. pos # pos + 1
    BY <1>4
  <2>2. DOMAIN encodeBase = Positions /\ DOMAIN encodeLevels = Positions
    BY <1>3 DEF CellsAreSound
  <2>3. NodeBase = encodeBase[pos]
    BY DEF NodeBase, pos
  <2> HIDE DEF upper, deeper
  <2> QED
    BY <1>2, <1>4, <1>6, <2>1, <2>2, <2>3
<1>18. /\ DOMAIN points = 1 .. Len(points) /\ Len(points) \in Nat
       /\ \A k \in NodePoints : k \in Int /\ points[k] \in [Axes -> Nat]
       /\ \A k \in NodePoints : PointInCell(points[k], NodeBase, NodeLevels)
  <2>1. DOMAIN points = 1 .. Len(points) /\ Len(points) \in Nat
        /\ \A k \in 1 .. Len(points) : points[k] \in [Axes -> Nat]
    BY <1>3, LenProperties
  <2>2. \A k \in NodePoints : k \in 1 .. Len(points) /\ k \in Int
    BY <1>4, <2>1 DEF NodePoints
  <2>3. \A k \in NodePoints : PointInCell(points[k], NodeBase, NodeLevels)
    BY <1>4 DEF NodeHoldsItsPoints, NodePoints, NodeBase, NodeLevels
  <2> QED
    BY <2>1, <2>2, <2>3
<1> HIDE DEF upper, deeper
<1>19. ASSUME NEW i \in DOMAIN new
       PROVE  NodeHoldsItsPoints(new[i], points', encodeBase', encodeLevels')
  <2>1. CASE i \in 1 .. m /\ i \in DOMAIN encodeStack /\ new[i] = encodeStack[i]
    <3> DEFINE node == encodeStack[i]
               p == node.stackPos
    <3>1. /\ node.begin \in Nat /\ node.end \in Nat /\ node.end <= Node.begin
          /\ p \in Positions /\ p \in Nat /\ p < pos
      BY <1>14, <2>1
    <3> HIDE DEF node
    <3>2. \A k \in node.begin + 1 .. node.end : k \in DOMAIN points /\ k \notin NodePoints
      BY <1>4, <1>18, <3>1, SMTT(20) DEF NodePoints
    <3>3. p # pos /\ p # pos + 1
      BY <1>4, <3>1
    <3>4. encodeBase'[p] = encodeBase[p] /\ encodeLevels'[p] = encodeLevels[p]
      BY <1>17, <3>1, <3>3
    <3>5. NodeHoldsItsPoints(node, points, encodeBase, encodeLevels)
      BY <1>3, <2>1 DEF node
    <3>6. NodeHoldsItsPoints(node, points', encodeBase', encodeLevels')
      BY <1>16, <3>2, <3>4, <3>5 DEF NodeHoldsItsPoints
    <3> QED
      BY <2>1, <3>6 DEF node
  <2>2. CASE new[i] = left
    <3>1. ASSUME NEW k \in left.begin + 1 .. left.end
          PROVE  PointInCell(points'[k], NodeBase, deeper)
      <4>1. k \in NodePoints /\ k <= middle
        BY <1>4, <1>5, <1>13 DEF NodePoints
      <4>2. PICK j \in NodePoints : points'[k] = points[j] /\ j \in low
        BY <1>16, <4>1
      <4>3. points[j][a] < split
        BY <4>2 DEF low, LowPoints
      <4> QED
        BY <1>7, <1>18, <4>2, <4>3 DEF HalvesHoldPoints
    <3> QED
      BY <1>13, <1>17, <2>2, <3>1 DEF NodeHoldsItsPoints
  <2>3. CASE new[i] = right
    <3>1. ASSUME NEW k \in right.begin + 1 .. right.end
          PROVE  PointInCell(points'[k], upper, deeper)
      <4>1. k \in NodePoints /\ ~ (k <= middle)
        BY <1>4, <1>5, <1>13 DEF NodePoints
      <4>2. PICK j \in NodePoints : points'[k] = points[j] /\ j \notin low
        BY <1>16, <4>1
      <4>3. ~ (points[j][a] < split)
        BY <4>2 DEF low, LowPoints
      <4> QED
        BY <1>7, <1>18, <4>2, <4>3 DEF HalvesHoldPoints
    <3> QED
      BY <1>13, <1>17, <2>3, <3>1 DEF NodeHoldsItsPoints
  <2> QED
    BY <1>11, <2>1, <2>2, <2>3
<1>20. EncoderIsSound'
  <2>1. NumPoints' = NumPoints
    BY <1>1 DEF NumPoints
  <2>2. encodeStack' = new
    BY <1>2 DEF new, left, right, pos, a, low, middle, split
  <2> QED
    BY <1>1, <1>3, <1>8, <1>9, <1>10, <1>15, <1>16, <1>19, <2>1, <2>2, SameSpace, SamePoints
       DEF EncoderIsSound
<1>21. numbers' \in Seq(Fields) /\ remaining' \in Seq(Fields)
  <2>1. middle - Node.begin \in Nat /\ Node.end - middle \in Nat
    BY <1>4, <1>5
  <2>2. (middle - Node.begin) + (Node.end - middle) <= NumPoints
    <3>1. NumPoints \in Int
      BY DEF KdInv, WireIsSound, NumPoints
    <3> QED
      BY <1>4, <1>5, <3>1
  <2>3. numbers' \in Seq(Fields)
    BY <1>2, <2>1, <2>2, WrittenHalves
  <2>4. remaining' \in Seq(Fields)
    BY <1>1 DEF KdInv, WireIsSound
  <2> QED
    BY <2>3, <2>4
<1> QED
  BY <1>1, <1>20, <1>21, EncoderKeepsTheRest

(* Cancelling and ending.                                                  *)
LEMMA EncodingEndsKeeps ==
  ASSUME KdInv, CancelEncoding \/ EndEncoding, UNCHANGED decoderVars
  PROVE  KdInv'
<1>1. /\ phase' \in {"cancelled", "written"}
      /\ UNCHANGED <<header, level, dimension, jobs, numbers, remaining>>
  BY DEF CancelEncoding, EndEncoding, wireVars, encoderVars
<1>2. numbers' \in Seq(Fields) /\ remaining' \in Seq(Fields)
  BY <1>1 DEF KdInv, WireIsSound
<1> QED
  BY <1>1, <1>2, EncoderKeepsTheRest

LEMMA EncoderKeeps ==
  ASSUME KdInv, EncodeStep
  PROVE  KdInv'
BY StartEncodingKeeps, EncodeKnownNodeKeeps, EncodeSmallNodeKeeps, SplitNodeKeeps, EncodingEndsKeeps
   DEF EncodeStep, EncoderNext

-----------------------------------------------------------------------------
(* The steps of the decoder.                                               *)

(* The points that are pending, counted node by node.                      *)
PointsOf(i, n) == {i} \X (1 .. n)
PendingOf(stack) ==
  {p \in (DOMAIN stack) \X (1 .. NumPoints) : p[2] <= stack[p[1]].numRemainingPoints}
PendingBelow(stack, m) ==
  {p \in (1 .. m) \X (1 .. NumPoints) : p[2] <= stack[p[1]].numRemainingPoints}

LEMMA PointsOfANode ==
  ASSUME NEW i, NEW n \in Nat
  PROVE  IsFiniteSet(PointsOf(i, n)) /\ Cardinality(PointsOf(i, n)) = n
<1>1. IsFiniteSet({i}) /\ Cardinality({i}) = 1
  BY FS_Singleton
<1>2. \A a, b \in Int : IsFiniteSet(a .. b)
                          /\ Cardinality(a .. b) = IF a > b THEN 0 ELSE b - a + 1
  BY FS_Interval
<1>3. IsFiniteSet(1 .. n) /\ Cardinality(1 .. n) = IF 1 > n THEN 0 ELSE n - 1 + 1
  BY <1>2
<1>4. Cardinality(1 .. n) = n
  BY <1>3
<1>5. /\ IsFiniteSet({i} \X (1 .. n))
      /\ Cardinality({i} \X (1 .. n)) = Cardinality({i}) * Cardinality(1 .. n)
  BY <1>1, <1>3, FS_Product
<1> QED
  BY <1>1, <1>4, <1>5 DEF PointsOf

(* A node more at the end.                                                 *)
LEMMA OneMoreNode ==
  ASSUME NEW T, IsFiniteSet(T), NEW i, NEW n \in Nat, \A p \in T : p[1] # i
  PROVE  /\ IsFiniteSet(T \cup PointsOf(i, n))
         /\ Cardinality(T \cup PointsOf(i, n)) = Cardinality(T) + n
<1>1. IsFiniteSet(PointsOf(i, n)) /\ Cardinality(PointsOf(i, n)) = n
  BY PointsOfANode
<1>2. T \cap PointsOf(i, n) = {}
  BY DEF PointsOf
<1>3. /\ IsFiniteSet(T \cup PointsOf(i, n))
      /\ Cardinality(T \cup PointsOf(i, n)) =
           Cardinality(T) + Cardinality(PointsOf(i, n)) - Cardinality(T \cap PointsOf(i, n))
  BY <1>1, FS_Union
<1>4. Cardinality(T \cap PointsOf(i, n)) = 0 /\ Cardinality(T) \in Nat
  <2>1. Cardinality({}) = 0
    BY FS_EmptySet
  <2> QED
    BY <1>2, <2>1, FS_CardinalityType, Zenon
<1> QED
  BY <1>1, <1>3, <1>4

LEMMA PendingBelowIsFinite ==
  ASSUME NumPoints \in Nat, NEW stack, NEW m \in Nat
  PROVE  /\ IsFiniteSet(PendingBelow(stack, m)) /\ Cardinality(PendingBelow(stack, m)) \in Nat
         /\ \A p \in PendingBelow(stack, m) : p[1] \in 1 .. m
<1>1. \A a, b \in Int : IsFiniteSet(a .. b)
  BY FS_Interval
<1>2. IsFiniteSet(1 .. m) /\ IsFiniteSet(1 .. NumPoints)
  BY <1>1
<1>3. IsFiniteSet((1 .. m) \X (1 .. NumPoints))
  BY <1>2, FS_Product
<1>4. PendingBelow(stack, m) \in SUBSET ((1 .. m) \X (1 .. NumPoints))
  BY DEF PendingBelow
<1>5. IsFiniteSet(PendingBelow(stack, m))
  BY <1>3, <1>4, FS_Subset
<1>6. \A p \in PendingBelow(stack, m) : p[1] \in 1 .. m
  BY <1>4
<1> QED
  BY <1>5, <1>6, FS_CardinalityType

(* The points of the node on top make way for c and d others.              *)
PendingChanges(s, new, c, d) ==
  /\ Cardinality(PendingOf(s)) \in Nat /\ Cardinality(PendingOf(new)) \in Nat
  /\ Last(s).numRemainingPoints \in Nat
  /\ Cardinality(PendingOf(new)) + Last(s).numRemainingPoints
       = Cardinality(PendingOf(s)) + c + d

LEMMA PendingAfterPush ==
  ASSUME NumPoints \in Nat, NEW s \in Seq(DecodeNodes), s # <<>>, NEW new \in Seq(DecodeNodes),
         NEW x, NEW y, NEW c \in Nat, NEW d \in Nat, c <= NumPoints, d <= NumPoints,
         Replaced(s, new, x, c, y, d),
         c > 0 => x.numRemainingPoints = c, d > 0 => y.numRemainingPoints = d
  PROVE  PendingChanges(s, new, c, d)
<1> DEFINE m == Len(s) - 1
           size == Last(s).numRemainingPoints
           below == PendingBelow(s, m)
           q == IF c > 0 THEN m + 2 ELSE m + 1
<1>1. /\ Len(s) \in Nat /\ Len(s) = m + 1 /\ m \in Nat /\ DOMAIN s = 1 .. m + 1
      /\ Last(s) = s[m + 1] /\ Last(s) \in DecodeNodes
      /\ Len(new) \in Nat /\ DOMAIN new = 1 .. Len(new)
  <2>1. Len(s) \in Nat /\ Len(s) # 0 /\ DOMAIN s = 1 .. Len(s)
    BY EmptySeq, LenProperties
  <2>2. Last(s) \in DecodeNodes /\ Last(s) = s[Len(s)]
    BY TopOfStack
  <2> QED
    BY <2>1, <2>2, LenProperties
<1>2. size \in Nat /\ size <= NumPoints
  BY <1>1 DEF DecodeNodes
<1>3. \A i \in DOMAIN new :
        \/ i \in 1 .. m /\ i \in DOMAIN s /\ new[i] = s[i]
        \/ i = m + 1 /\ c > 0 /\ new[i] = x
        \/ i = Len(new) /\ i > m /\ d > 0 /\ new[i] = y /\ (c > 0 => i = m + 2)
  <2> HIDE DEF m
  <2> QED
    BY ONLY s \in Seq(DecodeNodes), s # <<>>, new \in Seq(DecodeNodes), c \in Nat, d \in Nat,
            Replaced(s, new, x, c, y, d), NodesAfterPush DEF m
<1>4. /\ Len(new) = m + (IF c > 0 THEN 1 ELSE 0) + (IF d > 0 THEN 1 ELSE 0)
      /\ \A i \in 1 .. m : new[i] = s[i]
      /\ c > 0 => new[m + 1] = x
      /\ d > 0 => new[Len(new)] = y
  BY DEF Replaced
<1>5. d > 0 => q = Len(new)
  BY <1>1, <1>4
<1> HIDE DEF m
<1>6. IsFiniteSet(below) /\ Cardinality(below) \in Nat /\ \A p \in below : p[1] \in 1 .. m
  BY <1>1, PendingBelowIsFinite
<1>7. PendingOf(s) = below \cup PointsOf(m + 1, size)
  <2>1. \A i : i \in DOMAIN s <=> i \in 1 .. m \/ i = m + 1
    BY <1>1
  <2>2. s[m + 1].numRemainingPoints = size
    BY <1>1
  <2>3. \A j \in 1 .. NumPoints : j \in 1 .. size <=> j <= size
    BY <1>2
  <2>4. \A j \in 1 .. size : j \in 1 .. NumPoints
    BY <1>2
  <2> HIDE DEF size
  <2> QED
    BY <2>1, <2>2, <2>3, <2>4 DEF PendingOf, PendingBelow, PointsOf
<1>8. PendingOf(new) = (below \cup PointsOf(m + 1, c)) \cup PointsOf(q, d)
  <2> DEFINE all == (below \cup PointsOf(m + 1, c)) \cup PointsOf(q, d)
  <2>1. \A i \in 1 .. m : i \in DOMAIN new /\ new[i] = s[i] /\ i \in DOMAIN s
    BY <1>1, <1>4
  <2>2. c > 0 => m + 1 \in DOMAIN new /\ new[m + 1].numRemainingPoints = c
    BY <1>1, <1>4
  <2>3. d > 0 => q \in DOMAIN new /\ new[q].numRemainingPoints = d
    <3>1. d > 0 => q \in DOMAIN new
      BY <1>1, <1>4
    <3> QED
      BY <1>4, <1>5, <3>1
  <2>4. \A i \in DOMAIN new : i \in 1 .. m \/ (i = m + 1 /\ c > 0) \/ (i = q /\ d > 0)
    <3> HIDE DEF q
    <3> QED
      BY <1>3, <1>5
  <2>5. \A j : /\ j \in 1 .. c <=> (j \in 1 .. NumPoints /\ j <= c)
               /\ j \in 1 .. d <=> (j \in 1 .. NumPoints /\ j <= d)
               /\ j \in 1 .. c => c > 0
               /\ j \in 1 .. d => d > 0
    OBVIOUS
  <2> HIDE DEF q
  <2>6. ASSUME NEW p \in PendingOf(new) PROVE p \in all
    <3>1. /\ p \in (DOMAIN new) \X (1 .. NumPoints) /\ p = <<p[1], p[2]>>
          /\ p[1] \in DOMAIN new /\ p[2] \in 1 .. NumPoints
          /\ p[2] <= new[p[1]].numRemainingPoints
      BY DEF PendingOf
    <3>2. CASE p[1] \in 1 .. m
      <4>1. p \in (1 .. m) \X (1 .. NumPoints) /\ p[2] <= s[p[1]].numRemainingPoints
        BY <2>1, <3>1, <3>2
      <4> QED
        BY <4>1 DEF PendingBelow
    <3>3. CASE p[1] = m + 1 /\ c > 0
      <4>1. p[2] \in 1 .. c
        BY <2>2, <2>5, <3>1, <3>3
      <4> QED
        BY <3>1, <3>3, <4>1 DEF PointsOf
    <3>4. CASE p[1] = q /\ d > 0
      <4>1. p[2] \in 1 .. d
        BY <2>3, <2>5, <3>1, <3>4
      <4> QED
        BY <3>1, <3>4, <4>1 DEF PointsOf
    <3> QED
      BY <2>4, <3>1, <3>2, <3>3, <3>4
  <2>7. ASSUME NEW p \in all PROVE p \in PendingOf(new)
    <3>1. CASE p \in below
      <4>1. /\ p \in (1 .. m) \X (1 .. NumPoints) /\ p = <<p[1], p[2]>>
            /\ p[1] \in 1 .. m /\ p[2] \in 1 .. NumPoints
            /\ p[2] <= s[p[1]].numRemainingPoints
        BY <3>1 DEF PendingBelow
      <4> QED
        BY <2>1, <4>1 DEF PendingOf
    <3>2. CASE p \in PointsOf(m + 1, c)
      <4>1. p = <<p[1], p[2]>> /\ p[1] = m + 1 /\ p[2] \in 1 .. c
        BY <3>2 DEF PointsOf
      <4>2. p[1] \in DOMAIN new /\ p[2] \in 1 .. NumPoints /\ p[2] <= new[p[1]].numRemainingPoints
        BY <2>2, <2>5, <4>1
      <4> QED
        BY <4>1, <4>2 DEF PendingOf
    <3>3. CASE p \in PointsOf(q, d)
      <4>1. p = <<p[1], p[2]>> /\ p[1] = q /\ p[2] \in 1 .. d
        BY <3>3 DEF PointsOf
      <4>2. p[1] \in DOMAIN new /\ p[2] \in 1 .. NumPoints /\ p[2] <= new[p[1]].numRemainingPoints
        BY <2>3, <2>5, <4>1
      <4> QED
        BY <4>1, <4>2 DEF PendingOf
    <3> QED
      BY <3>1, <3>2, <3>3
  <2> QED
    BY <2>6, <2>7
<1>9. m + 1 \notin 1 .. m /\ q \notin 1 .. m /\ (c > 0 => q # m + 1)
  BY <1>1
<1>10. \A n \in Nat : /\ IsFiniteSet(below \cup PointsOf(m + 1, n))
                      /\ Cardinality(below \cup PointsOf(m + 1, n)) = Cardinality(below) + n
  <2> HIDE DEF below
  <2>1. \A p \in below : p[1] # m + 1
    BY <1>6, <1>9
  <2> QED
    BY <1>6, <2>1, OneMoreNode
<1> HIDE DEF size
<1>11. /\ Cardinality(PendingOf(s)) = Cardinality(below) + size
       /\ IsFiniteSet(below \cup PointsOf(m + 1, c))
       /\ Cardinality(below \cup PointsOf(m + 1, c)) = Cardinality(below) + c
  BY <1>2, <1>7, <1>10
<1>12. \A p \in below \cup PointsOf(m + 1, c) : p[1] # q
  <2> SUFFICES ASSUME NEW p \in below \cup PointsOf(m + 1, c) PROVE p[1] # q
    OBVIOUS
  <2> HIDE DEF q, below
  <2>1. CASE p \in below
    BY <1>6, <1>9, <2>1
  <2>2. CASE p \in PointsOf(m + 1, c)
    <3>1. p[1] = m + 1 /\ p[2] \in 1 .. c
      BY <2>2 DEF PointsOf
    <3>2. c > 0
      BY <3>1
    <3> QED
      BY <1>9, <3>1, <3>2
  <2> QED
    BY <2>1, <2>2
<1> HIDE DEF below, q, size
<1>13. Cardinality(PendingOf(new)) = Cardinality(below) + c + d
  BY <1>8, <1>11, <1>12, OneMoreNode
<1> QED
  BY <1>2, <1>6, <1>11, <1>13, SMTT(20) DEF size, PendingChanges

(* The cell on top.                                                        *)
LEMMA TopOfDecoder ==
  ASSUME DecoderIsSound, decodeStack # <<>>
  PROVE  /\ Cell \in DecodeNodes
         /\ CellSize \in 1 .. NumPoints /\ Cell.lastAxis \in Axes
         /\ Cell.stackPos \in Positions /\ Cell.stackPos \in Nat
         /\ Cell.stackPos <= Cardinality(KnownBits(CellLevels))
         /\ CellIsSound(CellBase, CellLevels)
         /\ CellBase \in [Axes -> Nat] /\ CellLevels \in [Axes -> 0 .. BitLength]
<1>1. /\ Cell \in DecodeNodes /\ Len(decodeStack) \in DOMAIN decodeStack
      /\ Cell = decodeStack[Len(decodeStack)]
  BY TopOfStack DEF DecoderIsSound, Cell
<1>2. CellSize \in 1 .. NumPoints /\ Cell.lastAxis \in Axes /\ Cell.stackPos \in Nat
  BY <1>1 DEF DecodeNodes, CellSize
<1>3. Cell.stackPos \in Positions /\ Cell.stackPos <= Cardinality(KnownBits(CellLevels))
  BY <1>1 DEF DecoderIsSound, NodesAreDeep, CellLevels
<1>4. CellIsSound(CellBase, CellLevels)
  BY <1>3 DEF DecoderIsSound, CellsAreSound, CellBase, CellLevels
<1>5. CellBase \in [Axes -> Nat] /\ CellLevels \in [Axes -> 0 .. BitLength]
  BY <1>4 DEF CellIsSound
<1> QED
  BY <1>1, <1>2, <1>3, <1>4, <1>5

(* What the decoder starts with.                                           *)
RootCell == [numRemainingPoints |-> NumPoints, lastAxis |-> 0, stackPos |-> 0]
DecoderStarts ==
  /\ SpaceIsSound /\ NumPoints \in Nat \ {0}
  /\ decodeStack = <<RootCell>>
  /\ decodeBase = Prepared(<<>>, dimension) /\ decodeLevels = Prepared(<<>>, dimension)

LEMMA DecoderStartIsSound ==
  ASSUME DecoderStarts
  PROVE  DecoderIsSound /\ Cardinality(Pending) = NumPoints
<1>1. /\ SpaceIsSound /\ dimension \in Nat \ {0} /\ NumPoints \in Nat \ {0}
      /\ decodeStack = <<RootCell>>
      /\ decodeBase = Prepared(<<>>, dimension) /\ decodeLevels = Prepared(<<>>, dimension)
  BY DEF DecoderStarts, SpaceIsSound
<1>2. CellsAreSound(decodeBase, decodeLevels)
  BY <1>1, PreparedCells
<1>3. /\ RootCell \in DecodeNodes /\ RootCell.stackPos = 0
      /\ RootCell.numRemainingPoints = NumPoints
  <2>1. 0 \in Axes /\ NumPoints \in 1 .. NumPoints
    BY <1>1 DEF Axes
  <2> QED
    BY <2>1 DEF RootCell, DecodeNodes
<1>4. decodeStack \in Seq(DecodeNodes) /\ DOMAIN decodeStack = {1} /\ decodeStack[1] = RootCell
  BY <1>1, <1>3
<1>5. 0 \in Positions
  <2>1. \A d, w \in Nat : d * w \in Nat
    OBVIOUS
  <2>2. dimension * WordBits \in Nat
    BY <1>1, <2>1, WireAssumption
  <2> QED
    BY <2>2 DEF Positions, StackLen, ScratchLen
<1>6. NodesAreDeep(decodeStack, decodeLevels)
  <2>1. 0 <= Cardinality(KnownBits(decodeLevels[0]))
    BY <1>1, KnownBitsAreFinite
  <2> QED
    BY <1>3, <1>4, <1>5, <2>1 DEF NodesAreDeep
<1>7. Pending = PointsOf(1, NumPoints)
  BY <1>1, <1>3, <1>4 DEF Pending, PointsOf
<1>8. Cardinality(Pending) = NumPoints
  BY <1>1, <1>7, PointsOfANode
<1> QED
  BY <1>1, <1>2, <1>4, <1>6, <1>8 DEF DecoderIsSound

Reads == [numbers : Nat, remaining : Nat, axes : Nat, halves : Nat]

(* What all steps of the decoder leave alone.                              *)
LEMMA DecoderKeepsTheRest ==
  ASSUME KdInv, UNCHANGED <<wireVars, encoderVars>>,
         read' \in Reads, misread' \in BOOLEAN, phase' \in Phases \ {"encode"},
         phase' = "decode" => DecoderIsSound',
         phase' \in {"decode", "done"} => rows' \in Seq(Rows),
         NoPointLost'
  PROVE  KdInv'
<1>1. /\ UNCHANGED <<header, level, dimension, numbers, remaining, jobs>>
  BY DEF wireVars, encoderVars
<1>2. NumPoints' = NumPoints /\ Rows' = Rows
  BY <1>1, SameSpace
<1>3. WireIsSound'
  BY <1>1, <1>2 DEF KdInv, WireIsSound, Fits32, Reads
<1> QED
  BY <1>2, <1>3 DEF KdInv

LEMMA StartDecodingKeeps ==
  ASSUME KdInv, StartDecoding
  PROVE  KdInv'
<1>1. /\ UNCHANGED <<wireVars, encoderVars>> /\ read' = Unread /\ rows' = <<>> /\ misread' = FALSE
      /\ UNCHANGED <<header, dimension>>
  BY DEF StartDecoding, wireVars
<1>2. /\ dimension \in Int /\ header.bitLength \in Nat /\ NumPoints \in Nat
  BY DEF KdInv, WireIsSound, NumPoints
<1>3. \/ phase' = "failed"
      \/ phase' = "done" /\ NumPoints = 0
      \/ /\ phase' = "decode" /\ NumPoints # 0 /\ dimension > 0 /\ BitLength <= WordBits
         /\ decodeStack' = <<RootCell>>
         /\ decodeBase' = Prepared(decodeBase, dimension)
         /\ decodeLevels' = Prepared(decodeLevels, dimension)
  BY <1>2, WireAssumption DEF StartDecoding, RootCell, BitLength
<1>4. Axes' = Axes /\ BitLength' = BitLength /\ NumPoints' = NumPoints /\ Rows' = Rows
      /\ (SpaceIsSound' <=> SpaceIsSound)
  BY <1>1, SameSpace
<1>5. phase' = "decode" => DecoderIsSound' /\ (Cardinality(Pending) = NumPoints)'
  <2> SUFFICES ASSUME phase' = "decode"
               PROVE  DecoderIsSound' /\ (Cardinality(Pending) = NumPoints)'
    OBVIOUS
  <2>1. /\ NumPoints # 0 /\ dimension > 0 /\ BitLength <= WordBits
        /\ decodeStack' = <<RootCell>>
        /\ decodeBase' = Prepared(<<>>, dimension) /\ decodeLevels' = Prepared(<<>>, dimension)
    BY <1>3 DEF Prepared
  <2>2. SpaceIsSound'
    BY <1>2, <1>4, <2>1, WireAssumption DEF SpaceIsSound, BitLength
  <2>3. RootCell' = RootCell
    BY <1>4 DEF RootCell
  <2>4. DecoderStarts'
    BY <1>1, <1>2, <1>4, <2>1, <2>2, <2>3 DEF DecoderStarts
  <2>5. DecoderStarts' => DecoderIsSound' /\ (Cardinality(Pending) = NumPoints)'
    <3>1. DecoderStarts => DecoderIsSound /\ Cardinality(Pending) = NumPoints
      BY DecoderStartIsSound
    <3> QED
      BY DecoderStartIsSound, PTL
  <2> QED
    BY <2>4, <2>5
<1>6. NoPointLost'
  <2>1. Len(<<>>) = 0
    OBVIOUS
  <2>2. CASE phase' = "decode"
    BY <1>1, <1>2, <1>4, <1>5, <2>1, <2>2 DEF NoPointLost
  <2>3. CASE phase' # "decode"
    BY <1>1, <1>3, <1>4, <2>1, <2>3 DEF NoPointLost
  <2> QED
    BY <2>2, <2>3
<1>7. rows' \in Seq(Rows)
  BY <1>1
<1>8. read' \in Reads /\ misread' \in BOOLEAN
  BY <1>1 DEF Unread, Reads
<1>9. phase' \in Phases \ {"encode"}
  BY <1>3 DEF Phases, Resting
<1> QED
  BY <1>1, <1>5, <1>6, <1>7, <1>8, <1>9, DecoderKeepsTheRest

(* What the turns of the loop have in common.                              *)
LEMMA NextRead ==
  ASSUME KdInv
  PROVE  /\ read \in Reads /\ AfterAxis \in Reads
         /\ AfterAxis.remaining = read.remaining /\ AfterAxis.numbers = read.numbers
         /\ AfterAxis.halves = read.halves
<1>1. read \in Reads /\ read.axes + 1 \in Nat
  BY DEF KdInv, WireIsSound, Reads
<1> QED
  BY <1>1 DEF AfterAxis, Reads

(* A leaf of the tree gives as many rows as it has points and makes way.   *)
LEMMA LeafKeeps ==
  ASSUME KdInv, phase = "decode", phase' = "decode", decodeStack # <<>>,
         decodeStack' = Front(decodeStack), UNCHANGED <<decodeBase, decodeLevels>>,
         UNCHANGED <<wireVars, encoderVars>>, read' \in Reads, misread' \in BOOLEAN,
         NEW more \in Seq(Rows), Len(more) = CellSize, rows' = rows \o more
  PROVE  KdInv'
<1> DEFINE new == Front(decodeStack)
           none == 0
<1>1. /\ DecoderIsSound /\ rows \in Seq(Rows) /\ NumPoints \in Nat
      /\ Len(rows) + Cardinality(PendingOf(decodeStack)) = NumPoints
      /\ UNCHANGED <<header, dimension>>
  BY DEF KdInv, WireIsSound, NumPoints, NoPointLost, Pending, PendingOf, wireVars
<1>2. decodeStack \in Seq(DecodeNodes) /\ NodesAreDeep(decodeStack, decodeLevels)
  BY <1>1 DEF DecoderIsSound
<1>3. new \in Seq(DecodeNodes) /\ Replaced(decodeStack, new, RootCell, none, RootCell, none)
  BY <1>2, PopReplacesTop
<1>4. NodesAreDeep(new, decodeLevels)
  BY <1>2, PoppedNodesAreDeep
<1> HIDE DEF new
<1>5. /\ Cardinality(PendingOf(decodeStack)) \in Nat /\ Cardinality(PendingOf(new)) \in Nat
      /\ CellSize \in Nat
      /\ Cardinality(PendingOf(new)) + CellSize = Cardinality(PendingOf(decodeStack)) + 0 + 0
  <2>1. none \in Nat /\ none <= NumPoints /\ ~ (none > 0) /\ none = 0
    BY <1>1
  <2>2. NumPoints \in Nat /\ decodeStack \in Seq(DecodeNodes) /\ decodeStack # <<>>
    BY <1>1, <1>2
  <2> HIDE DEF none
  <2>3. PendingChanges(decodeStack, new, none, none)
    BY ONLY <1>3, <2>1, <2>2, PendingAfterPush
  <2> QED
    BY <2>1, <2>3 DEF PendingChanges, CellSize, Cell
<1>6. Len(rows) \in Nat /\ rows' \in Seq(Rows) /\ Len(rows') = Len(rows) + CellSize
  BY <1>1, ConcatProperties, LenProperties
<1>7. decodeStack' = new /\ NumPoints' = NumPoints
  BY <1>1 DEF new, NumPoints
<1>8. DecoderIsSound'
  BY <1>1, <1>3, <1>4, <1>7, SameSpace DEF DecoderIsSound
<1>9. NoPointLost'
  <2>1. Pending' = PendingOf(new)
    BY <1>7 DEF Pending, PendingOf
  <2> QED
    BY <1>1, <1>5, <1>6, <1>7, <2>1 DEF NoPointLost
<1> QED
  BY <1>6, <1>8, <1>9, DecoderKeepsTheRest DEF Phases

(* What a cell's corner lacks to the space's.                              *)
LEMMA CellLiesInSpace ==
  ASSUME SpaceIsSound, NEW base, NEW levels, CellIsSound(base, levels), NEW a \in Axes,
         NEW bits \in Nat, bits < TwoTo[BitLength - levels[a]]
  PROVE  base[a] + bits \in 0 .. TwoTo[BitLength] - 1
<1>1. /\ base[a] \in Nat /\ levels[a] \in 0 .. BitLength /\ BitLength \in Nat
      /\ base[a] + TwoTo[BitLength - levels[a]] <= TwoTo[BitLength]
  BY WireAssumption DEF CellIsSound, SpaceIsSound
<1>2. BitLength - levels[a] \in Nat
  BY <1>1
<1>3. TwoTo[BitLength - levels[a]] \in Nat /\ TwoTo[BitLength] \in Nat
  BY <1>1, <1>2, PowersDouble
<1> QED
  BY <1>1, <1>3

LEMMA DecodeKnownNodeKeeps ==
  ASSUME KdInv, NEW a \in Axes, DecodeKnownNode(a)
  PROVE  KdInv'
<1> DEFINE more == [i \in 1 .. CellSize |-> CellBase]
<1>1. /\ phase = "decode" /\ phase' = "decode" /\ decodeStack # <<>>
      /\ decodeStack' = Front(decodeStack) /\ UNCHANGED <<decodeBase, decodeLevels>>
      /\ UNCHANGED <<wireVars, encoderVars>>
      /\ rows' = rows \o more /\ read' = AfterAxis /\ misread' = AxisMisread
  BY DEF DecodeKnownNode, DecodingNode
<1>2. DecoderIsSound /\ SpaceIsSound
  BY <1>1 DEF KdInv, DecoderIsSound
<1>3. /\ CellSize \in Nat /\ CellIsSound(CellBase, CellLevels)
      /\ CellBase \in [Axes -> Nat] /\ CellLevels \in [Axes -> 0 .. BitLength]
  BY <1>1, <1>2, TopOfDecoder
<1>4. CellBase \in Rows
  <2>1. ASSUME NEW b \in Axes
        PROVE  CellBase[b] \in 0 .. TwoTo[BitLength] - 1
    <3>1. BitLength - CellLevels[b] \in Nat
      BY <1>2, <1>3, WireAssumption DEF SpaceIsSound
    <3>2. 0 < TwoTo[BitLength - CellLevels[b]]
      BY <3>1, PowersDouble
    <3>3. CellBase[b] + 0 \in 0 .. TwoTo[BitLength] - 1
      BY <1>2, <1>3, <3>2, CellLiesInSpace
    <3>4. CellBase[b] \in Nat
      BY <1>3
    <3> QED
      BY <3>3, <3>4
  <2> QED
    BY <1>3, <2>1 DEF Rows
<1>5. more \in Seq(Rows) /\ Len(more) = CellSize
  BY <1>3, <1>4
<1>6. read' \in Reads /\ misread' \in BOOLEAN
  BY <1>1, NextRead DEF AxisMisread, KdInv, WireIsSound
<1> HIDE DEF more
<1> QED
  BY <1>1, <1>5, <1>6, LeafKeeps

(* Every field that a small node wants is one of the stream, and its value *)
(* fits what is open.                                                      *)
LEMMA TakenBitsFit ==
  ASSUME KdInv, DecoderIsSound, decodeStack # <<>>, CellSize \in 1 .. 2,
         NEW a, NEW order \in OpenAxesFrom(a, CellLevels),
         NEW taken \in Taken(order), NEW p \in Places(order)
  PROVE  taken[p] \in Nat /\ taken[p] < TwoTo[Open(order[p[2]])]
<1> DEFINE n == Cardinality(OpenAxes(CellLevels))
<1>1. SpaceIsSound /\ CellLevels \in [Axes -> 0 .. BitLength]
  BY TopOfDecoder DEF DecoderIsSound
<1>2. /\ n \in Nat /\ DOMAIN order = 1 .. n
      /\ \A k \in DOMAIN order : BitLength - CellLevels[order[k]] \in Nat
  BY <1>1, OrderOfOpenAxes
<1>3. p[1] \in 1 .. CellSize /\ p[2] \in 1 .. n
  BY <1>2 DEF Places
<1>4. Open(order[p[2]]) \in Nat /\ TwoTo[Open(order[p[2]])] \in Nat \ {0}
  <2>1. Open(order[p[2]]) \in Nat
    BY <1>2, <1>3 DEF Open
  <2> QED
    BY <2>1, PowersDouble
<1>5. CASE Arbitrary
  <2>1. taken \in [Places(order) -> 0 .. TwoTo[BitLength] - 1]
        /\ taken[p] < TwoTo[Open(order[p[2]])]
    BY <1>5 DEF Taken
  <2>2. taken[p] \in 0 .. TwoTo[BitLength] - 1
    BY <2>1
  <2> QED
    BY <2>1, <2>2
<1>6. CASE ~ Arbitrary
  <2>1. /\ ~ (read.remaining + NumWanted > Len(remaining))
        /\ taken = [r \in Places(order) |-> remaining[FieldAt(r)].value % TwoTo[Open(order[r[2]])]]
    BY <1>6 DEF Taken
  <2>2. taken[p] = remaining[FieldAt(p)].value % TwoTo[Open(order[p[2]])]
    BY <2>1
  <2>3. remaining \in Seq(Fields) /\ read.remaining \in Nat /\ Len(remaining) \in Nat
    BY LenProperties DEF KdInv, WireIsSound
  <2>4. FieldAt(p) \in 1 .. Len(remaining)
    <3>1. FieldAt(p) = read.remaining + (p[1] - 1) * n + p[2] /\ NumWanted = CellSize * n
      BY DEF FieldAt, NumWanted
    <3> HIDE DEF n
    <3>2. (CellSize = 1 /\ p[1] = 1) \/ (CellSize = 2 /\ p[1] = 1) \/ (CellSize = 2 /\ p[1] = 2)
      BY <1>3
    <3>3. (1 - 1) * n = 0 /\ (2 - 1) * n = n /\ 1 * n = n /\ 2 * n = n + n
      BY <1>2
    <3>4. /\ (p[1] - 1) * n \in Nat /\ NumWanted \in Nat
          /\ (p[1] - 1) * n + n <= NumWanted
      <4>1. CASE CellSize = 1 /\ p[1] = 1
        BY <1>2, <3>1, <3>3, <4>1
      <4>2. CASE CellSize = 2 /\ p[1] = 1
        BY <1>2, <3>1, <3>3, <4>2
      <4>3. CASE CellSize = 2 /\ p[1] = 2
        BY <1>2, <3>1, <3>3, <4>3
      <4> QED
        BY <3>2, <4>1, <4>2, <4>3
    <3> DEFINE before == (p[1] - 1) * n
    <3>5. /\ FieldAt(p) = read.remaining + before + p[2] /\ before \in Nat /\ NumWanted \in Nat
          /\ before + n <= NumWanted
      BY <3>1, <3>4
    <3> HIDE DEF before
    <3> QED
      BY <1>2, <1>3, <2>1, <2>3, <3>5
  <2>5. remaining[FieldAt(p)] \in Fields
    BY <2>3, <2>4, ElementOfSeq
  <2>6. remaining[FieldAt(p)].value \in Nat
    BY <2>5 DEF Fields
  <2> QED
    BY <1>4, <2>2, <2>6
<1> QED
  BY <1>5, <1>6

LEMMA DecodeSmallNodeKeeps ==
  ASSUME KdInv, NEW a \in Axes, DecodeSmallNode(a)
  PROVE  KdInv'
<1>1. PICK order \in OpenAxesFrom(a, CellLevels) :
        /\ \E taken \in Taken(order) : rows' = rows \o RowsOf(order, taken)
        /\ misread' = (AxisMisread \/ \E p \in Places(order) :
                         Misreads(remaining, FieldAt(p) - 1, Open(order[p[2]])))
  BY DEF DecodeSmallNode
<1>2. PICK taken \in Taken(order) : rows' = rows \o RowsOf(order, taken)
  BY <1>1
<1> DEFINE more == RowsOf(order, taken)
           n == Cardinality(OpenAxes(CellLevels))
<1>3. /\ phase = "decode" /\ phase' = "decode" /\ decodeStack # <<>>
      /\ decodeStack' = Front(decodeStack) /\ UNCHANGED <<decodeBase, decodeLevels>>
      /\ UNCHANGED <<wireVars, encoderVars>>
      /\ read' = [AfterAxis EXCEPT !.remaining = @ + NumWanted] /\ CellSize <= 2
  BY DEF DecodeSmallNode, DecodingNode
<1>4. DecoderIsSound /\ SpaceIsSound
  BY <1>3 DEF KdInv, DecoderIsSound
<1>5. /\ CellSize \in 1 .. NumPoints /\ CellIsSound(CellBase, CellLevels)
      /\ CellBase \in [Axes -> Nat] /\ CellLevels \in [Axes -> 0 .. BitLength]
  BY <1>3, <1>4, TopOfDecoder
<1>6. CellSize \in 1 .. 2 /\ CellSize \in Nat
  BY <1>3, <1>5
<1>7. /\ n \in Nat /\ DOMAIN order = 1 .. n
      /\ \A b \in OpenAxes(CellLevels) : \E k \in DOMAIN order : order[k] = b
  BY <1>4, <1>5, OrderOfOpenAxes
<1>8. ASSUME NEW i \in 1 .. CellSize
      PROVE  more[i] \in Rows
  <2>1. more[i] = [b \in Axes |-> CellBase[b] +
           IF b \in OpenAxes(CellLevels) THEN taken[<<i, CHOOSE k \in DOMAIN order : order[k] = b>>]
           ELSE 0]
    BY DEF RowsOf
  <2>2. ASSUME NEW b \in Axes
        PROVE  more[i][b] \in 0 .. TwoTo[BitLength] - 1
    <3>1. BitLength - CellLevels[b] \in Nat
      BY <1>4, <1>5, WireAssumption DEF SpaceIsSound
    <3>2. CASE b \in OpenAxes(CellLevels)
      <4> DEFINE k == CHOOSE j \in DOMAIN order : order[j] = b
                 p == <<i, k>>
      <4>1. k \in DOMAIN order /\ order[k] = b
        BY <1>7, <3>2
      <4> HIDE DEF k
      <4>2. p \in Places(order) /\ p[2] = k
        BY <4>1 DEF Places
      <4>3. more[i][b] = CellBase[b] + taken[p]
        BY <2>1, <3>2 DEF k
      <4> HIDE DEF p
      <4>4. taken[p] \in Nat /\ taken[p] < TwoTo[Open(order[p[2]])]
        BY <1>3, <1>4, <1>6, <4>2, TakenBitsFit
      <4>5. taken[p] < TwoTo[BitLength - CellLevels[b]]
        BY <4>1, <4>2, <4>4 DEF Open
      <4> HIDE DEF more
      <4> QED
        BY <1>4, <1>5, <4>3, <4>4, <4>5, CellLiesInSpace
    <3>3. CASE b \notin OpenAxes(CellLevels)
      <4>1. more[i][b] = CellBase[b] + 0
        BY <2>1, <3>3
      <4>2. 0 < TwoTo[BitLength - CellLevels[b]]
        BY <3>1, PowersDouble
      <4> HIDE DEF more
      <4> QED
        BY <1>4, <1>5, <4>1, <4>2, CellLiesInSpace
    <3> QED
      BY <3>2, <3>3
  <2>3. DOMAIN more[i] = Axes /\ more[i] = [b \in Axes |-> more[i][b]]
    BY <2>1
  <2> HIDE DEF more
  <2> QED
    BY <2>2, <2>3 DEF Rows
<1>9. more \in Seq(Rows) /\ Len(more) = CellSize
  <2>1. DOMAIN more = 1 .. CellSize /\ more = [i \in 1 .. CellSize |-> more[i]]
    BY DEF RowsOf
  <2> HIDE DEF more
  <2>2. more \in [1 .. CellSize -> Rows]
    BY <1>8, <2>1
  <2> QED
    BY <1>6, <2>1, <2>2
<1>10. read' \in Reads
  <2>1. NumWanted \in Nat
    <3>1. \A i, j \in Nat : i * j \in Nat
      OBVIOUS
    <3> QED
      BY <1>6, <1>7, <3>1 DEF NumWanted
  <2>2. AfterAxis \in Reads
    BY NextRead
  <2> HIDE DEF n, more
  <2> QED
    BY <1>3, <2>1, <2>2 DEF Reads
<1>11. misread' \in BOOLEAN
  BY <1>1
<1> HIDE DEF more
<1> QED
  BY <1>2, <1>3, <1>9, <1>10, <1>11, LeafKeeps DEF more

(* The halves get all points of the node.                                  *)
LEMMA SizesAddUp ==
  ASSUME CellSize \in Nat, NEW number \in Nat, number <= CellSize \div 2, NEW bit
  PROVE  /\ Sizes(number, bit)[1] \in Nat /\ Sizes(number, bit)[2] \in Nat
         /\ Sizes(number, bit)[1] + Sizes(number, bit)[2] = CellSize
<1> DEFINE smaller == CellSize \div 2 - number
           larger == CellSize - smaller
<1>1. smaller \in Nat /\ larger \in Nat /\ smaller + larger = CellSize
  <2>1. CellSize \div 2 \in Nat /\ CellSize \div 2 <= CellSize
    BY Z3
  <2> QED
    BY <2>1
<1>2. Sizes(number, bit) = IF bit = 1 THEN <<smaller, larger>> ELSE <<larger, smaller>>
  BY DEF Sizes
<1> HIDE DEF smaller, larger
<1>3. CASE bit = 1
  BY <1>1, <1>2, <1>3
<1>4. CASE bit # 1
  BY <1>1, <1>2, <1>4
<1> QED
  BY <1>3, <1>4

LEMMA NumbersReadAreNumbers ==
  ASSUME KdInv, CellSize \in 1 .. NumPoints,
         NEW number \in Values(numbers, read.numbers, MostSignificantBit(CellSize))
  PROVE  number \in Nat
<1> DEFINE width == MostSignificantBit(CellSize)
           at == read.numbers + 1
<1>1. NumPoints \in Nat /\ Fits32(NumPoints) /\ numbers \in Seq(Fields)
  BY DEF KdInv, WireIsSound, NumPoints
<1>2. width \in Nat
  <2>1. Fits32(CellSize) /\ CellSize \in Nat
    BY <1>1, FewerFit
  <2> QED
    BY <2>1, WidthsAreNumbers
<1>3. TwoTo[width] \in Nat \ {0}
  BY <1>2, PowersDouble
<1> HIDE DEF width
<1>4. CASE Arbitrary
  BY <1>3, <1>4 DEF Values, width
<1>5. CASE ~ Arbitrary
  <2>1. at \in DOMAIN numbers /\ number = numbers[at].value % TwoTo[width]
    BY <1>5 DEF Values, width
  <2>2. numbers[at] \in Fields
    BY <1>1, <2>1, LenProperties
  <2>3. numbers[at].value \in Nat
    BY <2>2 DEF Fields
  <2> QED
    BY <1>3, <2>1, <2>3
<1> QED
  BY <1>4, <1>5

LEMMA DecodeSplitKeeps ==
  ASSUME KdInv, NEW a \in Axes, DecodeSplit(a)
  PROVE  KdInv'
<1> DEFINE width == MostSignificantBit(CellSize)
           pos == Cell.stackPos
           deeper == [CellLevels EXCEPT ![a] = @ + 1]
           upper == [CellBase EXCEPT ![a] = @ + Half(CellLevels, a)]
           differ(number) == 2 * (CellSize \div 2 - number) # CellSize
           half(n, p) == IfAny(n, [numRemainingPoints |-> n, lastAxis |-> a, stackPos |-> p])
           Splits(number, bit) ==
             /\ decodeStack' = Front(decodeStack) \o
                  Push(half(Sizes(number, bit)[1], pos), half(Sizes(number, bit)[2], pos + 1))
             /\ read' = [AfterAxis EXCEPT !.numbers = @ + 1,
                                          !.halves = IF differ(number) THEN @ + 1 ELSE @]
             /\ misread' = (AxisMisread \/ Misreads(numbers, read.numbers, width))
<1>1. /\ phase = "decode" /\ phase' = "decode" /\ decodeStack # <<>>
      /\ UNCHANGED <<wireVars, encoderVars>> /\ rows' = rows /\ CellLevels[a] < BitLength
  BY DEF DecodeSplit, DecodingNode
<1>2. PICK number \in Values(numbers, read.numbers, width) :
        /\ number <= CellSize \div 2
        /\ \E bit \in IF differ(number) THEN Bits ELSE {1} : Splits(number, bit)
        /\ decodeBase' = [decodeBase EXCEPT ![pos + 1] = upper]
        /\ decodeLevels' = [decodeLevels EXCEPT ![pos] = deeper, ![pos + 1] = deeper]
  BY DEF DecodeSplit
<1>3. PICK bit : Splits(number, bit)
  BY <1>2
<1> DEFINE c == Sizes(number, bit)[1]
           d == Sizes(number, bit)[2]
           x == [numRemainingPoints |-> c, lastAxis |-> a, stackPos |-> pos]
           y == [numRemainingPoints |-> d, lastAxis |-> a, stackPos |-> pos + 1]
           new == Front(decodeStack) \o Push(IfAny(c, x), IfAny(d, y))
<1>4. /\ decodeStack' = new
      /\ read' = [AfterAxis EXCEPT !.numbers = @ + 1,
                                   !.halves = IF differ(number) THEN @ + 1 ELSE @]
      /\ misread' = (AxisMisread \/ Misreads(numbers, read.numbers, width))
  BY <1>3
<1> HIDE DEF Splits
<1>5. /\ DecoderIsSound /\ SpaceIsSound /\ decodeStack \in Seq(DecodeNodes)
      /\ CellsAreSound(decodeBase, decodeLevels) /\ NodesAreDeep(decodeStack, decodeLevels)
      /\ rows \in Seq(Rows) /\ NumPoints \in Nat
      /\ Len(rows) + Cardinality(PendingOf(decodeStack)) = NumPoints
      /\ UNCHANGED <<header, dimension>>
  BY <1>1 DEF KdInv, DecoderIsSound, WireIsSound, NumPoints, NoPointLost, Pending, PendingOf, wireVars
<1>6. /\ CellSize \in 1 .. NumPoints /\ CellSize \in Nat
      /\ pos \in Positions /\ pos \in Nat /\ pos <= Cardinality(KnownBits(CellLevels))
      /\ CellIsSound(CellBase, CellLevels)
      /\ CellBase \in [Axes -> Nat] /\ CellLevels \in [Axes -> 0 .. BitLength]
  BY <1>1, <1>5, TopOfDecoder
<1>7. c \in Nat /\ d \in Nat /\ c + d = CellSize /\ c <= NumPoints /\ d <= NumPoints
  <2>1. number \in Nat
    BY <1>2, <1>6, NumbersReadAreNumbers
  <2>2. c \in Nat /\ d \in Nat /\ c + d = CellSize
    BY <1>2, <1>6, <2>1, SizesAddUp
  <2> HIDE DEF c, d
  <2> QED
    BY <1>5, <1>6, <2>2
<1>8. pos + 1 \in Positions /\ pos + 1 \in Nat
  BY <1>1, <1>5, <1>6, NextPositionExists, SMTT(20)
<1> HIDE DEF c, d
<1>9. CellIsSound(CellBase, deeper) /\ CellIsSound(upper, deeper)
  <2>1. /\ upper = [CellBase EXCEPT ![a] = @ + Half(CellLevels, a)]
        /\ deeper = [CellLevels EXCEPT ![a] = @ + 1]
    OBVIOUS
  <2> HIDE DEF upper, deeper
  <2> QED
    BY <1>1, <1>5, <1>6, <2>1, HalvesAreCells
<1>10. CellsAreSound(decodeBase', decodeLevels')
  <2>1. CellIsSound(decodeBase[pos], deeper)
    BY <1>9 DEF CellBase
  <2> HIDE DEF upper, deeper, pos
  <2> QED
    BY <1>2, <1>5, <1>6, <1>8, <1>9, <2>1, SplitKeepsCells
<1>11. new \in Seq(DecodeNodes) /\ Replaced(decodeStack, new, x, c, y, d)
  <2>1. (c > 0 => x \in DecodeNodes) /\ (d > 0 => y \in DecodeNodes)
    BY <1>6, <1>7, <1>8 DEF DecodeNodes
  <2> HIDE DEF x, y
  <2> QED
    BY <1>1, <1>5, <1>7, <2>1, PushReplacesTop
<1>12. NodesAreDeep(new, decodeLevels')
  <2>1. Cardinality(KnownBits(deeper)) = Cardinality(KnownBits(decodeLevels[pos])) + 1
    BY <1>1, <1>5, <1>6, OneMoreBit DEF CellLevels
  <2>2. x.stackPos = pos /\ y.stackPos = pos + 1 /\ pos = Last(decodeStack).stackPos
    BY DEF Cell
  <2>3. DOMAIN decodeLevels = Positions
    BY <1>5 DEF CellsAreSound
  <2>4. decodeLevels' = [decodeLevels EXCEPT ![pos] = deeper, ![pos + 1] = deeper]
    BY <1>2
  <2>5. /\ SpaceIsSound /\ decodeStack \in Seq(DecodeNodes) /\ decodeStack # <<>>
        /\ NodesAreDeep(decodeStack, decodeLevels)
    BY <1>1, <1>5
  <2> HIDE DEF x, y, deeper, pos, new
  <2>6. NodesAreDeep(new, [decodeLevels EXCEPT ![pos] = deeper, ![pos + 1] = deeper])
    BY ONLY <1>7, <1>8, <1>11, <2>1, <2>2, <2>3, <2>5, HalvesAreDeep
  <2> QED
    BY <2>4, <2>6
<1>13. PendingChanges(decodeStack, new, c, d)
  <2>1. x.numRemainingPoints = c /\ y.numRemainingPoints = d
    OBVIOUS
  <2>2. NumPoints \in Nat /\ decodeStack \in Seq(DecodeNodes) /\ decodeStack # <<>>
    BY <1>1, <1>5
  <2> HIDE DEF x, y, new
  <2> QED
    BY ONLY <1>7, <1>11, <2>1, <2>2, PendingAfterPush
<1> HIDE DEF new, x, y
<1>14. decodeStack' = new /\ NumPoints' = NumPoints /\ Rows' = Rows
  BY <1>4, <1>5, SameSpace
<1>15. DecoderIsSound'
  BY <1>5, <1>10, <1>11, <1>12, <1>14, SameSpace DEF DecoderIsSound
<1>16. NoPointLost'
  <2>1. Pending' = PendingOf(new)
    BY <1>14 DEF Pending, PendingOf
  <2>2. Cardinality(PendingOf(new)) = Cardinality(PendingOf(decodeStack))
    <3>1. /\ Cardinality(PendingOf(decodeStack)) \in Nat /\ Cardinality(PendingOf(new)) \in Nat
          /\ Cardinality(PendingOf(new)) + CellSize = Cardinality(PendingOf(decodeStack)) + c + d
      BY <1>13 DEF PendingChanges, CellSize, Cell
    <3> QED
      BY <1>6, <1>7, <3>1
  <2> QED
    BY <1>1, <1>5, <1>14, <2>1, <2>2 DEF NoPointLost
<1>17. read' \in Reads
  <2>1. AfterAxis \in Reads
    BY NextRead
  <2> DEFINE more == IF differ(number) THEN AfterAxis.halves + 1 ELSE AfterAxis.halves
  <2>2. AfterAxis.numbers + 1 \in Nat /\ more \in Nat
    BY <2>1 DEF Reads
  <2>3. read' = [AfterAxis EXCEPT !.numbers = AfterAxis.numbers + 1, !.halves = more]
    BY <1>4, <2>1 DEF Reads
  <2> HIDE DEF more
  <2> QED
    BY <2>1, <2>2, <2>3 DEF Reads
<1>18. misread' \in BOOLEAN
  BY <1>4
<1>19. rows' \in Seq(Rows)
  BY <1>1, <1>5
<1> QED
  BY <1>1, <1>15, <1>16, <1>17, <1>18, <1>19, DecoderKeepsTheRest DEF Phases

(* Failing, cancelling and ending; a decode that ends has nothing pending. *)
LEMMA DecodingEndsKeeps ==
  ASSUME KdInv, DecodeFails \/ CancelDecoding \/ EndDecoding
  PROVE  KdInv'
<1>1. /\ phase = "decode" /\ UNCHANGED <<wireVars, encoderVars, decoderVars>>
      /\ phase' \in {"done", "failed", "cancelled"}
      /\ phase' = "done" => decodeStack = <<>>
  BY DEF DecodeFails, CancelDecoding, EndDecoding
<1>2. read' = read /\ misread' = misread /\ rows' = rows /\ UNCHANGED <<header, dimension>>
  BY <1>1 DEF decoderVars, wireVars
<1>3. /\ read \in Reads /\ misread \in BOOLEAN /\ rows \in Seq(Rows) /\ NumPoints \in Nat
      /\ Len(rows) + Cardinality(Pending) = NumPoints
  BY <1>1 DEF KdInv, WireIsSound, Reads, NoPointLost, NumPoints
<1>4. NoPointLost'
  <2> SUFFICES ASSUME phase' = "done" PROVE Len(rows') = NumPoints'
    BY <1>1 DEF NoPointLost
  <2>1. decodeStack = <<>>
    BY <1>1
  <2>2. Pending = {}
    BY <2>1 DEF Pending
  <2>3. Cardinality(Pending) = 0
    BY <2>2, FS_EmptySet, Zenon
  <2> QED
    BY <1>2, <1>3, <2>3, LenProperties DEF NumPoints
<1>5. rows' \in Seq(Rows)
  BY <1>2, <1>3
<1>6. phase' \in Phases \ {"encode"} /\ phase' # "decode"
  BY <1>1 DEF Phases, Resting
<1> QED
  BY <1>1, <1>2, <1>3, <1>4, <1>5, <1>6, DecoderKeepsTheRest

LEMMA DecoderKeeps ==
  ASSUME KdInv, DecoderNext
  PROVE  KdInv'
<1>1. CASE StartDecoding
  BY <1>1, StartDecodingKeeps
<1>2. CASE DecodeNode
  BY <1>2, DecodeKnownNodeKeeps, DecodeSmallNodeKeeps, DecodeSplitKeeps DEF DecodeNode
<1>3. CASE DecodeFails \/ CancelDecoding \/ EndDecoding
  BY <1>3, DecodingEndsKeeps
<1> QED
  BY <1>1, <1>2, <1>3 DEF DecoderNext

-----------------------------------------------------------------------------
(* All behaviours.                                                         *)

LEMMA KdInvAtFirst ==
  ASSUME Init
  PROVE  KdInv
<1>1. read \in Reads /\ misread \in BOOLEAN
  BY DEF Init, DecoderInit, Unread, Reads
<1>2. Fits32(0)
  <2>1. 0 < TwoTo[0] /\ 0 \in 0 .. 32
    BY PowersDouble
  <2> QED
    BY <2>1 DEF Fits32
<1>3. CASE EncoderInit
  <2>1. jobs \in Seq(AllJobs)
    BY <1>3, JobsAssumption DEF EncoderInit
  <2>2. /\ header = [bitLength |-> 0, numPoints |-> 0] /\ numbers = <<>> /\ remaining = <<>>
        /\ level = 0 /\ dimension = 1 /\ phase = "start"
    BY <1>3 DEF EncoderInit
  <2>3. WireIsSound
    BY <1>1, <1>2, <2>1, <2>2 DEF WireIsSound, NumPoints, Phases, Reads
  <2> QED
    BY <2>2, <2>3 DEF KdInv, NoPointLost
<1>4. CASE \E h \in Headers :
             /\ header = [bitLength |-> h.bitLength, numPoints |-> h.numPoints]
             /\ level = h.level /\ dimension = h.dimension
             /\ numbers = <<>> /\ remaining = <<>> /\ jobs = <<>> /\ phase = "written"
  <2>1. PICK h \in Headers :
          /\ header = [bitLength |-> h.bitLength, numPoints |-> h.numPoints]
          /\ level = h.level /\ dimension = h.dimension
          /\ numbers = <<>> /\ remaining = <<>> /\ jobs = <<>> /\ phase = "written"
    BY <1>4
  <2>2. /\ h.bitLength \in Nat /\ h.level \in Int /\ h.dimension \in Int
        /\ h.numPoints \in Nat /\ Fits32(h.numPoints)
    BY HeadersAssumption
  <2>3. WireIsSound
    BY <1>1, <2>1, <2>2 DEF WireIsSound, NumPoints, Phases, Reads
  <2> QED
    BY <2>1, <2>3 DEF KdInv, NoPointLost
<1> QED
  BY <1>3, <1>4 DEF Init

LEMMA NextJobKeeps ==
  ASSUME KdInv, NextJob
  PROVE  KdInv'
<1>1. /\ phase' = "start" /\ jobs' = Tail(jobs) /\ Len(jobs) > 1
      /\ UNCHANGED <<header, level, dimension, numbers, remaining, read, misread>>
  BY DEF NextJob, wireVars, decoderVars
<1>2. jobs \in Seq(AllJobs) /\ jobs # <<>>
  BY <1>1 DEF KdInv, WireIsSound
<1>3. jobs' \in Seq(AllJobs)
  BY <1>1, <1>2, HeadTailProperties
<1>4. NumPoints' = NumPoints
  BY <1>1 DEF NumPoints
<1>5. WireIsSound'
  BY <1>1, <1>3, <1>4 DEF KdInv, WireIsSound, Fits32, Phases
<1> QED
  BY <1>1, <1>5 DEF KdInv, NoPointLost

LEMMA NothingChanges ==
  ASSUME KdInv, UNCHANGED vars
  PROVE  KdInv'
<1>1. /\ UNCHANGED <<header, level, dimension, numbers, remaining, jobs, read, misread, phase>>
      /\ UNCHANGED <<points, encodeStack, encodeBase, encodeLevels>>
      /\ UNCHANGED <<decodeStack, decodeBase, decodeLevels, rows>>
  BY DEF vars, wireVars, encoderVars, decoderVars
<1>2. NumPoints' = NumPoints /\ Rows' = Rows
  BY <1>1, SameSpace
<1>3. WireIsSound'
  BY <1>1, <1>2 DEF KdInv, WireIsSound, Fits32
<1>4. phase = "encode" => EncoderIsSound'
  BY <1>1, <1>2, SameSpace, SamePoints DEF KdInv, EncoderIsSound
<1>5. phase = "decode" => DecoderIsSound'
  BY <1>1, <1>2, SameSpace DEF KdInv, DecoderIsSound
<1>6. NoPointLost'
  <2>1. Pending' = Pending
    BY <1>1, <1>2 DEF Pending
  <2> QED
    BY <1>1, <1>2, <2>1 DEF KdInv, NoPointLost
<1> QED
  BY <1>1, <1>2, <1>3, <1>4, <1>5, <1>6 DEF KdInv

LEMMA KdInvAlways == Spec => []KdInv
<1>1. KdInv /\ [Next]_vars => KdInv'
  <2> SUFFICES ASSUME KdInv, [Next]_vars PROVE KdInv'
    OBVIOUS
  <2>1. CASE EncodeStep
    BY <2>1, EncoderKeeps
  <2>2. CASE DecoderNext
    BY <2>2, DecoderKeeps
  <2>3. CASE NextJob
    BY <2>3, NextJobKeeps
  <2>4. CASE UNCHANGED vars
    BY <2>4, NothingChanges
  <2> QED
    BY <2>1, <2>2, <2>3, <2>4 DEF Next
<1>2. Init => KdInv
  BY KdInvAtFirst
<1> QED
  BY <1>1, <1>2, PTL DEF Spec

(* Two numbers of one block have the same quotient.                        *)
LEMMA SameQuotient ==
  ASSUME NEW n \in Nat \ {0}, NEW q \in Nat, NEW x \in Nat,
         q * n <= x, x < q * n + n
  PROVE  x \div n = q
<1> DEFINE r == x - q * n
<1>1. q * n \in Nat
  OBVIOUS
<1>2. r \in 0 .. n - 1 /\ x = q * n + r
  BY <1>1
<1> HIDE DEF r
<1>3. \A m \in Nat \ {0}, p \in Nat : \A s \in 0 .. m - 1 : (p * m + s) \div m = p
  BY Z3
<1> QED
  BY <1>2, <1>3

LEMMA NodesAreInTheirCells ==
  ASSUME KdInv
  PROVE  PointsInTheirCell
<1> SUFFICES ASSUME phase = "encode", NEW i \in DOMAIN encodeStack,
                    NEW k \in encodeStack[i].begin + 1 .. encodeStack[i].end, NEW a \in Axes
             PROVE  LET open == TwoTo[BitLength - encodeLevels[encodeStack[i].stackPos][a]]
                    IN  points[k][a] \div open = encodeBase[encodeStack[i].stackPos][a] \div open
  BY DEF PointsInTheirCell
<1> DEFINE pos == encodeStack[i].stackPos
           base == encodeBase[pos]
           levels == encodeLevels[pos]
           open == TwoTo[BitLength - levels[a]]
<1>1. EncoderIsSound /\ SpaceIsSound
  BY DEF KdInv, EncoderIsSound
<1>2. pos \in Positions /\ PointInCell(points[k], base, levels)
  BY <1>1 DEF EncoderIsSound, NodesAreDeep, NodeHoldsItsPoints
<1>3. CellIsSound(base, levels)
  BY <1>1, <1>2 DEF EncoderIsSound, CellsAreSound
<1>4. points[k] \in [Axes -> Nat]
  <2>1. encodeStack[i] \in EncodeNodes /\ encodeStack[i].end <= Len(points)
    BY <1>1, LenProperties DEF EncoderIsSound, RangesAreApart
  <2>2. k \in 1 .. Len(points)
    <3>1. Len(points) \in Nat /\ encodeStack[i].begin \in Nat /\ encodeStack[i].end \in Nat
      BY <1>1, <2>1, LenProperties DEF EncoderIsSound, EncodeNodes
    <3> QED
      BY <2>1, <3>1
  <2> QED
    BY <1>1, <2>2, ElementOfSeq DEF EncoderIsSound
<1> HIDE DEF base, levels, pos
<1>5. PICK q \in 0 .. base[a] : base[a] = q * open
  BY <1>3 DEF CellIsSound
<1>6. /\ points[k][a] \in Nat /\ base[a] \in Nat /\ q \in Nat /\ open \in Nat \ {0}
  <2>1. base[a] \in Nat /\ levels[a] \in 0 .. BitLength
    BY <1>3 DEF CellIsSound
  <2>2. BitLength - levels[a] \in Nat
    BY <1>1, <2>1, WireAssumption DEF SpaceIsSound
  <2> QED
    BY <1>4, <2>1, <2>2, PowersDouble
<1>7. base[a] <= points[k][a] /\ points[k][a] < base[a] + open
  BY <1>2 DEF PointInCell
<1> HIDE DEF open
<1>8. points[k][a] \div open = q
  BY <1>5, <1>6, <1>7, SameQuotient
<1>9. base[a] \div open = q
  <2>1. q * open <= base[a] /\ base[a] < q * open + open
    BY <1>5, <1>6
  <2> QED
    BY <1>6, <2>1, SameQuotient
<1> QED
  BY <1>8, <1>9 DEF open, base, levels, pos

LEMMA DeepNodesAreWithin ==
  ASSUME SpaceIsSound, NEW stack, NEW bases, NEW levels,
         CellsAreSound(bases, levels), NodesAreDeep(stack, levels)
  PROVE  WithinScratch(stack, levels)
<1>1. ASSUME NEW i \in DOMAIN stack
      PROVE  /\ stack[i].stackPos < StackLen
             /\ (\E a \in Axes : levels[stack[i].stackPos][a] < BitLength)
                  => stack[i].stackPos + 1 < StackLen
  <2> DEFINE pos == stack[i].stackPos
  <2>1. pos \in Positions /\ pos <= Cardinality(KnownBits(levels[pos]))
    BY DEF NodesAreDeep
  <2>2. StackLen \in Int
    <3>1. \A d, w \in Nat : d * w \in Nat
      OBVIOUS
    <3>2. dimension * WordBits \in Nat
      BY <3>1, WireAssumption DEF SpaceIsSound
    <3> QED
      BY <3>2 DEF StackLen, ScratchLen
  <2>3. \A p \in Positions : p \in Nat /\ p < StackLen
    BY <2>2 DEF Positions
  <2>4. levels[pos] \in [Axes -> 0 .. BitLength]
    BY <2>1 DEF CellsAreSound, CellIsSound
  <2> HIDE DEF pos
  <2>5. ASSUME NEW a \in Axes, levels[pos][a] < BitLength
        PROVE  pos + 1 < StackLen
    BY <2>1, <2>3, <2>4, <2>5, NextPositionExists
  <2> QED
    BY <2>1, <2>3, <2>5 DEF pos
<1> QED
  BY <1>1 DEF WithinScratch, NodesAreDeep

LEMMA KdInvIsTyped ==
  ASSUME KdInv
  PROVE  TypeOK
<1>1. phase \in Resting \cup {"start", "encode", "written", "decode"} /\ misread \in BOOLEAN
  BY DEF KdInv, WireIsSound, Phases
<1>2. ASSUME phase = "encode", NEW i \in DOMAIN encodeStack
      PROVE  encodeStack[i].begin < encodeStack[i].end /\ encodeStack[i].end \in 1 .. NumPoints
  <2>1. /\ encodeStack \in Seq(EncodeNodes)
        /\ encodeStack[i].begin < encodeStack[i].end /\ encodeStack[i].end <= NumPoints
    BY <1>2 DEF KdInv, EncoderIsSound, RangesAreApart
  <2>2. encodeStack[i] \in EncodeNodes
    BY <2>1, LenProperties
  <2>3. encodeStack[i].begin \in Nat /\ encodeStack[i].end \in Nat
    BY <2>2 DEF EncodeNodes
  <2>4. NumPoints \in Nat
    BY DEF KdInv, WireIsSound, NumPoints
  <2> QED
    BY <2>1, <2>3, <2>4
<1>3. ASSUME phase = "decode", NEW i \in DOMAIN decodeStack
      PROVE  decodeStack[i].numRemainingPoints \in 1 .. NumPoints
  <2>1. decodeStack[i] \in DecodeNodes
    BY <1>3, LenProperties DEF KdInv, DecoderIsSound
  <2> QED
    BY <2>1 DEF DecodeNodes
<1>4. ASSUME phase \in {"decode", "done"}, NEW i \in DOMAIN rows
      PROVE  rows[i] \in [Axes -> Nat]
  <2>1. rows[i] \in Rows
    BY <1>4, LenProperties DEF KdInv
  <2>2. TwoTo[BitLength] \in Nat
    BY PowersDouble DEF KdInv, WireIsSound, BitLength
  <2> QED
    BY <2>1, <2>2 DEF Rows
<1> QED
  BY <1>1, <1>2, <1>3, <1>4 DEF TypeOK

(* The encoder and the decoder keep all nodes of their stacks in one       *)
(* scratch, left half over parent, right half beside it; every node finds  *)
(* there the cell its points lie in, and no position is wanted that the    *)
(* scratch does not have.                                                  *)
THEOREM ScratchIsAlwaysSound == Spec => []ScratchIsSound
<1>1. KdInv => ScratchIsSound
  <2> SUFFICES ASSUME KdInv PROVE ScratchIsSound
    OBVIOUS
  <2>1. phase = "encode" => WithinScratch(encodeStack, encodeLevels)
    BY DeepNodesAreWithin DEF KdInv, EncoderIsSound
  <2>2. phase = "decode" => WithinScratch(decodeStack, decodeLevels)
    BY DeepNodesAreWithin DEF KdInv, DecoderIsSound
  <2> QED
    BY <2>1, <2>2, KdInvIsTyped, NodesAreInTheirCells DEF ScratchIsSound, ScratchIsDeepEnough
<1> QED
  BY <1>1, KdInvAlways, PTL

(* Whatever is in the streams, a decode that comes to its end has emitted  *)
(* as many rows as the header announced, and none with more bits than the  *)
(* header gives.                                                           *)
THEOREM RowsAreAlwaysAnnounced == Spec => []RowsAreAnnounced
<1>1. KdInv => RowsAreAnnounced
  <2> SUFFICES ASSUME KdInv PROVE RowsAreAnnounced
    OBVIOUS
  <2>1. ASSUME phase \in {"decode", "done"}, NEW i \in DOMAIN rows, NEW a \in Axes
        PROVE  rows[i][a] < TwoTo[BitLength]
    <3>1. rows[i] \in Rows
      BY <2>1, LenProperties DEF KdInv
    <3>2. TwoTo[BitLength] \in Nat
      BY PowersDouble DEF KdInv, WireIsSound, BitLength
    <3>3. rows[i][a] \in 0 .. TwoTo[BitLength] - 1
      BY <3>1 DEF Rows
    <3> QED
      BY <3>2, <3>3
  <2> QED
    BY <2>1 DEF KdInv, RowsAreAnnounced, RowsFitBitLength
<1> QED
  BY <1>1, KdInvAlways, PTL

-----------------------------------------------------------------------------
(***************************************************************************)
(* The cloud comes back.  While the encoder works, its invariant records   *)
(* what the decoder will do with the streams written so far: a sequence of *)
(* decoder states, each the outcome of one turn of its loop, of which the  *)
(* last stands where the encoder stands.                                   *)
(***************************************************************************)

(* The next field of a stream.                                             *)
FieldIs(stream, taken, width, value) ==
  /\ taken + 1 \in DOMAIN stream
  /\ stream[taken + 1].width = width /\ stream[taken + 1].value = value
  /\ value \in 0 .. TwoTo[width] - 1

(* A state of the decoder is [stack, base, levels, read, rows].            *)
TopOf(d) == Last(d.stack)
SizeOf(d) == TopOf(d).numRemainingPoints
BaseOf(d) == d.base[TopOf(d).stackPos]
LevelsOf(d) == d.levels[TopOf(d).stackPos]

AsksForAxis(d) == SelectAxis /\ SizeOf(d) >= AxisThreshold

AxisIsTold(d, a) ==
  IF ~SelectAxis THEN a = IncrementMod(TopOf(d).lastAxis, dimension)
  ELSE IF ~AsksForAxis(d) THEN a = LeastLevelAxis(LevelsOf(d))
  ELSE FieldIs(axes, d.read.axes, AxisBitCount, a)

ReadAxis(d) == IF AsksForAxis(d) THEN [d.read EXCEPT !.axes = @ + 1] ELSE d.read

KnownTurn(d, a, e) ==
  /\ LevelsOf(d)[a] = BitLength
  /\ e = [stack |-> Front(d.stack), base |-> d.base, levels |-> d.levels,
          read |-> ReadAxis(d),
          rows |-> d.rows \o [i \in 1 .. SizeOf(d) |-> BaseOf(d)]]

(* The bits of these points that are open are next in the stream.          *)
BitsAreWritten(d, order, pts) ==
  \A i \in 1 .. SizeOf(d) : \A k \in DOMAIN order :
    FieldIs(remaining, d.read.remaining + (i - 1) * Cardinality(OpenAxes(LevelsOf(d))) + k - 1,
            BitLength - LevelsOf(d)[order[k]], pts[i][order[k]] - BaseOf(d)[order[k]])

SmallTurn(d, a, e) ==
  /\ LevelsOf(d)[a] < BitLength /\ SizeOf(d) <= 2
  /\ \E order \in OpenAxesFrom(a, LevelsOf(d)) : \E pts \in [1 .. SizeOf(d) -> [Axes -> Nat]] :
       /\ BitsAreWritten(d, order, pts)
       /\ \A i \in 1 .. SizeOf(d) : \A b \in Axes \ OpenAxes(LevelsOf(d)) :
            pts[i][b] = BaseOf(d)[b]
       /\ d.read.remaining + SizeOf(d) * Cardinality(OpenAxes(LevelsOf(d))) \in 0 .. Len(remaining)
       /\ e = [stack |-> Front(d.stack), base |-> d.base, levels |-> d.levels,
               read |-> [ReadAxis(d) EXCEPT !.remaining =
                           @ + SizeOf(d) * Cardinality(OpenAxes(LevelsOf(d)))],
               rows |-> d.rows \o pts]

Smaller(first, second) == IF first < second THEN first ELSE second

CellOf(n, a, pos) == [numRemainingPoints |-> n, lastAxis |-> a, stackPos |-> pos]

AfterSplit(d, a, first, second) ==
  LET pos == TopOf(d).stackPos
      deeper == [LevelsOf(d) EXCEPT ![a] = @ + 1]
  IN  [stack |-> Front(d.stack) \o Push(IfAny(first, CellOf(first, a, pos)),
                                        IfAny(second, CellOf(second, a, pos + 1))),
       base |-> [d.base EXCEPT ![pos + 1] =
                   [BaseOf(d) EXCEPT ![a] = @ + Half(LevelsOf(d), a)]],
       levels |-> [d.levels EXCEPT ![pos] = deeper, ![pos + 1] = deeper],
       read |-> [ReadAxis(d) EXCEPT !.numbers = @ + 1,
                   !.halves = IF first # second THEN @ + 1 ELSE @],
       rows |-> d.rows]

SplitTurn(d, a, e) ==
  /\ LevelsOf(d)[a] < BitLength /\ SizeOf(d) > 2
  /\ \E first, second \in Nat :
       /\ first + second = SizeOf(d)
       /\ FieldIs(numbers, d.read.numbers, MostSignificantBit(SizeOf(d)),
                  SizeOf(d) \div 2 - Smaller(first, second))
       /\ first # second => FieldIs(halves, d.read.halves, 1, IF first < second THEN 1 ELSE 0)
       /\ e = AfterSplit(d, a, first, second)

Turn(d, e) ==
  /\ d.stack # <<>>
  /\ \E a \in Axes : AxisIsTold(d, a) /\ (KnownTurn(d, a, e) \/ SmallTurn(d, a, e) \/ SplitTurn(d, a, e))

FirstState ==
  [stack |-> IF NumPoints = 0 THEN <<>> ELSE <<RootCell>>,
   base |-> Prepared(<<>>, dimension), levels |-> Prepared(<<>>, dimension),
   read |-> Unread, rows |-> <<>>]

Trace(tr, n) ==
  /\ n \in Nat \ {0} /\ tr[1] = FirstState
  /\ \A i \in 1 .. n - 1 : Turn(tr[i], tr[i + 1])

(* The decoder as it stands.                                               *)
DecoderState ==
  [stack |-> decodeStack, base |-> decodeBase, levels |-> decodeLevels,
   read |-> read, rows |-> rows]

AllRead == [numbers |-> Len(numbers), remaining |-> Len(remaining),
            axes |-> Len(axes), halves |-> Len(halves)]

-----------------------------------------------------------------------------
(* What was written is read back.                                          *)

LEMMA FieldIsRead ==
  ASSUME ~Arbitrary, NEW stream, NEW taken, NEW width \in Nat, NEW value,
         FieldIs(stream, taken, width, value)
  PROVE  Values(stream, taken, width) = {value} /\ ~Misreads(stream, taken, width)
<1> DEFINE T == TwoTo[width]
<1>1. T \in Nat \ {0}
  BY PowersDouble
<1>2. value \in 0 .. T - 1
  BY DEF FieldIs
<1>3. value % T = value
  <2> HIDE DEF T
  <2> QED
    BY <1>1, <1>2
<1> QED
  BY <1>3 DEF Values, Misreads, FieldIs

(* The axes that are open follow each other in one order only.             *)
LEMMA OneOrder ==
  ASSUME dimension \in Nat \ {0}, NEW levels, NEW a \in Axes,
         Cardinality(OpenAxes(levels)) \in Nat,
         NEW f \in OpenAxesFrom(a, levels), NEW g \in OpenAxesFrom(a, levels)
  PROVE  f = g
<1> DEFINE m == Cardinality(OpenAxes(levels))
           S == OpenAxes(levels)
           Key(b) == (b - a) % dimension
<1>1. /\ f \in [1 .. m -> S] /\ g \in [1 .. m -> S]
      /\ \A i, j \in 1 .. m : i < j => Key(f[i]) < Key(f[j])
      /\ \A i, j \in 1 .. m : i < j => Key(g[i]) < Key(g[j])
      /\ \A s \in S : (\E i \in 1 .. m : f[i] = s) /\ (\E i \in 1 .. m : g[i] = s)
  BY DEF OpenAxesFrom, Bijection, Injection, Surjection, IsInjective
<1>2. S \subseteq Int /\ m \in Nat
  BY DEF OpenAxes, Axes
<1>3. \A b \in S : Key(b) \in Int
  BY <1>2 DEF Axes
<1> HIDE DEF m, S, Key
<1>4. SUFFICES ASSUME NEW D, D = {i \in 1 .. m : f[i] # g[i]}, D # {}
               PROVE  FALSE
  <2>1. {i \in 1 .. m : f[i] # g[i]} = {}
    BY <1>4
  <2>2. \A i \in 1 .. m : f[i] = g[i]
    BY <2>1
  <2>3. f = [i \in 1 .. m |-> f[i]] /\ g = [i \in 1 .. m |-> g[i]]
    BY ONLY <1>1
  <2>4. [i \in 1 .. m |-> f[i]] = [i \in 1 .. m |-> g[i]]
    BY ONLY <2>2
  <2> QED
    BY ONLY <2>3, <2>4
<1>5. PICK i \in D : \A j \in D : i <= j
  BY <1>4, <1>2, LeastNumber
<1>6. i \in 1 .. m /\ f[i] # g[i] /\ \A j \in 1 .. m : j < i => f[j] = g[j]
  BY <1>4, <1>5, <1>2
<1>7. PICK j \in 1 .. m : g[j] = f[i]
  BY <1>1, <1>6
<1>8. PICK k \in 1 .. m : f[k] = g[i]
  BY <1>1, <1>6
<1>9. j > i
  <2>1. j # i
    BY <1>6, <1>7
  <2>2. ~(j < i)
    <3> SUFFICES ASSUME j < i PROVE FALSE
      OBVIOUS
    <3>1. f[j] = f[i]
      BY <1>6, <1>7
    <3>2. Key(f[j]) < Key(f[i]) /\ Key(f[i]) \in Int
      BY <1>1, <1>3, <1>6, <1>7
    <3> QED
      BY <3>1, <3>2
  <2> QED
    BY <2>1, <2>2, <1>6, <1>2
<1>10. k > i
  <2>1. k # i
    BY <1>6, <1>8
  <2>2. ~(k < i)
    <3> SUFFICES ASSUME k < i PROVE FALSE
      OBVIOUS
    <3>1. g[k] = g[i]
      BY <1>6, <1>8
    <3>2. Key(g[k]) < Key(g[i]) /\ Key(g[i]) \in Int
      BY <1>1, <1>3, <1>6, <1>8
    <3> QED
      BY <3>1, <3>2
  <2> QED
    BY <2>1, <2>2, <1>6, <1>2
<1>11. Key(g[i]) < Key(f[i]) /\ Key(f[i]) < Key(g[i])
  BY <1>1, <1>6, <1>7, <1>8, <1>9, <1>10
<1>12. Key(f[i]) \in Int /\ Key(g[i]) \in Int
  BY <1>1, <1>3, <1>6
<1> QED
  BY <1>11, <1>12

(* bits.Len32 is the least width.                                          *)
LEMMA LengthOfNumber ==
  ASSUME NEW n \in Nat, Fits32(n)
  PROVE  /\ Len32(n) \in 0 .. 32 /\ n < TwoTo[Len32(n)]
         /\ Len32(n) = 0 \/ n >= TwoTo[Len32(n) - 1]
<1> DEFINE Wide == {k \in 0 .. 32 : n < TwoTo[k]}
<1>1. Wide # {} /\ Wide \in SUBSET Nat
  BY DEF Fits32
<1>2. PICK k \in Wide : \A j \in Wide : k <= j
  BY <1>1, LeastNumber
<1>3. k # 0 => k - 1 \in 0 .. 32 /\ k - 1 \notin Wide
  BY <1>2
<1>4. k # 0 => n >= TwoTo[k - 1]
  BY <1>3, PowersDouble
<1>5. \E j \in 0 .. 32 : n < TwoTo[j] /\ (j = 0 \/ n >= TwoTo[j - 1])
  BY <1>2, <1>4
<1> QED
  BY <1>5 DEF Len32

(* What the smaller half lacks to half of the points has one bit less than *)
(* their number.                                                           *)
LEMMA LackFits ==
  ASSUME NEW n \in Nat \ {0}, Fits32(n), NEW m \in 0 .. n \div 2
  PROVE  /\ MostSignificantBit(n) \in Nat
         /\ m \in 0 .. TwoTo[MostSignificantBit(n)] - 1
<1>1. Len32(n) \in 0 .. 32 /\ n < TwoTo[Len32(n)]
  BY LengthOfNumber
<1>2. Len32(n) # 0
  BY <1>1, PowersDouble
<1>3. MostSignificantBit(n) = Len32(n) - 1
  BY DEF MostSignificantBit
<1> DEFINE T == TwoTo[Len32(n) - 1]
<1>4. T \in Nat /\ TwoTo[Len32(n)] = 2 * T
  BY <1>1, <1>2, HalfOfOpen
<1>5. n < 2 * T
  BY <1>1, <1>4
<1> HIDE DEF T
<1>6. m \in 0 .. T - 1
  BY <1>4, <1>5
<1> QED
  BY <1>1, <1>2, <1>3, <1>6 DEF T

(* Every axis has a place in AxisBitCount bits.                            *)
SpaceIsNarrow == Fits32(dimension - 1) /\ level \in Levels

LEMMA AxisFits ==
  ASSUME dimension \in Nat \ {0}, Fits32(dimension - 1)
  PROVE  AxisBitCount \in Nat /\ \A a \in Axes : a \in 0 .. TwoTo[AxisBitCount] - 1
<1>1. TwoTo[MinAxisBits] \in Nat /\ MinAxisBits \in Nat
  BY PowersDouble, WireAssumption
<1>2. CASE dimension <= TwoTo[MinAxisBits]
  <2>1. AxisBitCount = MinAxisBits
    BY <1>2 DEF AxisBitCount
  <2> QED
    BY <2>1, <1>1, <1>2 DEF Axes
<1>3. CASE ~(dimension <= TwoTo[MinAxisBits])
  <2> DEFINE v == dimension - 1
  <2>1. AxisBitCount = Len32(v)
    BY <1>3 DEF AxisBitCount
  <2>2. v \in Nat /\ Fits32(v)
    OBVIOUS
  <2> HIDE DEF v
  <2>4. Len32(v) \in 0 .. 32 /\ v < TwoTo[Len32(v)]
    BY <2>2, LengthOfNumber
  <2>5. TwoTo[Len32(v)] \in Nat
    BY <2>4, PowersDouble
  <2>6. \A a \in Axes : a \in Nat /\ a <= v
    BY DEF Axes, v
  <2> QED
    BY <2>1, <2>2, <2>4, <2>5, <2>6
<1> QED
  BY <1>2, <1>3

-----------------------------------------------------------------------------
(* The decoder has no choice: its next state is the one a turn foretells.  *)

LEMMA SameCell ==
  /\ TopOf(DecoderState) = Cell /\ SizeOf(DecoderState) = CellSize
  /\ BaseOf(DecoderState) = CellBase /\ LevelsOf(DecoderState) = CellLevels
  /\ AsksForAxis(DecoderState) = ReadsAxis
  /\ ReadAxis(DecoderState) = AfterAxis
  /\ DecoderState.stack = decodeStack /\ DecoderState.base = decodeBase
  /\ DecoderState.levels = decodeLevels /\ DecoderState.read = read
  /\ DecoderState.rows = rows
BY DEF DecoderState, TopOf, SizeOf, BaseOf, LevelsOf, AsksForAxis, ReadAxis, Cell, CellSize,
       CellBase, CellLevels, ReadsAxis, AfterAxis

Decoding ==
  /\ KdInv /\ ~Arbitrary /\ SpaceIsNarrow /\ misread = FALSE
  /\ phase = "decode" /\ decodeStack # <<>>

LEMMA CellWhileDecoding ==
  ASSUME Decoding
  PROVE  /\ CellSize \in 1 .. NumPoints /\ CellSize \in Nat /\ NumPoints \in Nat
         /\ Fits32(CellSize)
         /\ CellBase \in [Axes -> Nat] /\ CellLevels \in [Axes -> 0 .. BitLength]
         /\ BitLength \in Nat /\ dimension \in Nat \ {0} /\ Fits32(dimension - 1)
         /\ SpaceIsSound
<1>1. DecoderIsSound /\ SpaceIsSound
  BY DEF Decoding, KdInv, DecoderIsSound
<1>2. /\ CellSize \in 1 .. NumPoints
      /\ CellBase \in [Axes -> Nat] /\ CellLevels \in [Axes -> 0 .. BitLength]
  BY <1>1, TopOfDecoder DEF Decoding
<1>3. NumPoints \in Nat /\ Fits32(NumPoints)
  BY DEF Decoding, KdInv, WireIsSound, NumPoints
<1>4. CellSize \in Nat /\ Fits32(CellSize)
  BY <1>2, <1>3, FewerFit
<1>5. BitLength \in Nat
  BY <1>1 DEF SpaceIsSound
<1> QED
  BY <1>1, <1>2, <1>3, <1>4, <1>5 DEF SpaceIsSound, SpaceIsNarrow, Decoding

LEMMA ForcedAxis ==
  ASSUME Decoding, NEW a \in Axes, AxisIsTold(DecoderState, a)
  PROVE  AxesRead = {a} /\ AxisMisread = FALSE
<1> USE SameCell, CellWhileDecoding
<1>1. CASE ~ReadsAxis
  BY <1>1 DEF AxisIsTold, AxesRead, AxisMisread, Decoding, ReadsAxis
<1>2. CASE ReadsAxis
  <2>1. FieldIs(axes, read.axes, AxisBitCount, a)
    BY <1>2 DEF AxisIsTold, ReadsAxis
  <2>2. AxisBitCount \in Nat
    BY AxisFits
  <2>3. Values(axes, read.axes, AxisBitCount) = {a} /\ ~Misreads(axes, read.axes, AxisBitCount)
    BY ONLY <2>1, <2>2, FieldIsRead, Decoding DEF Decoding
  <2> QED
    BY <2>3, <1>2 DEF AxesRead, AxisMisread, Decoding, ReadsAxis
<1> QED
  BY <1>1, <1>2

LEMMA OneAxisDecodes ==
  ASSUME Decoding, NEW a \in Axes, AxisIsTold(DecoderState, a), DecodeNode
  PROVE  /\ DecodeKnownNode(a) \/ DecodeSmallNode(a) \/ DecodeSplit(a)
         /\ UNCHANGED <<wireVars, encoderVars>>
<1>1. PICK b \in Axes : DecodeKnownNode(b) \/ DecodeSmallNode(b) \/ DecodeSplit(b)
  BY DEF DecodeNode
<1>2. DecodingNode(b)
  BY <1>1 DEF DecodeKnownNode, DecodeSmallNode, DecodeSplit
<1>3. b \in AxesRead /\ UNCHANGED <<wireVars, encoderVars>>
  BY <1>2 DEF DecodingNode
<1>4. b = a
  BY <1>3, ForcedAxis
<1> QED
  BY <1>1, <1>3, <1>4

Forced(e) == DecoderState' = e /\ misread' = FALSE /\ phase' = "decode"

LEMMA ForcedKnown ==
  ASSUME Decoding, NEW a \in Axes, AxisIsTold(DecoderState, a),
         NEW e, KnownTurn(DecoderState, a, e)
  PROVE  (DecodeNode => Forced(e)) /\ ~DecodeFails
<1> USE SameCell, CellWhileDecoding
<1>1. CellLevels[a] = BitLength
  BY DEF KnownTurn
<1>2. ~(CellLevels[a] < BitLength)
  BY <1>1
<1>3. ASSUME DecodeNode PROVE Forced(e)
  <2>1. DecodeKnownNode(a)
    BY <1>2, <1>3, OneAxisDecodes DEF DecodeSmallNode, DecodeSplit
  <2>2. /\ decodeStack' = Front(decodeStack) /\ UNCHANGED <<decodeBase, decodeLevels, phase>>
        /\ rows' = rows \o [i \in 1 .. CellSize |-> CellBase]
        /\ read' = AfterAxis /\ misread' = AxisMisread
    BY <2>1 DEF DecodeKnownNode
  <2>3. misread' = FALSE /\ phase' = "decode"
    BY <2>2, ForcedAxis DEF Decoding
  <2>4. e = [stack |-> decodeStack', base |-> decodeBase', levels |-> decodeLevels',
             read |-> read', rows |-> rows']
    BY <2>2 DEF KnownTurn
  <2> QED
    BY <2>3, <2>4 DEF Forced, DecoderState
<1>4. ~DecodeFails
  BY <1>2, ForcedAxis, ZenonT(40) DEF DecodeFails, Decoding
<1> QED
  BY <1>3, <1>4

(* The open bits of the points of a small node are where they are read.    *)
LEMMA PlacesAreWritten ==
  ASSUME Decoding, NEW a \in Axes, NEW order \in OpenAxesFrom(a, CellLevels),
         NEW pts \in [1 .. CellSize -> [Axes -> Nat]],
         BitsAreWritten(DecoderState, order, pts), NEW p \in Places(order)
  PROVE  /\ order[p[2]] \in Axes /\ Open(order[p[2]]) \in Nat
         /\ remaining[FieldAt(p)].value = pts[p[1]][order[p[2]]] - CellBase[order[p[2]]]
         /\ remaining[FieldAt(p)].value % TwoTo[Open(order[p[2]])]
              = pts[p[1]][order[p[2]]] - CellBase[order[p[2]]]
         /\ ~Misreads(remaining, FieldAt(p) - 1, Open(order[p[2]]))
<1> DEFINE m == Cardinality(OpenAxes(CellLevels))
           i == p[1]
           k == p[2]
           taken == read.remaining + (i - 1) * m + k - 1
           v == pts[i][order[k]] - CellBase[order[k]]
<1>1. /\ i \in 1 .. CellSize /\ k \in DOMAIN order /\ p = <<i, k>>
  BY DEF Places
<1>2. /\ m \in Nat /\ DOMAIN order = 1 .. m /\ order[k] \in Axes /\ BitLength - CellLevels[order[k]] \in Nat
  BY <1>1, CellWhileDecoding, OrderOfOpenAxes
<1>3. FieldIs(remaining, taken, BitLength - CellLevels[order[k]], v)
  BY <1>1, SameCell DEF BitsAreWritten
<1>4. Open(order[k]) = BitLength - CellLevels[order[k]]
  BY DEF Open
<1>5. read.remaining \in Nat
  BY DEF Decoding, KdInv, WireIsSound
<1>6. FieldAt(p) = taken + 1 /\ FieldAt(p) - 1 = taken
  <2> DEFINE x == (i - 1) * m
  <2>1. FieldAt(p) = read.remaining + x + k /\ taken = read.remaining + x + k - 1
    BY DEF FieldAt
  <2>2. x \in Int /\ k \in Int
    <3>1. i \in Int /\ k \in Int
      BY <1>1, <1>2, CellWhileDecoding
    <3> HIDE DEF i, m
    <3> QED
      BY <3>1, <1>2
  <2> HIDE DEF x, taken, i, k, m
  <2> QED
    BY <2>1, <2>2, <1>5
<1> HIDE DEF m, i, k, taken, v
<1>7. v \in 0 .. TwoTo[Open(order[k])] - 1 /\ remaining[taken + 1].value = v
  BY <1>3, <1>4 DEF FieldIs
<1>8. v % TwoTo[Open(order[k])] = v
  <2>1. TwoTo[Open(order[k])] \in Nat \ {0}
    BY <1>2, <1>4, PowersDouble
  <2> QED
    BY <2>1, <1>7
<1>9. ~Misreads(remaining, taken, Open(order[k]))
  BY ONLY <1>2, <1>3, <1>4, Decoding, FieldIsRead DEF Decoding
<1> QED
  BY <1>2, <1>4, <1>6, <1>7, <1>8, <1>9 DEF i, k, v

LEMMA ForcedPoints ==
  ASSUME Decoding, NEW a \in Axes, NEW order \in OpenAxesFrom(a, CellLevels),
         NEW pts \in [1 .. CellSize -> [Axes -> Nat]],
         BitsAreWritten(DecoderState, order, pts),
         \A i \in 1 .. CellSize : \A b \in Axes \ OpenAxes(CellLevels) : pts[i][b] = CellBase[b],
         read.remaining + NumWanted \in 0 .. Len(remaining)
  PROVE  /\ \A taken \in Taken(order) : RowsOf(order, taken) = pts
         /\ \A p \in Places(order) : ~Misreads(remaining, FieldAt(p) - 1, Open(order[p[2]]))
<1>0. \A b \in OpenAxes(CellLevels) : \E k \in DOMAIN order : order[k] = b
  <2>1. SpaceIsSound /\ CellLevels \in [Axes -> 0 .. BitLength]
    BY CellWhileDecoding
  <2> QED
    BY ONLY <2>1, OrderOfOpenAxes, order \in OpenAxesFrom(a, CellLevels)
<1>1. ASSUME NEW taken \in Taken(order)
      PROVE  RowsOf(order, taken) = pts
  <2>1. taken = [p \in Places(order) |-> remaining[FieldAt(p)].value % TwoTo[Open(order[p[2]])]]
    <3>1. read.remaining + NumWanted \in Int /\ Len(remaining) \in Int
      <4>1. /\ read.remaining \in Nat /\ Len(remaining) \in Nat
        BY DEF Decoding, KdInv, WireIsSound
      <4>2. Cardinality(OpenAxes(CellLevels)) \in Nat /\ CellSize \in Nat
        BY CellWhileDecoding, OrderOfOpenAxes
      <4> QED
        BY <4>1, <4>2 DEF NumWanted
    <3>2. ~(read.remaining + NumWanted > Len(remaining))
      BY <3>1
    <3> QED
      BY <3>2 DEF Taken, Decoding
  <2>2. ASSUME NEW i \in 1 .. CellSize, NEW b \in Axes
        PROVE  CellBase[b] + (IF b \in OpenAxes(CellLevels)
                              THEN taken[<<i, CHOOSE k \in DOMAIN order : order[k] = b>>] ELSE 0)
                 = pts[i][b]
    <3>1. CellBase[b] \in Nat /\ pts[i][b] \in Nat
      BY CellWhileDecoding
    <3>2. CASE b \in OpenAxes(CellLevels)
      <4> DEFINE k == CHOOSE k \in DOMAIN order : order[k] = b
      <4>1. k \in DOMAIN order /\ order[k] = b
        <5>1. \E j \in DOMAIN order : order[j] = b
          BY <3>2, <1>0
        <5> QED
          BY <5>1
      <4> HIDE DEF k
      <4>2. <<i, k>> \in Places(order)
        BY <4>1 DEF Places
      <4>3. taken[<<i, k>>] = pts[i][b] - CellBase[b]
        <5>1. taken[<<i, k>>] = remaining[FieldAt(<<i, k>>)].value % TwoTo[Open(order[<<i, k>>[2]])]
          BY <2>1, <4>2
        <5>2. <<i, k>>[1] = i /\ <<i, k>>[2] = k
          OBVIOUS
        <5> QED
          BY <5>1, <5>2, <4>1, <4>2, PlacesAreWritten
      <4> QED
        BY <4>3, <3>1, <3>2 DEF k
    <3>3. CASE b \notin OpenAxes(CellLevels)
      BY <3>1, <3>3
    <3> QED
      BY <3>2, <3>3
  <2>3. RowsOf(order, taken) = [i \in 1 .. CellSize |-> [b \in Axes |-> pts[i][b]]]
    BY <2>2 DEF RowsOf
  <2>4. \A i \in 1 .. CellSize : [b \in Axes |-> pts[i][b]] = pts[i]
    OBVIOUS
  <2>5. pts = [i \in 1 .. CellSize |-> pts[i]]
    OBVIOUS
  <2>6. [i \in 1 .. CellSize |-> [b \in Axes |-> pts[i][b]]] = [i \in 1 .. CellSize |-> pts[i]]
    BY ONLY <2>4
  <2> QED
    BY ONLY <2>3, <2>5, <2>6
<1>2. \A p \in Places(order) : ~Misreads(remaining, FieldAt(p) - 1, Open(order[p[2]]))
  BY PlacesAreWritten
<1> QED
  BY <1>1, <1>2

LEMMA ForcedSmall ==
  ASSUME Decoding, NEW a \in Axes, AxisIsTold(DecoderState, a),
         NEW e, SmallTurn(DecoderState, a, e)
  PROVE  (DecodeNode => Forced(e)) /\ ~DecodeFails
<1> USE SameCell
<1>1. CellLevels[a] < BitLength /\ CellSize <= 2
  BY DEF SmallTurn
<1>2. PICK order \in OpenAxesFrom(a, CellLevels), pts \in [1 .. CellSize -> [Axes -> Nat]] :
        /\ BitsAreWritten(DecoderState, order, pts)
        /\ \A i \in 1 .. CellSize : \A b \in Axes \ OpenAxes(CellLevels) : pts[i][b] = CellBase[b]
        /\ read.remaining + NumWanted \in 0 .. Len(remaining)
        /\ e = [stack |-> Front(decodeStack), base |-> decodeBase, levels |-> decodeLevels,
                read |-> [AfterAxis EXCEPT !.remaining = @ + NumWanted],
                rows |-> rows \o pts]
  BY DEF SmallTurn, NumWanted
<1>3. CellSize \in Nat /\ CellLevels[a] \in Int /\ BitLength \in Nat
  BY CellWhileDecoding
<1>4. CellLevels[a] # BitLength /\ ~(CellSize > 2)
  BY <1>1, <1>3
<1>5. ASSUME DecodeNode PROVE Forced(e)
  <2>1. DecodeSmallNode(a)
    BY <1>4, <1>5, OneAxisDecodes DEF DecodeKnownNode, DecodeSplit
  <2>2. PICK order2 \in OpenAxesFrom(a, CellLevels) :
          /\ \E taken \in Taken(order2) : rows' = rows \o RowsOf(order2, taken)
          /\ misread' = (AxisMisread \/ \E p \in Places(order2) :
                           Misreads(remaining, FieldAt(p) - 1, Open(order2[p[2]])))
    BY <2>1 DEF DecodeSmallNode
  <2>3. order2 = order
    <3>1. dimension \in Nat \ {0} /\ Cardinality(OpenAxes(CellLevels)) \in Nat
      BY CellWhileDecoding, OrderOfOpenAxes
    <3> QED
      BY <3>1, OneOrder
  <2>4. rows' = rows \o pts
    BY <2>2, <2>3, <1>2, ForcedPoints
  <2>5. misread' = FALSE
    <3>1. AxisMisread = FALSE
      BY ForcedAxis
    <3>2. \A p \in Places(order) : ~Misreads(remaining, FieldAt(p) - 1, Open(order[p[2]]))
      BY <1>2, ForcedPoints
    <3> QED
      BY <3>1, <3>2, <2>2, <2>3
  <2>6. /\ decodeStack' = Front(decodeStack) /\ UNCHANGED <<decodeBase, decodeLevels, phase>>
        /\ read' = [AfterAxis EXCEPT !.remaining = @ + NumWanted]
    BY <2>1 DEF DecodeSmallNode
  <2>7. phase' = "decode"
    BY <2>6 DEF Decoding
  <2>8. e = [stack |-> decodeStack', base |-> decodeBase', levels |-> decodeLevels',
             read |-> read', rows |-> rows']
    BY <2>4, <2>6, <1>2
  <2> QED
    BY <2>5, <2>7, <2>8 DEF Forced, DecoderState
<1>6. ~DecodeFails
  <2>1. read.remaining + NumWanted \in Int /\ Len(remaining) \in Int
    <3>1. /\ read.remaining \in Nat /\ Len(remaining) \in Nat
      BY DEF Decoding, KdInv, WireIsSound
    <3>2. Cardinality(OpenAxes(CellLevels)) \in Nat
      BY CellWhileDecoding, OrderOfOpenAxes
    <3> QED
      BY <3>1, <3>2, <1>3 DEF NumWanted
  <2>2. ~(read.remaining + NumWanted > Len(remaining))
    BY <2>1, <1>2
  <2> QED
    BY <2>2, <1>4, ForcedAxis DEF DecodeFails, Decoding
<1> QED
  BY <1>5, <1>6

LEMMA SizesAreTold ==
  ASSUME CellSize \in Nat, NEW first \in Nat, NEW second \in Nat, first + second = CellSize,
         NEW number, number = CellSize \div 2 - Smaller(first, second)
  PROVE  /\ number <= CellSize \div 2
         /\ (2 * (CellSize \div 2 - number) # CellSize) <=> first # second
         /\ first < second => Sizes(number, 1) = <<first, second>>
         /\ first > second => Sizes(number, 0) = <<first, second>>
         /\ first = second => Sizes(number, 1) = <<first, second>>
<1> DEFINE n == CellSize
           s == Smaller(first, second)
           half == n \div 2
<1>1. /\ s \in Nat /\ half \in Nat /\ n \in Nat /\ number \in Int
      /\ half - number = s /\ number <= half
  BY DEF Smaller
<1>2. /\ first < second => s = first /\ n - s = second
      /\ ~(first < second) => s = second /\ n - s = first
  BY DEF Smaller
<1>3. (2 * s # n) <=> first # second
  BY <1>2
<1>4. /\ Sizes(number, 1) = <<half - number, n - (half - number)>>
      /\ Sizes(number, 0) = <<n - (half - number), half - number>>
  BY DEF Sizes
<1>5. /\ Sizes(number, 1) = <<s, n - s>>
      /\ Sizes(number, 0) = <<n - s, s>>
  BY ONLY <1>1, <1>4
<1>6. (2 * (half - number) # n) <=> first # second
  BY ONLY <1>1, <1>3
<1> HIDE DEF s
<1>7. /\ first < second => Sizes(number, 1) = <<first, second>>
      /\ first > second => Sizes(number, 0) = <<first, second>>
      /\ first = second => Sizes(number, 1) = <<first, second>>
  <2>1. first > second => ~(first < second)
    OBVIOUS
  <2>2. first = second => ~(first < second)
    OBVIOUS
  <2> QED
    BY ONLY <2>1, <2>2, <1>2, <1>5
<1> QED
  BY ONLY <1>1, <1>6, <1>7

LEMMA ForcedSplit ==
  ASSUME Decoding, NEW a \in Axes, AxisIsTold(DecoderState, a),
         NEW e, SplitTurn(DecoderState, a, e)
  PROVE  (DecodeNode => Forced(e)) /\ ~DecodeFails
<1> USE SameCell
<1> DEFINE width == MostSignificantBit(CellSize)
           pos == Cell.stackPos
           deeper == [CellLevels EXCEPT ![a] = @ + 1]
<1>1. CellLevels[a] < BitLength /\ CellSize > 2
  BY DEF SplitTurn
<1>2. PICK first \in Nat, second \in Nat :
        /\ first + second = CellSize
        /\ FieldIs(numbers, read.numbers, width, CellSize \div 2 - Smaller(first, second))
        /\ first # second => FieldIs(halves, read.halves, 1, IF first < second THEN 1 ELSE 0)
        /\ e = [stack |-> Front(decodeStack) \o
                            Push(IfAny(first, CellOf(first, a, pos)),
                                 IfAny(second, CellOf(second, a, pos + 1))),
                base |-> [decodeBase EXCEPT ![pos + 1] =
                            [CellBase EXCEPT ![a] = @ + Half(CellLevels, a)]],
                levels |-> [decodeLevels EXCEPT ![pos] = deeper, ![pos + 1] = deeper],
                read |-> [AfterAxis EXCEPT !.numbers = @ + 1,
                            !.halves = IF first # second THEN @ + 1 ELSE @],
                rows |-> rows]
  <2>1. PICK first \in Nat, second \in Nat :
          /\ first + second = SizeOf(DecoderState)
          /\ FieldIs(numbers, DecoderState.read.numbers, MostSignificantBit(SizeOf(DecoderState)),
                     SizeOf(DecoderState) \div 2 - Smaller(first, second))
          /\ first # second =>
               FieldIs(halves, DecoderState.read.halves, 1, IF first < second THEN 1 ELSE 0)
          /\ e = AfterSplit(DecoderState, a, first, second)
    BY ONLY SplitTurn(DecoderState, a, e) DEF SplitTurn
  <2> QED
    BY <2>1, ZenonT(40) DEF AfterSplit
<1>3. /\ CellSize \in Nat /\ CellLevels[a] \in Int /\ BitLength \in Nat /\ Fits32(CellSize)
      /\ AxesRead = {a} /\ AxisMisread = FALSE
  <2>1. AxesRead = {a} /\ AxisMisread = FALSE
    BY ForcedAxis
  <2>2. /\ CellSize \in Nat /\ BitLength \in Nat /\ Fits32(CellSize)
        /\ CellLevels \in [Axes -> 0 .. BitLength]
    BY CellWhileDecoding
  <2> QED
    BY <2>1, <2>2
<1>4. CellLevels[a] # BitLength /\ ~(CellSize <= 2)
  BY <1>1, <1>3
<1> DEFINE number == CellSize \div 2 - Smaller(first, second)
<1>5. ~Arbitrary /\ width \in Nat
  BY <1>3, WidthsAreNumbers DEF Decoding
<1>6. Values(numbers, read.numbers, width) = {number} /\ ~Misreads(numbers, read.numbers, width)
  BY ONLY <1>2, <1>5, FieldIsRead
<1>7. first # second => Bits = {IF first < second THEN 1 ELSE 0}
  <2> SUFFICES ASSUME first # second PROVE Bits = {IF first < second THEN 1 ELSE 0}
    OBVIOUS
  <2>1. Values(halves, read.halves, 1) = {IF first < second THEN 1 ELSE 0}
    BY ONLY <1>2, <1>5, FieldIsRead, first # second
  <2>2. Values(halves, read.halves, 1) # {}
    BY <2>1
  <2> QED
    BY ONLY <2>1, <2>2 DEF Bits
<1>8. /\ number <= CellSize \div 2
      /\ (2 * (CellSize \div 2 - number) # CellSize) <=> first # second
      /\ first < second => Sizes(number, 1) = <<first, second>>
      /\ first > second => Sizes(number, 0) = <<first, second>>
      /\ first = second => Sizes(number, 1) = <<first, second>>
  BY <1>2, <1>3, SizesAreTold
<1> HIDE DEF number, width
<1>9. ASSUME DecodeNode PROVE Forced(e)
  <2>1. DecodeSplit(a)
    BY <1>4, <1>9, OneAxisDecodes DEF DecodeKnownNode, DecodeSmallNode
  <2> DEFINE half(n, p) == IfAny(n, [numRemainingPoints |-> n, lastAxis |-> a, stackPos |-> p])
             differ == 2 * (CellSize \div 2 - number) # CellSize
  <2>2. /\ \E bit \in IF differ THEN Bits ELSE {1} :
             /\ decodeStack' = Front(decodeStack) \o
                  Push(half(Sizes(number, bit)[1], pos), half(Sizes(number, bit)[2], pos + 1))
             /\ read' = [AfterAxis EXCEPT !.numbers = @ + 1,
                                          !.halves = IF differ THEN @ + 1 ELSE @]
             /\ misread' = (AxisMisread \/ Misreads(numbers, read.numbers, width))
        /\ decodeBase' = [decodeBase EXCEPT ![pos + 1] =
                            [CellBase EXCEPT ![a] = @ + Half(CellLevels, a)]]
        /\ decodeLevels' = [decodeLevels EXCEPT ![pos] = deeper, ![pos + 1] = deeper]
        /\ UNCHANGED <<rows, phase>>
    BY <2>1, <1>6, ZenonT(40) DEF DecodeSplit, width
  <2>3. PICK bit \in IF differ THEN Bits ELSE {1} :
          /\ decodeStack' = Front(decodeStack) \o
               Push(half(Sizes(number, bit)[1], pos), half(Sizes(number, bit)[2], pos + 1))
          /\ read' = [AfterAxis EXCEPT !.numbers = @ + 1,
                                       !.halves = IF differ THEN @ + 1 ELSE @]
          /\ misread' = (AxisMisread \/ Misreads(numbers, read.numbers, width))
    BY <2>2
  <2>4. differ <=> first # second
    BY <1>8
  <2>5. Sizes(number, bit) = <<first, second>>
    <3>1. first < second \/ first > second \/ first = second
      OBVIOUS
    <3> HIDE DEF differ
    <3>2. CASE first < second
      <4>1. first # second
        BY <3>2
      <4> QED
        BY <4>1, <3>2, <2>4, <1>7, <1>8
    <3>3. CASE first > second
      <4>1. first # second /\ ~(first < second)
        BY <3>3
      <4> QED
        BY <4>1, <3>3, <2>4, <1>7, <1>8
    <3>4. CASE first = second
      BY <3>4, <2>4, <1>8
    <3> QED
      BY <3>1, <3>2, <3>3, <3>4
  <2>6. decodeStack' = Front(decodeStack) \o
                         Push(IfAny(first, CellOf(first, a, pos)),
                              IfAny(second, CellOf(second, a, pos + 1)))
    BY <2>3, <2>5 DEF CellOf
  <2>7. read' = [AfterAxis EXCEPT !.numbers = @ + 1,
                                  !.halves = IF first # second THEN @ + 1 ELSE @]
    <3> HIDE DEF differ
    <3> QED
      BY <2>3, <2>4
  <2>8. misread' = FALSE
    BY <2>3, <1>3, <1>6
  <2>9. phase' = "decode"
    BY <2>2 DEF Decoding
  <2>10. e = [stack |-> decodeStack', base |-> decodeBase', levels |-> decodeLevels',
              read |-> read', rows |-> rows']
    BY <2>2, <2>6, <2>7, <1>2
  <2> QED
    BY <2>8, <2>9, <2>10 DEF Forced, DecoderState
<1>10. ~DecodeFails
  <2>1. ~(number > CellSize \div 2)
    <3>1. number \in Int /\ CellSize \div 2 \in Int
      BY <1>3 DEF number, Smaller
    <3> QED
      BY <3>1, <1>8
  <2>2. ~(\A n \in Values(numbers, read.numbers, MostSignificantBit(CellSize)) : n > CellSize \div 2)
    BY <2>1, <1>6 DEF width
  <2> QED
    BY <2>2, <1>3, <1>4, <1>5 DEF DecodeFails
<1> QED
  BY <1>9, <1>10

(* A step of the decoder is the turn its streams foretell, and none fails. *)
LEMMA TurnsAreForced ==
  ASSUME Decoding, NEW e, Turn(DecoderState, e)
  PROVE  (DecodeNode => Forced(e)) /\ ~DecodeFails
<1>1. PICK a \in Axes : /\ AxisIsTold(DecoderState, a)
                        /\ \/ KnownTurn(DecoderState, a, e)
                           \/ SmallTurn(DecoderState, a, e)
                           \/ SplitTurn(DecoderState, a, e)
  BY DEF Turn
<1> QED
  BY <1>1, ForcedKnown, ForcedSmall, ForcedSplit

-----------------------------------------------------------------------------
(* What is foretold stays so while the streams grow.                       *)

Extends(new, stream) ==
  /\ DOMAIN stream \subseteq DOMAIN new
  /\ \A i \in DOMAIN stream : new[i] = stream[i]

StreamsGrow ==
  /\ UNCHANGED <<header, level, dimension>>
  /\ Extends(numbers', numbers) /\ Extends(axes', axes) /\ Extends(halves', halves)
  /\ Extends(remaining', remaining)
  /\ Len(remaining) \in Nat /\ Len(remaining') \in Nat /\ Len(remaining) <= Len(remaining')

LEMMA FieldStays ==
  ASSUME NEW stream, NEW new, Extends(new, stream), NEW taken, NEW width, NEW value,
         FieldIs(stream, taken, width, value)
  PROVE  FieldIs(new, taken, width, value)
BY DEF FieldIs, Extends

LEMMA SameWalk ==
  ASSUME UNCHANGED <<header, level, dimension>>
  PROVE  /\ Axes' = Axes /\ BitLength' = BitLength /\ NumPoints' = NumPoints
         /\ SelectAxis' = SelectAxis /\ AxisBitCount' = AxisBitCount
         /\ SpaceIsNarrow' = SpaceIsNarrow
         /\ FirstState' = FirstState
         /\ \A d : AsksForAxis(d)' = AsksForAxis(d) /\ ReadAxis(d)' = ReadAxis(d)
         /\ \A levels : OpenAxes(levels)' = OpenAxes(levels)
         /\ \A levels : LeastLevelAxis(levels)' = LeastLevelAxis(levels)
         /\ \A levels, a : Half(levels, a)' = Half(levels, a)
         /\ \A a, levels : OpenAxesFrom(a, levels)' = OpenAxesFrom(a, levels)
<1>1. /\ Axes' = Axes /\ BitLength' = BitLength /\ NumPoints' = NumPoints
      /\ SelectAxis' = SelectAxis /\ AxisBitCount' = AxisBitCount
      /\ SpaceIsNarrow' = SpaceIsNarrow
  BY DEF Axes, BitLength, NumPoints, SelectAxis, AxisBitCount, SpaceIsNarrow
<1>2. FirstState' = FirstState
  BY <1>1 DEF FirstState, RootCell
<1>3. \A d : AsksForAxis(d)' = AsksForAxis(d)
  BY <1>1 DEF AsksForAxis
<1>4. \A d : ReadAxis(d)' = ReadAxis(d)
  BY <1>3 DEF ReadAxis
<1>5. \A levels : OpenAxes(levels)' = OpenAxes(levels)
  BY <1>1 DEF OpenAxes
<1>6. \A levels : LeastLevelAxis(levels)' = LeastLevelAxis(levels)
  BY <1>1 DEF LeastLevelAxis
<1>7. \A levels, a : Half(levels, a)' = Half(levels, a)
  BY <1>1 DEF Half
<1>8. \A a, levels : OpenAxesFrom(a, levels)' = OpenAxesFrom(a, levels)
  <2> SUFFICES ASSUME NEW a, NEW levels PROVE OpenAxesFrom(a, levels)' = OpenAxesFrom(a, levels)
    OBVIOUS
  <2>1. OpenAxes(levels)' = OpenAxes(levels) /\ dimension' = dimension
    BY <1>5
  <2> QED
    BY <2>1 DEF OpenAxesFrom
<1> QED
  BY <1>1, <1>2, <1>3, <1>4, <1>5, <1>6, <1>7, <1>8

LEMMA TurnsStay ==
  ASSUME StreamsGrow, NEW d, NEW e, Turn(d, e)
  PROVE  Turn(d, e)'
<1> USE SameWalk
<1> SUFFICES ASSUME NEW a \in Axes, AxisIsTold(d, a),
                    KnownTurn(d, a, e) \/ SmallTurn(d, a, e) \/ SplitTurn(d, a, e)
             PROVE  /\ AxisIsTold(d, a)'
                    /\ KnownTurn(d, a, e)' \/ SmallTurn(d, a, e)' \/ SplitTurn(d, a, e)'
  <2>1. PICK a \in Axes : /\ AxisIsTold(d, a)
                          /\ KnownTurn(d, a, e) \/ SmallTurn(d, a, e) \/ SplitTurn(d, a, e)
    BY DEF Turn
  <2>2. d.stack # <<>> /\ a \in Axes'
    BY DEF Turn, StreamsGrow
  <2> QED
    BY <2>1, <2>2 DEF Turn
<1>0. UNCHANGED <<header, level, dimension>>
  BY DEF StreamsGrow
<1>1. AxisIsTold(d, a)'
  <2>1. \A taken, width, value : FieldIs(axes, taken, width, value) => FieldIs(axes', taken, width, value)
    BY FieldStays DEF StreamsGrow
  <2> QED
    BY <2>1, <1>0 DEF AxisIsTold
<1>2. CASE KnownTurn(d, a, e)
  <2>1. KnownTurn(d, a, e)'
    BY <1>2, <1>0 DEF KnownTurn
  <2> QED
    BY <2>1, <1>1
<1>3. CASE SmallTurn(d, a, e)
  <2>1. \A taken, width, value : FieldIs(remaining, taken, width, value) => FieldIs(remaining', taken, width, value)
    BY FieldStays DEF StreamsGrow
  <2>2. PICK order \in OpenAxesFrom(a, LevelsOf(d)), pts \in [1 .. SizeOf(d) -> [Axes -> Nat]] :
       /\ BitsAreWritten(d, order, pts)
       /\ \A i \in 1 .. SizeOf(d) : \A b \in Axes \ OpenAxes(LevelsOf(d)) :
            pts[i][b] = BaseOf(d)[b]
       /\ d.read.remaining + SizeOf(d) * Cardinality(OpenAxes(LevelsOf(d))) \in 0 .. Len(remaining)
       /\ e = [stack |-> Front(d.stack), base |-> d.base, levels |-> d.levels,
               read |-> [ReadAxis(d) EXCEPT !.remaining =
                           @ + SizeOf(d) * Cardinality(OpenAxes(LevelsOf(d)))],
               rows |-> d.rows \o pts]
    BY <1>3 DEF SmallTurn
  <2>3. BitsAreWritten(d, order, pts)'
    BY <2>1, <2>2, <1>0 DEF BitsAreWritten
  <2>4. d.read.remaining + SizeOf(d) * Cardinality(OpenAxes(LevelsOf(d))) \in 0 .. Len(remaining')
    <3> DEFINE x == d.read.remaining + SizeOf(d) * Cardinality(OpenAxes(LevelsOf(d)))
    <3>1. x \in 0 .. Len(remaining)
      BY <2>2
    <3> HIDE DEF x
    <3>2. x \in 0 .. Len(remaining')
      BY <3>1 DEF StreamsGrow
    <3> QED
      BY <3>2 DEF x
  <2>5. LevelsOf(d)[a] < BitLength' /\ SizeOf(d) <= 2
    BY <1>3, <1>0 DEF SmallTurn
  <2>6. SmallTurn(d, a, e)'
    BY <2>2, <2>3, <2>4, <2>5, <1>0 DEF SmallTurn
  <2> QED
    BY <2>6, <1>1
<1>4. CASE SplitTurn(d, a, e)
  <2>1. \A taken, width, value : FieldIs(numbers, taken, width, value) => FieldIs(numbers', taken, width, value)
    BY FieldStays DEF StreamsGrow
  <2>2. \A taken, width, value : FieldIs(halves, taken, width, value) => FieldIs(halves', taken, width, value)
    BY FieldStays DEF StreamsGrow
  <2>3. LevelsOf(d)[a] < BitLength /\ SizeOf(d) > 2
    BY <1>4 DEF SplitTurn
  <2>4. PICK first \in Nat, second \in Nat :
       /\ first + second = SizeOf(d)
       /\ FieldIs(numbers, d.read.numbers, MostSignificantBit(SizeOf(d)),
                  SizeOf(d) \div 2 - Smaller(first, second))
       /\ first # second => FieldIs(halves, d.read.halves, 1, IF first < second THEN 1 ELSE 0)
       /\ e = AfterSplit(d, a, first, second)
    BY ONLY <1>4 DEF SplitTurn
  <2>5. AfterSplit(d, a, first, second)' = AfterSplit(d, a, first, second)
    BY <1>0 DEF AfterSplit
  <2>6. SplitTurn(d, a, e)'
    BY <2>1, <2>2, <2>3, <2>4, <2>5, <1>0 DEF SplitTurn
  <2> QED
    BY <2>6, <1>1
<1> QED
  BY <1>1, <1>2, <1>3, <1>4

LEMMA TraceStays ==
  ASSUME StreamsGrow, NEW tr, NEW n, Trace(tr, n)
  PROVE  Trace(tr, n)'
<1>1. \A i \in 1 .. n - 1 : Turn(tr[i], tr[i + 1])'
  BY TurnsStay DEF Trace
<1>2. FirstState' = FirstState
  BY SameWalk DEF StreamsGrow
<1> QED
  BY <1>1, <1>2 DEF Trace

(* A turn more.                                                            *)
LEMMA OneMoreTurn ==
  ASSUME NEW tr, NEW n, NEW e, Trace(tr, n)', Turn(tr[n], e)'
  PROVE  \E new : Trace(new, n + 1)' /\ new[n + 1] = e
<1> DEFINE new == [i \in 1 .. n + 1 |-> IF i <= n THEN tr[i] ELSE e]
<1>1. n \in Nat \ {0} /\ tr[1] = FirstState'
  BY DEF Trace
<1>2. (\A i \in 1 .. n : new[i] = tr[i]) /\ new[n + 1] = e /\ 1 \in 1 .. n
  BY <1>1
<1> HIDE DEF new
<1>3. ASSUME NEW i \in 1 .. n
      PROVE  Turn(new[i], new[i + 1])'
  <2>1. CASE i = n
    <3>1. new[i] = tr[n] /\ new[i + 1] = e
      BY <2>1, <1>2
    <3> QED
      BY <3>1
  <2>2. CASE i # n
    <3>1. i \in 1 .. n - 1 /\ i + 1 \in 1 .. n
      BY <2>2, <1>1
    <3>2. new[i] = tr[i] /\ new[i + 1] = tr[i + 1]
      BY <3>1, <1>2
    <3> QED
      BY <3>1, <3>2 DEF Trace
  <2> QED
    BY <2>1, <2>2
<1>4. n + 1 \in Nat \ {0} /\ (n + 1) - 1 = n /\ new[1] = FirstState'
  BY <1>1, <1>2
<1>5. Trace(new, n + 1)'
  BY <1>3, <1>4 DEF Trace
<1> QED
  BY <1>2, <1>5

-----------------------------------------------------------------------------
(* What the encoder writes for a node.                                     *)

(* Without a choice of axes they take turns, from axis 1 on.               *)
InTurn(levels, last) ==
  \A b \in Axes : levels[b] = IF 1 <= b /\ b <= last THEN levels[0] + 1 ELSE levels[0]

TakesTurns(node, levels) == ~SelectAxis => InTurn(levels[node.stackPos], node.lastAxis)

(* A node of which one axis is known whole is known whole: its axis is one *)
(* with the least known bits, or with the least among the open ones.       *)
LEMMA KnownIsKnownWhole ==
  ASSUME EncoderIsSound, encodeStack # <<>>, TakesTurns(Node, encodeLevels),
         NodeLevels[NodeAxis] = BitLength
  PROVE  \A b \in Axes : NodeLevels[b] = BitLength
<1>1. /\ Node.lastAxis \in Axes /\ NodeAxis \in Axes /\ NodeLevels \in [Axes -> 0 .. BitLength]
      /\ Node.begin \in Nat /\ Node.end \in Nat /\ Node.begin <= Node.end
      /\ dimension \in Nat \ {0} /\ BitLength \in Nat
  BY TopOfEncoder, WireAssumption, SMTT(20) DEF EncoderIsSound, SpaceIsSound
<1>2. CASE ~SelectAxis
  <2> DEFINE l == Node.lastAxis
             f == NodeLevels
             n == IncrementMod(l, dimension)
  <2>1. f[n] = BitLength /\ \A b \in Axes : f[b] = IF 1 <= b /\ b <= l THEN f[0] + 1 ELSE f[0]
    BY <1>2 DEF NodeAxis, TakesTurns, InTurn, NodeLevels
  <2>2. n = IF l + 1 >= dimension THEN 0 ELSE l + 1
    BY DEF IncrementMod
  <2> HIDE DEF l, f, n
  <2>3. l \in 0 .. dimension - 1 /\ n \in Axes /\ 0 \in Axes /\ ~(1 <= n /\ n <= l)
    <3>1. l \in 0 .. dimension - 1
      BY <1>1 DEF Axes, l
    <3> QED
      BY <1>1, <3>1, <2>2 DEF Axes
  <2>4. f[0] = BitLength
    BY <2>1, <2>3
  <2>5. \A b \in Axes : f[b] \in Int /\ f[b] <= BitLength
    BY <1>1 DEF f
  <2>6. \A b \in Axes : f[b] = BitLength
    BY <2>1, <2>4, <2>5, <1>1
  <2> QED
    BY <2>6 DEF f
<1>3. CASE ChoosesAxis
  <2>1. NodeAxis = UnevenAxis
    BY <1>3 DEF NodeAxis, ChoosesAxis
  <2>2. NodeAxis \notin OpenAxes(NodeLevels)
    BY <1>1 DEF OpenAxes, BitLength
  <2>3. OpenAxes(NodeLevels) = {}
    BY <1>1, <2>1, <2>2, UnevenIsAnAxis
  <2>4. \A b \in Axes : ~(NodeLevels[b] < BitLength)
    BY <2>3 DEF OpenAxes, BitLength
  <2> QED
    BY <1>1, <2>4
<1>4. CASE SelectAxis /\ ~ChoosesAxis
  <2>1. NodeAxis = LeastLevelAxis(NodeLevels)
    BY <1>4 DEF NodeAxis
  <2>2. Axes \in SUBSET Nat /\ Axes # {}
    BY <1>1 DEF Axes
  <2>3. NodeLevels \in [Axes -> Nat]
    BY <1>1
  <2>4. \E a \in Axes : \A b \in Axes :
          NodeLevels[a] < NodeLevels[b] \/ (NodeLevels[a] = NodeLevels[b] /\ a <= b)
    BY <2>2, <2>3, FirstOfLeast
  <2>5. \A b \in Axes :
          NodeLevels[NodeAxis] < NodeLevels[b] \/ NodeLevels[NodeAxis] = NodeLevels[b]
    BY <2>1, <2>4 DEF LeastLevelAxis
  <2> QED
    BY <1>1, <2>5
<1> QED
  BY <1>2, <1>3, <1>4 DEF ChoosesAxis

(* What a point of a cell has beyond the base are its open bits.           *)
LEMMA OpenBitsOfAPoint ==
  ASSUME NEW base, NEW levels, CellIsSound(base, levels), BitLength \in Nat,
         NEW point \in [Axes -> Nat], PointInCell(point, base, levels), NEW a \in Axes
  PROVE  LET open == TwoTo[BitLength - levels[a]]
         IN  /\ BitLength - levels[a] \in Nat
             /\ point[a] - base[a] \in 0 .. open - 1
             /\ point[a] % open = point[a] - base[a]
<1> DEFINE open == TwoTo[BitLength - levels[a]]
           x == point[a]
           y == base[a]
<1>1. levels[a] \in 0 .. BitLength /\ y \in Nat /\ x \in Nat
  BY DEF CellIsSound
<1>2. BitLength - levels[a] \in Nat
  BY <1>1
<1>3. open \in Nat \ {0}
  BY <1>2, PowersDouble
<1>4. PICK q \in Nat : y = q * open
  BY <1>1 DEF CellIsSound
<1>5. y <= x /\ x < y + open
  BY DEF PointInCell
<1> HIDE DEF open, x, y
<1>6. x - y \in 0 .. open - 1
  BY <1>1, <1>3, <1>5
<1>7. \A m \in Nat \ {0}, p \in Nat : \A s \in 0 .. m - 1 : (p * m + s) % m = s
  BY Z3
<1>8. (q * open + (x - y)) % open = x - y
  BY <1>3, <1>6, <1>7
<1>9. q * open + (x - y) = x
  BY <1>1, <1>4
<1> QED
  BY <1>2, <1>6, <1>8, <1>9 DEF open, x, y

(* The node on top and the decoder's cell.                                 *)
MirrorStack(stack) ==
  [i \in DOMAIN stack |->
     CellOf(stack[i].end - stack[i].begin, stack[i].lastAxis, stack[i].stackPos)]

Finished(stack) == IF stack = <<>> THEN 0 ELSE Last(stack).end

Emitted(pts, from) ==
  \E f \in Bijection(1 .. Len(pts), from + 1 .. NumPoints) :
    \A k \in 1 .. Len(pts) : pts[k] = points[f[k]]

Mirrors(d) ==
  /\ d = [stack |-> MirrorStack(encodeStack), base |-> encodeBase, levels |-> encodeLevels,
          read |-> AllRead, rows |-> d.rows]
  /\ d.rows \in Seq([Axes -> Nat]) /\ Emitted(d.rows, Finished(encodeStack))

LEMMA MirroredStack ==
  ASSUME NEW s \in Seq(EncodeNodes), s # <<>>
  PROVE  /\ Last(MirrorStack(s)) = CellOf(Last(s).end - Last(s).begin, Last(s).lastAxis, Last(s).stackPos)
         /\ MirrorStack(s) # <<>>
         /\ Front(MirrorStack(s)) = MirrorStack(Front(s))
         /\ Len(MirrorStack(s)) = Len(s)
<1> DEFINE t == MirrorStack(s)
<1>1. /\ Len(s) \in Nat \ {0} /\ DOMAIN s = 1 .. Len(s)
  BY LenProperties, EmptySeq
<1>2. /\ DOMAIN t = 1 .. Len(s)
      /\ \A i \in 1 .. Len(s) : t[i] = CellOf(s[i].end - s[i].begin, s[i].lastAxis, s[i].stackPos)
      /\ t = [i \in 1 .. Len(s) |-> t[i]]
  BY <1>1 DEF MirrorStack
<1> HIDE DEF t
<1>3. t \in Seq(Range(t)) /\ Len(t) = Len(s)
  <2>1. \A i \in 1 .. Len(s) : t[i] \in Range(t)
    BY <1>2 DEF Range
  <2>2. t \in [1 .. Len(s) -> Range(t)]
    BY <1>2, <2>1
  <2> QED
    BY <2>2, <1>1
<1>4. t # <<>> /\ Last(t) = t[Len(s)] /\ Last(s) = s[Len(s)] /\ Len(s) \in 1 .. Len(s)
  BY <1>1, <1>3 DEF Last
<1>5. Front(t) = MirrorStack(Front(s))
  <2>1. /\ Front(t) = [i \in 1 .. Len(s) - 1 |-> t[i]]
        /\ Front(s) = [i \in 1 .. Len(s) - 1 |-> s[i]]
    BY <1>1, <1>3 DEF Front
  <2>2. DOMAIN Front(s) = 1 .. Len(s) - 1 /\ \A i \in 1 .. Len(s) - 1 : Front(s)[i] = s[i]
    BY <2>1
  <2>3. \A i \in 1 .. Len(s) - 1 : i \in 1 .. Len(s)
    BY <1>1
  <2> QED
    BY <1>2, <2>1, <2>2, <2>3 DEF MirrorStack
<1> QED
  BY <1>2, <1>3, <1>4, <1>5 DEF t

LEMMA MirroredTop ==
  ASSUME EncoderIsSound, encodeStack # <<>>, NEW d, Mirrors(d)
  PROVE  /\ d.stack # <<>> /\ Front(d.stack) = MirrorStack(Front(encodeStack))
         /\ TopOf(d) = CellOf(NodeSize, Node.lastAxis, Node.stackPos)
         /\ TopOf(d).stackPos = Node.stackPos /\ TopOf(d).lastAxis = Node.lastAxis
         /\ SizeOf(d) = NodeSize /\ BaseOf(d) = NodeBase /\ LevelsOf(d) = NodeLevels
         /\ AsksForAxis(d) = ChoosesAxis
         /\ d.read = AllRead /\ d.base = encodeBase /\ d.levels = encodeLevels
<1>1. /\ d.stack = MirrorStack(encodeStack) /\ d.read = AllRead
      /\ d.base = encodeBase /\ d.levels = encodeLevels
  BY DEF Mirrors
<1>2. /\ TopOf(d) = CellOf(NodeSize, Node.lastAxis, Node.stackPos)
      /\ d.stack # <<>> /\ Front(d.stack) = MirrorStack(Front(encodeStack))
  BY <1>1, MirroredStack DEF EncoderIsSound, TopOf, Node, NodeSize
<1>3. /\ SizeOf(d) = NodeSize /\ TopOf(d).stackPos = Node.stackPos
      /\ TopOf(d).lastAxis = Node.lastAxis
  BY <1>2 DEF SizeOf, CellOf
<1> QED
  BY <1>1, <1>2, <1>3 DEF BaseOf, LevelsOf, NodeBase, NodeLevels, AsksForAxis, ChoosesAxis

-----------------------------------------------------------------------------
(* The encoder and the decoder that will follow it.                        *)

(* The nodes share out the points not emitted yet, without a gap.          *)
Abuts(stack) ==
  \A i \in DOMAIN stack : stack[i].begin = IF i = 1 THEN 0 ELSE stack[i - 1].end

Shuffled ==
  \E f \in Bijection(1 .. NumPoints, 1 .. NumPoints) :
    \A k \in 1 .. NumPoints : points[k] = Job.points[f[k]]

Foretold == \E tr, n : Trace(tr, n) /\ Mirrors(tr[n])

EncoderIsFollowed ==
  /\ SpaceIsNarrow /\ axes \in Seq(Fields) /\ halves \in Seq(Fields)
  /\ NumPoints = Len(Job.points) /\ Shuffled
  /\ Abuts(encodeStack)
  /\ \A i \in DOMAIN encodeStack : TakesTurns(encodeStack[i], encodeLevels)
  /\ Foretold

LEMMA ConcatExtends ==
  ASSUME NEW S, NEW s \in Seq(S), NEW t \in Seq(S)
  PROVE  Extends(s \o t, s) /\ Len(s \o t) = Len(s) + Len(t) /\ s \o t \in Seq(S)
BY DEF Extends

LEMMA AppendExtends ==
  ASSUME NEW S, NEW s \in Seq(S), NEW x \in S
  PROVE  /\ Extends(Append(s, x), s) /\ Len(Append(s, x)) = Len(s) + 1
         /\ Append(s, x) \in Seq(S)
         /\ Len(s) + 1 \in DOMAIN Append(s, x) /\ Append(s, x)[Len(s) + 1] = x
BY DEF Extends

LEMMA ConcatParts ==
  ASSUME NEW S, NEW s \in Seq(S), NEW t \in Seq(S)
  PROVE  /\ Len(s) \in Nat /\ Len(t) \in Nat /\ Len(s \o t) = Len(s) + Len(t)
         /\ \A k \in 1 .. Len(s) : (s \o t)[k] = s[k]
         /\ \A k \in 1 .. Len(t) : (s \o t)[Len(s) + k] = t[k]
<1>1. Len(s) \in Nat /\ Len(t) \in Nat
  OBVIOUS
<1>2. /\ Len(s \o t) = Len(s) + Len(t)
      /\ \A i \in 1 .. Len(s) + Len(t) : (s \o t)[i] = IF i <= Len(s) THEN s[i] ELSE t[i - Len(s)]
  BY ConcatProperties
<1> DEFINE all == s \o t
           l == Len(s)
           n == Len(t)
<1> HIDE DEF all, l, n
<1>3. \A k \in 1 .. l : all[k] = s[k]
  BY <1>1, <1>2 DEF all, l, n
<1>4. ASSUME NEW k \in 1 .. n
      PROVE  all[l + k] = t[k]
  <2>1. l + k \in 1 .. l + n /\ ~(l + k <= l) /\ (l + k) - l = k
    BY <1>1 DEF l, n
  <2> QED
    BY <1>2, <2>1 DEF all, l, n
<1> QED
  BY <1>1, <1>2, <1>3, <1>4 DEF all, l, n

LEMMA FrontParts ==
  ASSUME NEW S, NEW s \in Seq(S), s # <<>>
  PROVE  /\ Len(s) \in Nat \ {0} /\ Front(s) \in Seq(S) /\ Len(Front(s)) = Len(s) - 1
         /\ DOMAIN s = 1 .. Len(s) /\ DOMAIN Front(s) = 1 .. Len(s) - 1
         /\ \A i \in 1 .. Len(s) - 1 : Front(s)[i] = s[i]
<1>1. /\ Front(s) \in Seq(S) /\ Replaced(s, Front(s), 0, 0, 0, 0)
      /\ Len(s) \in Nat /\ Len(s) # 0 /\ DOMAIN s = 1 .. Len(s)
  BY PopReplacesTop, EmptySeq, LenProperties
<1>2. Len(Front(s)) = (Len(s) - 1) + 0 + 0 /\ \A i \in 1 .. Len(s) - 1 : Front(s)[i] = s[i]
  BY <1>1 DEF Replaced
<1>3. Len(Front(s)) = Len(s) - 1
  BY <1>1, <1>2
<1> QED
  BY <1>1, <1>2, <1>3, LenProperties

(* The points of the node on top go to the rows.                           *)
LEMMA NodeIsEmitted ==
  ASSUME EncoderIsSound, encodeStack # <<>>, Abuts(encodeStack),
         NEW R, NEW rws \in Seq(R), Emitted(rws, Finished(encodeStack)),
         NEW more \in Seq(R), Len(more) = NodeSize,
         \A i \in 1 .. NodeSize : more[i] = points[Node.begin + i]
  PROVE  Emitted(rws \o more, Finished(Front(encodeStack)))
<1> DEFINE l == Len(rws)
           n == NodeSize
           b == Node.begin
           e == Node.end
           N == NumPoints
           all == rws \o more
<1>1. /\ b \in Nat /\ e \in Nat /\ b < e /\ e <= N /\ n = e - b /\ n \in Nat /\ N \in Nat
      /\ encodeStack \in Seq(EncodeNodes)
  <2>1. b \in Nat /\ e \in Nat /\ b < e /\ e <= N
    BY TopOfEncoder
  <2>2. N \in Nat /\ encodeStack \in Seq(EncodeNodes)
    BY LenProperties DEF EncoderIsSound
  <2> QED
    BY <2>1, <2>2 DEF NodeSize
<1>2. Finished(encodeStack) = e
  BY DEF Finished, Node
<1>3. Finished(Front(encodeStack)) = b
  <2> DEFINE k == Len(encodeStack)
             s == encodeStack
  <2>1. k \in Nat \ {0} /\ k \in DOMAIN s /\ Node = s[k]
    BY <1>1, LenProperties, EmptySeq DEF Node, Last
  <2>2. Front(s) \in Seq(EncodeNodes) /\ Len(Front(s)) = k - 1 /\ \A i \in 1 .. k - 1 : Front(s)[i] = s[i]
    BY <1>1, FrontParts
  <2>3. s[k].begin = IF k = 1 THEN 0 ELSE s[k - 1].end
    BY <2>1 DEF Abuts
  <2> HIDE DEF k, s
  <2>4. CASE k = 1
    <3>1. Front(s) = <<>>
      BY <2>2, <2>4, EmptySeq
    <3> QED
      BY <3>1, <2>1, <2>3, <2>4 DEF Finished, s
  <2>5. CASE k # 1
    <3>1. Front(s) # <<>> /\ Last(Front(s)) = s[k - 1]
      <4>1. k - 1 \in 1 .. k - 1
        BY <2>1, <2>5
      <4> QED
        BY <4>1, <2>2 DEF Last
    <3> QED
      BY <3>1, <2>1, <2>3, <2>5 DEF Finished, s
  <2> QED
    BY <2>4, <2>5
<1>4. PICK f \in Bijection(1 .. l, e + 1 .. N) : \A k \in 1 .. l : rws[k] = points[f[k]]
  BY <1>2 DEF Emitted
<1>5. /\ l \in Nat /\ Len(all) = l + n
      /\ \A k \in 1 .. l : all[k] = rws[k]
      /\ \A k \in 1 .. n : all[l + k] = more[k]
  <2>1. /\ Len(rws) \in Nat /\ Len(rws \o more) = Len(rws) + Len(more)
        /\ \A k \in 1 .. Len(rws) : (rws \o more)[k] = rws[k]
        /\ \A k \in 1 .. Len(more) : (rws \o more)[Len(rws) + k] = more[k]
    <3>1. rws \in Seq(R) /\ more \in Seq(R)
      OBVIOUS
    <3> QED
      BY ONLY <3>1, ConcatParts
  <2>2. Len(more) = n
    OBVIOUS
  <2> QED
    BY ONLY <2>1, <2>2 DEF all, l
<1>6. \A i \in 1 .. n : more[i] = points[b + i]
  OBVIOUS
<1>7. /\ f \in [1 .. l -> e + 1 .. N]
      /\ \A i, j \in 1 .. l : f[i] = f[j] => i = j
      /\ \A t \in e + 1 .. N : \E i \in 1 .. l : f[i] = t
  BY <1>4 DEF Bijection, Injection, Surjection, IsInjective
<1> DEFINE g == [k \in 1 .. l + n |-> IF k <= l THEN f[k] ELSE b + (k - l)]
<1> HIDE DEF l, n, b, e, N, all
<1>8. /\ \A k \in 1 .. l : k \in 1 .. l + n /\ g[k] = f[k] /\ g[k] > e /\ g[k] <= N
      /\ \A k \in l + 1 .. l + n : k \in 1 .. l + n /\ g[k] = b + (k - l) /\ g[k] <= e /\ g[k] > b
  <2>1. ASSUME NEW k \in 1 .. l
        PROVE  k \in 1 .. l + n /\ g[k] = f[k] /\ g[k] > e /\ g[k] <= N
    <3>1. f[k] \in e + 1 .. N /\ k \in 1 .. l + n /\ k <= l
      BY <1>1, <1>5, <1>7
    <3>2. g[k] = f[k]
      BY <3>1
    <3> HIDE DEF g
    <3> QED
      BY <3>1, <3>2, <1>1
  <2>2. ASSUME NEW k \in l + 1 .. l + n
        PROVE  k \in 1 .. l + n /\ g[k] = b + (k - l) /\ g[k] <= e /\ g[k] > b
    <3>1. k \in 1 .. l + n /\ ~(k <= l) /\ k - l \in 1 .. n
      BY <1>1, <1>5, SMTT(20)
    <3>2. g[k] = b + (k - l)
      BY <3>1
    <3> HIDE DEF g
    <3> QED
      BY <3>1, <3>2, <1>1
  <2> QED
    BY <2>1, <2>2
<1>9. \A k \in 1 .. l + n : k \in 1 .. l \/ k \in l + 1 .. l + n
  BY <1>1, <1>5
<1>10. g \in [1 .. l + n -> b + 1 .. N]
  <2>1. \A k \in 1 .. l + n : g[k] \in b + 1 .. N
    <3> TAKE k \in 1 .. l + n
    <3>1. CASE k \in 1 .. l
      BY <3>1, <1>1, <1>7, <1>8, SMTT(20)
    <3>2. CASE k \in l + 1 .. l + n
      BY <3>2, <1>1, <1>5, <1>8, SMTT(20)
    <3> QED
      BY <3>1, <3>2, <1>9
  <2> QED
    BY <2>1
<1>15. \A k \in 1 .. l + n : g[k] \in Int
  <2> HIDE DEF g
  <2> QED
    BY <1>1, <1>10
<1> HIDE DEF g
<1>11. ASSUME NEW i \in 1 .. l + n, NEW j \in 1 .. l + n, g[i] = g[j]
       PROVE  i = j
  <2>1. CASE i \in 1 .. l /\ j \in 1 .. l
    BY <2>1, <1>7, <1>8, <1>11
  <2>2. CASE i \in l + 1 .. l + n /\ j \in l + 1 .. l + n
    BY <2>2, <1>1, <1>5, <1>8, <1>11
  <2>3. CASE i \in 1 .. l /\ j \in l + 1 .. l + n
    <3>1. g[i] > e /\ g[j] <= e /\ g[i] \in Int
      BY <2>3, <1>8, <1>15
    <3> QED
      BY <3>1, <1>1, <1>11
  <2>4. CASE j \in 1 .. l /\ i \in l + 1 .. l + n
    <3>1. g[j] > e /\ g[i] <= e /\ g[i] \in Int
      BY <2>4, <1>8, <1>15
    <3> QED
      BY <3>1, <1>1, <1>11
  <2> QED
    BY <2>1, <2>2, <2>3, <2>4, <1>9
<1>12. ASSUME NEW t \in b + 1 .. N
       PROVE  \E i \in 1 .. l + n : g[i] = t
  <2>1. CASE t > e
    <3>1. t \in e + 1 .. N
      BY <2>1, <1>1
    <3>2. PICK i \in 1 .. l : f[i] = t
      BY <3>1, <1>7
    <3> QED
      BY <3>2, <1>8
  <2>2. CASE ~(t > e)
    <3>1. l + (t - b) \in l + 1 .. l + n /\ (l + (t - b)) - l = t - b /\ b + (t - b) = t
      BY <2>2, <1>1, <1>5, SMTT(20)
    <3> QED
      BY <3>1, <1>8
  <2> QED
    BY <2>1, <2>2
<1>13. g \in Bijection(1 .. l + n, b + 1 .. N)
  <2> QED
    BY <1>10, <1>11, <1>12 DEF Bijection, Injection, Surjection, IsInjective
<1>14. ASSUME NEW k \in 1 .. l + n
       PROVE  all[k] = points[g[k]]
  <2>1. CASE k \in 1 .. l
    BY <2>1, <1>4, <1>5, <1>8 DEF l
  <2>2. CASE k \in l + 1 .. l + n
    <3>1. k - l \in 1 .. n /\ l + (k - l) = k
      <4>1. l \in Nat /\ n \in Nat
        BY <1>1, <1>5
      <4> QED
        BY ONLY <4>1, <2>2
    <3>2. all[k] = more[k - l] /\ more[k - l] = points[b + (k - l)]
      BY <3>1, <1>5, <1>6
    <3> QED
      BY <2>2, <3>2, <1>8
  <2> QED
    BY <2>1, <2>2, <1>9
<1> QED
  BY <1>3, <1>5, <1>13, <1>14 DEF Emitted, all, b, N

LEMMA AxisIsWritten ==
  ASSUME EncoderIsSound, SpaceIsNarrow, axes \in Seq(Fields), Popping, NEW d, Mirrors(d),
         NEW a, a = NodeAxis
  PROVE  /\ AxisIsTold(d, a)' /\ axes' \in Seq(Fields) /\ Extends(axes', axes)
         /\ ReadAxis(d)' = [AllRead EXCEPT !.axes = Len(axes')]
<1>1. /\ encodeStack # <<>> /\ UNCHANGED <<header, level, dimension>> /\ WriteAxis
  BY DEF Popping
<1>2. /\ SizeOf(d) = NodeSize /\ LevelsOf(d) = NodeLevels /\ AsksForAxis(d) = ChoosesAxis
      /\ TopOf(d).lastAxis = Node.lastAxis /\ d.read = AllRead /\ d.read.axes = Len(axes)
  BY <1>1, MirroredTop DEF AllRead
<1>3. /\ SelectAxis' = SelectAxis /\ AsksForAxis(d)' = AsksForAxis(d) /\ ReadAxis(d)' = ReadAxis(d)
      /\ LeastLevelAxis(LevelsOf(d))' = LeastLevelAxis(LevelsOf(d))
      /\ AxisBitCount' = AxisBitCount /\ dimension' = dimension
  BY <1>1, SameWalk
<1>4. CASE ~ChoosesAxis
  <2>1. axes' = axes
    BY <1>1, <1>4 DEF WriteAxis
  <2>2. AxisIsTold(d, a)'
    BY <1>2, <1>3, <1>4 DEF AxisIsTold, NodeAxis
  <2>3. ReadAxis(d) = AllRead /\ AllRead = [AllRead EXCEPT !.axes = Len(axes)]
    BY <1>2, <1>4 DEF ReadAxis, AllRead
  <2> QED
    BY <2>1, <2>2, <2>3, <1>3 DEF Extends
<1>5. CASE ChoosesAxis
  <2>1. axes' = Append(axes, Field(AxisBitCount, NodeAxis))
    BY <1>1, <1>5 DEF WriteAxis
  <2>2. NodeAxis \in Axes /\ dimension \in Nat \ {0} /\ Fits32(dimension - 1)
    BY <1>1, TopOfEncoder DEF EncoderIsSound, SpaceIsSound, SpaceIsNarrow
  <2>3. AxisBitCount \in Nat /\ NodeAxis \in 0 .. TwoTo[AxisBitCount] - 1
    BY <2>2, AxisFits
  <2>4. NodeAxis % TwoTo[AxisBitCount] = NodeAxis
    <3>1. TwoTo[AxisBitCount] \in Nat \ {0}
      BY <2>3, PowersDouble
    <3> QED
      BY <3>1, <2>3
  <2>5. Field(AxisBitCount, NodeAxis) = [width |-> AxisBitCount, value |-> NodeAxis]
    BY <2>4 DEF Field
  <2>6. Field(AxisBitCount, NodeAxis) \in Fields
    BY <2>3, <2>5 DEF Fields
  <2>7. /\ Extends(axes', axes) /\ axes' \in Seq(Fields) /\ Len(axes') = Len(axes) + 1
        /\ Len(axes) + 1 \in DOMAIN axes' /\ axes'[Len(axes) + 1] = Field(AxisBitCount, NodeAxis)
    BY <2>1, <2>6, AppendExtends
  <2>8. FieldIs(axes', d.read.axes, AxisBitCount, a)
    BY <2>3, <2>5, <2>7, <1>2 DEF FieldIs
  <2>9. AxisIsTold(d, a)'
    <3>1. SelectAxis
      BY <1>5 DEF ChoosesAxis
    <3> QED
      BY <3>1, <2>8, <1>2, <1>3, <1>5 DEF AxisIsTold
  <2>10. ReadAxis(d) = [AllRead EXCEPT !.axes = Len(axes')]
    BY <1>2, <1>5, <2>7 DEF ReadAxis, AllRead
  <2> QED
    BY <2>7, <2>9, <2>10, <1>3
<1> QED
  BY <1>4, <1>5

LEMMA LeafIsFollowed ==
  ASSUME KdInv, EncoderIsFollowed, phase = "encode", encodeStack # <<>>,
         encodeStack' = Front(encodeStack), StreamsGrow,
         UNCHANGED <<jobs, points, encodeBase, encodeLevels, halves>>, axes' \in Seq(Fields),
         NEW tr, NEW n, Trace(tr, n), Mirrors(tr[n]),
         NEW more \in Seq([Axes -> Nat]), Len(more) = NodeSize,
         \A i \in 1 .. NodeSize : more[i] = points[Node.begin + i],
         NEW e, Turn(tr[n], e)',
         e = [stack |-> Front(tr[n].stack), base |-> encodeBase, levels |-> encodeLevels,
              read |-> AllRead', rows |-> tr[n].rows \o more]
  PROVE  EncoderIsFollowed'
<1>1. EncoderIsSound /\ encodeStack \in Seq(EncodeNodes) /\ Abuts(encodeStack)
  BY DEF KdInv, EncoderIsSound, EncoderIsFollowed
<1>2. UNCHANGED <<header, level, dimension>>
  BY DEF StreamsGrow
<1>3. /\ Axes' = Axes /\ NumPoints' = NumPoints /\ SelectAxis' = SelectAxis
      /\ SpaceIsNarrow' = SpaceIsNarrow
  BY <1>2, SameWalk
<1>4. /\ DOMAIN encodeStack' \subseteq DOMAIN encodeStack
      /\ \A i \in DOMAIN encodeStack' : encodeStack'[i] = encodeStack[i]
      /\ \A i \in DOMAIN encodeStack' : i # 1 => i - 1 \in DOMAIN encodeStack'
  <2>1. /\ Len(encodeStack) \in Nat \ {0} /\ DOMAIN encodeStack = 1 .. Len(encodeStack)
        /\ DOMAIN Front(encodeStack) = 1 .. Len(encodeStack) - 1
        /\ \A i \in 1 .. Len(encodeStack) - 1 : Front(encodeStack)[i] = encodeStack[i]
    BY <1>1, FrontParts
  <2>2. encodeStack' = Front(encodeStack)
    OBVIOUS
  <2> QED
    BY ONLY <2>1, <2>2
<1>5. Mirrors(e)'
  <2>1. e.stack = MirrorStack(encodeStack)'
    <3>1. e.stack = MirrorStack(Front(encodeStack))
      BY <1>1, MirroredTop
    <3> QED
      BY <3>1 DEF MirrorStack
  <2>2. tr[n].rows \in Seq([Axes -> Nat]) /\ Emitted(tr[n].rows, Finished(encodeStack))
    BY DEF Mirrors
  <2>3. e.rows \in Seq([Axes -> Nat])
    BY <2>2, ConcatProperties
  <2>4. Emitted(e.rows, Finished(Front(encodeStack)))
    <3>1. Emitted(tr[n].rows \o more, Finished(Front(encodeStack)))
      BY <1>1, <2>2, NodeIsEmitted
    <3> QED
      BY <3>1
  <2>5. Emitted(e.rows, Finished(encodeStack))'
    BY <2>4, <1>3 DEF Emitted, Finished
  <2>6. (e = [stack |-> MirrorStack(encodeStack), base |-> encodeBase, levels |-> encodeLevels,
              read |-> AllRead, rows |-> e.rows])'
    BY <2>1
  <2> QED
    BY <2>3, <2>5, <2>6, <1>3 DEF Mirrors
<1>6. Foretold'
  <2>2. Trace(tr, n)'
    BY TraceStays
  <2>3. PICK new : Trace(new, n + 1)' /\ new[n + 1] = e
    <3>1. Turn(tr[n], e)'
      OBVIOUS
    <3> QED
      BY ONLY <2>2, <3>1, OneMoreTurn
  <2> QED
    BY <1>5, <2>3 DEF Foretold
<1>7. SpaceIsNarrow' /\ (axes \in Seq(Fields))' /\ (halves \in Seq(Fields))'
  BY <1>3 DEF EncoderIsFollowed, Fields
<1>8. (NumPoints = Len(Job.points))' /\ Shuffled'
  BY <1>3 DEF EncoderIsFollowed, Shuffled, Job
<1>9. Abuts(encodeStack)'
  BY <1>1, <1>4 DEF Abuts
<1>10. (\A i \in DOMAIN encodeStack : TakesTurns(encodeStack[i], encodeLevels))'
  BY <1>3, <1>4 DEF EncoderIsFollowed, TakesTurns, InTurn
<1> QED
  BY <1>6, <1>7, <1>8, <1>9, <1>10 DEF EncoderIsFollowed

LEMMA PointsOfNode ==
  ASSUME EncoderIsSound, encodeStack # <<>>, NEW i \in 1 .. NodeSize
  PROVE  /\ points[Node.begin + i] \in [Axes -> Nat]
         /\ PointInCell(points[Node.begin + i], NodeBase, NodeLevels)
<1>1. /\ Node.begin \in Nat /\ Node.end \in Nat /\ Node.end <= Len(points)
      /\ NodeHoldsItsPoints(Node, points, encodeBase, encodeLevels)
      /\ points \in Seq([Axes -> Nat])
  BY TopOfEncoder DEF EncoderIsSound
<1>2. Node.begin + i \in Node.begin + 1 .. Node.end /\ Node.begin + i \in 1 .. Len(points)
  BY <1>1, LenProperties DEF NodeSize
<1> QED
  BY <1>1, <1>2, ElementOfSeq DEF NodeHoldsItsPoints, NodeBase, NodeLevels

LEMMA SizeOfNode ==
  ASSUME EncoderIsSound, encodeStack # <<>>
  PROVE  /\ NodeSize \in Nat /\ NodeSize \in 1 .. NumPoints /\ NodeSize = Node.end - Node.begin
         /\ Node.begin \in Nat /\ Node.end \in Nat /\ NumPoints \in Nat
         /\ BitLength \in Nat /\ dimension \in Nat \ {0}
<1>1. /\ Node.begin \in Nat /\ Node.end \in Nat /\ Node.begin < Node.end /\ Node.end <= NumPoints
      /\ NumPoints \in Nat
  BY TopOfEncoder, LenProperties DEF EncoderIsSound
<1> QED
  BY <1>1, WireAssumption DEF NodeSize, EncoderIsSound, SpaceIsSound

LEMMA EncodeKnownNodeIsFollowed ==
  ASSUME KdInv, EncoderIsFollowed, EncodeKnownNode
  PROVE  EncoderIsFollowed'
<1>1. /\ EncoderIsSound /\ encodeStack # <<>> /\ phase = "encode" /\ Popping
      /\ encodeStack' = Front(encodeStack) /\ NodeLevels[NodeAxis] = BitLength
      /\ UNCHANGED <<jobs, points, encodeBase, encodeLevels, halves>>
      /\ UNCHANGED <<header, level, dimension, numbers, remaining>>
  BY DEF KdInv, EncodeKnownNode, Popping
<1>2. PICK tr, n : Trace(tr, n) /\ Mirrors(tr[n])
  BY DEF EncoderIsFollowed, Foretold
<1>3. PICK d : d = tr[n]
  OBVIOUS
<1>4. PICK a : a = NodeAxis
  OBVIOUS
<1>5. /\ AxisIsTold(d, a)' /\ axes' \in Seq(Fields) /\ Extends(axes', axes)
      /\ ReadAxis(d)' = [AllRead EXCEPT !.axes = Len(axes')]
  BY <1>1, <1>2, <1>3, <1>4, AxisIsWritten DEF EncoderIsFollowed
<1>6. StreamsGrow
  <2>1. Len(remaining) \in Nat
    BY LenProperties DEF KdInv, WireIsSound
  <2> QED
    BY <1>1, <1>5, <2>1 DEF StreamsGrow, Extends
<1> DEFINE more == [i \in 1 .. NodeSize |-> NodeBase]
<1>7. /\ more \in Seq([Axes -> Nat]) /\ Len(more) = NodeSize
      /\ \A i \in 1 .. NodeSize : more[i] = points[Node.begin + i]
  <2>1. NodeBase \in [Axes -> Nat] /\ NodeSize \in Nat /\ CellIsSound(NodeBase, NodeLevels)
    BY <1>1, TopOfEncoder, SizeOfNode
  <2>2. more \in Seq([Axes -> Nat]) /\ Len(more) = NodeSize
    BY <2>1
  <2>3. ASSUME NEW i \in 1 .. NodeSize
        PROVE  NodeBase = points[Node.begin + i]
    <3> DEFINE point == points[Node.begin + i]
    <3>1. point \in [Axes -> Nat] /\ PointInCell(point, NodeBase, NodeLevels)
      BY <1>1, PointsOfNode
    <3>2. \A b \in Axes : NodeLevels[b] = BitLength
      <4>1. TakesTurns(Node, encodeLevels)
        BY <1>1, TopOfStack DEF EncoderIsFollowed, EncoderIsSound, Node
      <4> QED
        BY <1>1, <4>1, KnownIsKnownWhole
    <3>3. BitLength - BitLength = 0 /\ TwoTo[0] = 1
      BY <1>1, SizeOfNode, PowersDouble
    <3>4. ASSUME NEW b \in Axes
          PROVE  point[b] = NodeBase[b]
      <4>1. NodeBase[b] <= point[b] /\ point[b] < NodeBase[b] + 1
        BY <3>1, <3>2, <3>3 DEF PointInCell
      <4>2. point[b] \in Nat /\ NodeBase[b] \in Nat
        BY <3>1, <2>1
      <4> HIDE DEF point
      <4> QED
        BY <4>1, <4>2
    <3> HIDE DEF point
    <3>5. point = NodeBase
      BY <2>1, <3>1, <3>4
    <3> QED
      BY <3>5 DEF point
  <2> QED
    BY <2>2, <2>3
<1>8. PICK e : e = [stack |-> Front(tr[n].stack), base |-> encodeBase, levels |-> encodeLevels,
                    read |-> AllRead', rows |-> tr[n].rows \o more]
  OBVIOUS
<1>9. Turn(d, e)'
  <2>1. /\ d.stack # <<>> /\ LevelsOf(d) = NodeLevels /\ SizeOf(d) = NodeSize /\ BaseOf(d) = NodeBase
        /\ d.base = encodeBase /\ d.levels = encodeLevels
    BY <1>1, <1>2, <1>3, MirroredTop
  <2>2. BitLength' = BitLength /\ Axes' = Axes /\ a \in Axes
    BY <1>1, <1>4, SameWalk, TopOfEncoder
  <2>3. ReadAxis(d)' = AllRead'
    BY <1>1, <1>5 DEF AllRead
  <2>4. KnownTurn(d, a, e)'
    BY <1>1, <1>3, <1>4, <1>8, <2>1, <2>2, <2>3 DEF KnownTurn
  <2> QED
    BY <1>5, <2>1, <2>2, <2>4 DEF Turn
<1>10. Turn(tr[n], e)'
  BY <1>3, <1>9
<1> HIDE DEF more
<1> QED
  BY <1>1, <1>2, <1>5, <1>6, <1>7, <1>8, <1>10, LeafIsFollowed

(* The open bits of a point, as fields.                                    *)
LEMMA OpenBitsAreExact ==
  ASSUME EncoderIsSound, encodeStack # <<>>, NEW a, NEW order \in OpenAxesFrom(a, NodeLevels),
         NEW i \in 1 .. NodeSize
  PROVE  LET bits == OpenBits(order, points[Node.begin + i])
             m == Cardinality(OpenAxes(NodeLevels))
         IN  /\ bits \in Seq(Fields) /\ Len(bits) = m /\ m \in Nat
             /\ \A k \in 1 .. m :
                  /\ k \in DOMAIN order
                  /\ bits[k].width = BitLength - NodeLevels[order[k]]
                  /\ bits[k].value = points[Node.begin + i][order[k]] - NodeBase[order[k]]
                  /\ bits[k].value \in 0 .. TwoTo[bits[k].width] - 1
<1> DEFINE point == points[Node.begin + i]
           bits == OpenBits(order, point)
           m == Cardinality(OpenAxes(NodeLevels))
<1>1. /\ point \in [Axes -> Nat] /\ PointInCell(point, NodeBase, NodeLevels)
      /\ SpaceIsSound /\ BitLength \in Nat /\ CellIsSound(NodeBase, NodeLevels)
      /\ NodeLevels \in [Axes -> 0 .. BitLength]
  BY PointsOfNode, TopOfEncoder, SizeOfNode DEF EncoderIsSound
<1>2. /\ m \in Nat /\ DOMAIN order = 1 .. m /\ \A k \in DOMAIN order : order[k] \in Axes
  BY <1>1, OrderOfOpenAxes
<1>3. bits \in Seq(Fields)
  BY <1>1, OpenBitsAreFields
<1>4. DOMAIN bits = 1 .. m /\ Len(bits) = m
  <2>1. DOMAIN bits = 1 .. m
    BY <1>2 DEF OpenBits
  <2>2. DOMAIN bits = 1 .. Len(bits) /\ Len(bits) \in Nat
    BY <1>3, LenProperties
  <2> QED
    BY ONLY <2>1, <2>2, <1>2
<1>5. ASSUME NEW k \in 1 .. m
      PROVE  /\ k \in DOMAIN order
             /\ bits[k].width = BitLength - NodeLevels[order[k]]
             /\ bits[k].value = point[order[k]] - NodeBase[order[k]]
             /\ bits[k].value \in 0 .. TwoTo[bits[k].width] - 1
  <2>1. k \in DOMAIN order /\ order[k] \in Axes
    BY <1>2
  <2> DEFINE b == order[k]
             open == TwoTo[BitLength - NodeLevels[b]]
  <2>2. bits[k] = Field(BitLength - NodeLevels[b], point[b])
    BY <2>1 DEF OpenBits
  <2>3. bits[k].width = BitLength - NodeLevels[b] /\ bits[k].value = point[b] % open
    BY <2>2 DEF Field
  <2>4. point[b] - NodeBase[b] \in 0 .. open - 1 /\ point[b] % open = point[b] - NodeBase[b]
    <3> HIDE DEF b, point
    <3> QED
      BY <1>1, <2>1, OpenBitsOfAPoint DEF b
  <2> HIDE DEF bits
  <2> QED
    BY <2>1, <2>3, <2>4
<1> QED
  BY <1>2, <1>3, <1>4, <1>5

LEMMA EncodeSmallNodeIsFollowed ==
  ASSUME KdInv, EncoderIsFollowed, EncodeSmallNode
  PROVE  EncoderIsFollowed'
<1>1. /\ EncoderIsSound /\ encodeStack # <<>> /\ phase = "encode" /\ Popping
      /\ encodeStack' = Front(encodeStack)
      /\ NodeLevels[NodeAxis] < BitLength /\ NodeSize <= 2
      /\ UNCHANGED <<jobs, points, encodeBase, encodeLevels, halves>>
      /\ UNCHANGED <<header, level, dimension, numbers>>
  BY DEF KdInv, EncodeSmallNode, Popping
<1>2. PICK tr, n : Trace(tr, n) /\ Mirrors(tr[n])
  BY DEF EncoderIsFollowed, Foretold
<1>3. PICK d : d = tr[n]
  OBVIOUS
<1>4. PICK a : a = NodeAxis
  OBVIOUS
<1>5. /\ AxisIsTold(d, a)' /\ axes' \in Seq(Fields) /\ Extends(axes', axes)
      /\ ReadAxis(d)' = [AllRead EXCEPT !.axes = Len(axes')]
  BY <1>1, <1>2, <1>3, <1>4, AxisIsWritten DEF EncoderIsFollowed
<1>6. PICK order \in OpenAxesFrom(a, NodeLevels) :
        remaining' = remaining \o OpenBits(order, points[Node.begin + 1]) \o
          (IF NodeSize = 2 THEN OpenBits(order, points[Node.end]) ELSE <<>>)
  <2>1. EncodeSmallNode
    OBVIOUS
  <2>2. \E order \in OpenAxesFrom(NodeAxis, NodeLevels) :
          remaining' = remaining \o OpenBits(order, points[Node.begin + 1]) \o
            (IF NodeSize = 2 THEN OpenBits(order, points[Node.end]) ELSE <<>>)
    BY ONLY <2>1, Zenon DEF EncodeSmallNode
  <2> QED
    BY ONLY <2>2, <1>4, Zenon
<1> DEFINE m == Cardinality(OpenAxes(NodeLevels))
           one == OpenBits(order, points[Node.begin + 1])
           two == IF NodeSize = 2 THEN OpenBits(order, points[Node.begin + 2]) ELSE <<>>
           r == Len(remaining)
<1>7. /\ NodeSize \in 1 .. 2 /\ NodeSize \in Nat /\ remaining \in Seq(Fields) /\ r \in Nat
      /\ NodeSize = 2 => Node.begin + 2 = Node.end
      /\ BitLength \in Nat
  BY <1>1, SizeOfNode, LenProperties, SMTT(20) DEF KdInv, WireIsSound
<1>8. /\ one \in Seq(Fields) /\ Len(one) = m /\ m \in Nat
      /\ \A k \in 1 .. m :
           /\ one[k].width = BitLength - NodeLevels[order[k]]
           /\ one[k].value = points[Node.begin + 1][order[k]] - NodeBase[order[k]]
           /\ one[k].value \in 0 .. TwoTo[one[k].width] - 1
      /\ DOMAIN order = 1 .. m
  <2>1. 1 \in 1 .. NodeSize
    BY <1>7
  <2>2. DOMAIN order = 1 .. m
    BY <1>1, TopOfEncoder, OrderOfOpenAxes DEF EncoderIsSound
  <2> QED
    BY <1>1, <2>1, <2>2, OpenBitsAreExact
<1>9. /\ two \in Seq(Fields)
      /\ NodeSize = 1 => Len(two) = 0
      /\ NodeSize = 2 =>
           /\ Len(two) = m
           /\ \A k \in 1 .. m :
                /\ two[k].width = BitLength - NodeLevels[order[k]]
                /\ two[k].value = points[Node.begin + 2][order[k]] - NodeBase[order[k]]
                /\ two[k].value \in 0 .. TwoTo[two[k].width] - 1
  <2>1. CASE NodeSize = 2
    <3>1. 2 \in 1 .. NodeSize
      BY <2>1
    <3>2. two = OpenBits(order, points[Node.begin + 2])
      BY <2>1
    <3> QED
      BY <1>1, <2>1, <3>1, <3>2, OpenBitsAreExact
  <2>2. CASE NodeSize # 2
    <3>1. two = <<>>
      BY <2>2
    <3> HIDE DEF two
    <3> QED
      BY <2>2, <3>1
  <2> QED
    BY <2>1, <2>2
<1>10. remaining' = (remaining \o one) \o two
  BY <1>6, <1>7
<1> HIDE DEF one, two
<1>11. /\ Extends(remaining', remaining)
       /\ Len(remaining') = r + m + Len(two) /\ Len(two) \in Nat /\ Len(remaining') \in Nat
       /\ DOMAIN remaining' = 1 .. Len(remaining')
       /\ \A k \in 1 .. m : remaining'[r + k] = one[k]
       /\ \A k \in 1 .. Len(two) : remaining'[r + m + k] = two[k]
  <2> DEFINE s == remaining \o one
  <2>1. s \in Seq(Fields) /\ Len(s) = r + m /\ Extends(s, remaining)
    BY <1>7, <1>8, ConcatExtends
  <2>2. \A k \in 1 .. m : s[r + k] = one[k]
    BY <1>7, <1>8, ConcatParts
  <2>3. DOMAIN s = 1 .. Len(s) /\ Len(s) \in Nat
    BY <2>1, LenProperties
  <2> HIDE DEF s
  <2>4. /\ remaining' = s \o two
    BY <1>10 DEF s
  <2>5. /\ Extends(remaining', s) /\ Len(remaining') = Len(s) + Len(two) /\ remaining' \in Seq(Fields)
        /\ \A k \in 1 .. Len(two) : remaining'[Len(s) + k] = two[k]
        /\ Len(two) \in Nat
    <3>1. s \in Seq(Fields) /\ two \in Seq(Fields) /\ remaining' = s \o two
      BY <2>1, <2>4, <1>9
    <3>2. Extends(remaining', s) /\ Len(remaining') = Len(s) + Len(two) /\ remaining' \in Seq(Fields)
      BY ONLY <3>1, ConcatExtends
    <3>3. Len(two) \in Nat /\ \A k \in 1 .. Len(two) : remaining'[Len(s) + k] = two[k]
      BY ONLY <3>1, ConcatParts
    <3> QED
      BY <3>2, <3>3
  <2>6. Extends(remaining', remaining)
    BY <2>1, <2>5 DEF Extends
  <2>7. \A k \in 1 .. m : r + k \in DOMAIN s /\ remaining'[r + k] = one[k]
    BY <2>1, <2>2, <2>3, <2>5, <1>7, <1>8 DEF Extends
  <2> QED
    BY <2>1, <2>5, <2>6, <2>7, LenProperties
<1>12. StreamsGrow
  BY <1>1, <1>5, <1>7, <1>8, <1>11 DEF StreamsGrow, Extends
<1>0. PICK more : more = [i \in 1 .. NodeSize |-> points[Node.begin + i]]
  OBVIOUS
<1>13. /\ more \in Seq([Axes -> Nat]) /\ Len(more) = NodeSize
       /\ \A i \in 1 .. NodeSize : more[i] = points[Node.begin + i]
       /\ more \in [1 .. NodeSize -> [Axes -> Nat]]
  <2>1. \A i \in 1 .. NodeSize : points[Node.begin + i] \in [Axes -> Nat]
    BY <1>1, PointsOfNode
  <2>2. more \in [1 .. NodeSize -> [Axes -> Nat]]
    BY <2>1, <1>0
  <2> QED
    BY <2>2, <1>7, <1>0
<1>14. PICK e : e = [stack |-> Front(tr[n].stack), base |-> encodeBase, levels |-> encodeLevels,
                    read |-> AllRead', rows |-> tr[n].rows \o more]
  OBVIOUS
<1>15. Turn(d, e)'
  <2>1. /\ d.stack # <<>> /\ LevelsOf(d) = NodeLevels /\ SizeOf(d) = NodeSize /\ BaseOf(d) = NodeBase
        /\ d.base = encodeBase /\ d.levels = encodeLevels /\ d.read = AllRead
    BY <1>1, <1>2, <1>3, MirroredTop
  <2>2. BitLength' = BitLength /\ Axes' = Axes /\ a \in Axes
    BY <1>1, <1>4, SameWalk, TopOfEncoder
  <2>3. /\ OpenAxes(LevelsOf(d))' = OpenAxes(NodeLevels)
        /\ OpenAxesFrom(a, LevelsOf(d))' = OpenAxesFrom(a, NodeLevels)
        /\ Cardinality(OpenAxes(LevelsOf(d))') = m
    <3>1. /\ OpenAxes(LevelsOf(d))' = OpenAxes(LevelsOf(d))
          /\ OpenAxesFrom(a, LevelsOf(d))' = OpenAxesFrom(a, LevelsOf(d))
      BY <1>1, SameWalk
    <3> QED
      BY <3>1, <2>1
  <2>4. d.read.remaining = r
    BY <2>1 DEF AllRead
  <2>5. BitsAreWritten(d, order, more)'
    <3> SUFFICES ASSUME NEW i \in 1 .. NodeSize, NEW k \in 1 .. m
                 PROVE  FieldIs(remaining', r + (i - 1) * m + k - 1,
                                BitLength - NodeLevels[order[k]],
                                more[i][order[k]] - NodeBase[order[k]])
      <4>1. DOMAIN order = 1 .. m
        BY <1>8
      <4> HIDE DEF m, r
      <4> QED
        BY <4>1, <2>1, <2>2, <2>3, <2>4 DEF BitsAreWritten
    <3>1. CASE i = 1
      <4>1. r + (i - 1) * m + k - 1 + 1 = r + k
        BY <3>1, <1>7, <1>8
      <4>2. remaining'[r + k] = one[k] /\ r + k \in DOMAIN remaining'
        BY <1>7, <1>8, <1>11
      <4> QED
        BY <3>1, <4>1, <4>2, <1>8, <1>13 DEF FieldIs
    <3>2. CASE i # 1
      <4>1. i = 2 /\ NodeSize = 2
        BY <3>2, <1>7
      <4>2. r + (i - 1) * m + k - 1 + 1 = r + m + k
        BY <4>1, <1>7, <1>8
      <4>3. remaining'[r + m + k] = two[k] /\ r + m + k \in DOMAIN remaining'
        BY <4>1, <1>7, <1>8, <1>9, <1>11
      <4> QED
        BY <4>1, <4>2, <4>3, <1>9, <1>13, SMTT(20) DEF FieldIs
    <3> QED
      BY <3>1, <3>2
  <2>6. \A i \in 1 .. NodeSize : \A b \in Axes \ OpenAxes(NodeLevels) : more[i][b] = NodeBase[b]
    <3> SUFFICES ASSUME NEW i \in 1 .. NodeSize, NEW b \in Axes \ OpenAxes(NodeLevels)
                 PROVE  more[i][b] = NodeBase[b]
      OBVIOUS
    <3> DEFINE point == points[Node.begin + i]
    <3>1. /\ point \in [Axes -> Nat] /\ PointInCell(point, NodeBase, NodeLevels)
          /\ NodeLevels \in [Axes -> 0 .. BitLength] /\ NodeBase \in [Axes -> Nat]
      BY <1>1, PointsOfNode, TopOfEncoder
    <3>2. NodeLevels[b] = BitLength
      BY <3>1, <1>7 DEF OpenAxes, BitLength
    <3>3. BitLength - BitLength = 0 /\ TwoTo[0] = 1
      BY <1>7, PowersDouble
    <3>4. NodeBase[b] <= point[b] /\ point[b] < NodeBase[b] + 1
      BY <3>1, <3>2, <3>3 DEF PointInCell
    <3>5. point[b] \in Nat /\ NodeBase[b] \in Nat
      BY <3>1
    <3> HIDE DEF point
    <3>6. point[b] = NodeBase[b]
      BY <3>4, <3>5
    <3> QED
      BY <3>6, <1>13 DEF point
  <2>7. r + NodeSize * m \in 0 .. Len(remaining') /\ Len(remaining') = r + NodeSize * m
    <3>1. CASE NodeSize = 1
      BY <3>1, <1>7, <1>8, <1>9, <1>11
    <3>2. CASE NodeSize = 2
      BY <3>2, <1>7, <1>8, <1>9, <1>11
    <3> QED
      BY <3>1, <3>2, <1>7
  <2>8. [ReadAxis(d)' EXCEPT !.remaining = @ + NodeSize * m] = AllRead'
    <3>1. ReadAxis(d)' = [numbers |-> Len(numbers'), remaining |-> r, axes |-> Len(axes'), halves |-> Len(halves')]
      BY <1>1, <1>5 DEF AllRead
    <3>2. [ReadAxis(d)' EXCEPT !.remaining = @ + NodeSize * m]
            = [numbers |-> Len(numbers'), remaining |-> r + NodeSize * m, axes |-> Len(axes'), halves |-> Len(halves')]
      BY <3>1
    <3> QED
      BY <3>2, <2>7 DEF AllRead
  <2>9. SmallTurn(d, a, e)'
    <3>1. NodeLevels[a] < BitLength' /\ NodeSize <= 2
      BY <1>1, <1>4, <2>2
    <3>2. order \in OpenAxesFrom(a, LevelsOf(d))' /\ more \in [1 .. NodeSize -> [Axes' -> Nat]]
      BY <1>13, <2>2, <2>3
    <3>3. e = [stack |-> Front(d.stack), base |-> d.base, levels |-> d.levels,
               read |-> [ReadAxis(d)' EXCEPT !.remaining = @ + NodeSize * m],
               rows |-> d.rows \o more]
      BY <1>3, <1>14, <2>1, <2>8
    <3>4. d.read.remaining + SizeOf(d) * Cardinality(OpenAxes(LevelsOf(d))') \in 0 .. Len(remaining')
      BY <2>1, <2>3, <2>4, <2>7
    <3>5. \A i \in 1 .. SizeOf(d) : \A b \in Axes' \ OpenAxes(LevelsOf(d))' : more[i][b] = BaseOf(d)[b]
      BY <2>1, <2>2, <2>3, <2>6
    <3>6. LevelsOf(d)[a] < BitLength' /\ SizeOf(d) <= 2
      BY <3>1, <2>1
    <3>7. e = [stack |-> Front(d.stack), base |-> d.base, levels |-> d.levels,
               read |-> [ReadAxis(d)' EXCEPT !.remaining =
                           @ + SizeOf(d) * Cardinality(OpenAxes(LevelsOf(d))')],
               rows |-> d.rows \o more]
      BY <3>3, <2>1, <2>3
    <3>8. more \in [1 .. SizeOf(d) -> [Axes' -> Nat]]
      BY <3>2, <2>1
    <3> QED
      BY <2>5, <3>2, <3>4, <3>5, <3>6, <3>7, <3>8 DEF SmallTurn
  <2> QED
    BY <1>5, <2>1, <2>2, <2>9 DEF Turn
<1>16. Turn(tr[n], e)'
  BY <1>3, <1>15
<1> QED
  BY <1>1, <1>2, <1>5, <1>12, <1>13, <1>14, <1>16, LeafIsFollowed

-----------------------------------------------------------------------------
(* A node is split.                                                        *)

SplitIs(a, low, c, d, left, right) ==
  LET pos == Node.stackPos
      deeper == [NodeLevels EXCEPT ![a] = @ + 1]
  IN  /\ a = NodeAxis /\ low \in SUBSET NodePoints
      /\ left = [begin |-> Node.begin, end |-> Node.begin + c, lastAxis |-> a, stackPos |-> pos]
      /\ right = [begin |-> Node.begin + c, end |-> Node.end, lastAxis |-> a, stackPos |-> pos + 1]
      /\ c \in Nat /\ d \in Nat /\ c + d = NodeSize
      /\ WriteHalves(c, d) /\ Partition(low, Node.begin + c)
      /\ encodeBase' = [encodeBase EXCEPT ![pos + 1] =
                          [NodeBase EXCEPT ![a] = @ + Half(NodeLevels, a)]]
      /\ encodeLevels' = [encodeLevels EXCEPT ![pos] = deeper, ![pos + 1] = deeper]
      /\ encodeStack' = Front(encodeStack) \o Push(IfAny(c, left), IfAny(d, right))

LEMMA SplitHasParts ==
  ASSUME EncoderIsSound, SplitNode
  PROVE  \E a, low, c, d, left, right : SplitIs(a, low, c, d, left, right)
<1>1. PICK a \in {NodeAxis} : \E split \in {NodeBase[a] + Half(NodeLevels, a)} :
        \E low \in {LowPoints(a, split)} : SplitInto(a, split, low)
  BY DEF SplitNode
<1>2. PICK split \in {NodeBase[a] + Half(NodeLevels, a)} :
        \E low \in {LowPoints(a, split)} : SplitInto(a, split, low)
  BY <1>1
<1>3. PICK low \in {LowPoints(a, split)} : SplitInto(a, split, low)
  BY <1>2
<1>4. encodeStack # <<>>
  BY DEF SplitNode, Popping
<1>5. /\ Node.begin \in Nat /\ Node.end \in Nat /\ Node.begin < Node.end
      /\ NodeSize \in Nat /\ NodeSize = Node.end - Node.begin
  BY <1>4, TopOfEncoder, SizeOfNode
<1>6. low \in SUBSET NodePoints /\ Cardinality(low) \in 0 .. NodeSize
  <2>1. Node.begin <= Node.end
    BY <1>5
  <2> QED
    BY <1>3, <1>5, <2>1, LowPointsCount
<1>7. PICK c : c = Cardinality(low)
  OBVIOUS
<1>8. PICK middle : middle = Node.begin + c
  OBVIOUS
<1>9. PICK d : d = Node.end - middle
  OBVIOUS
<1>10. /\ c \in Nat /\ d \in Nat /\ c + d = NodeSize /\ middle - Node.begin = c
  BY <1>5, <1>6, <1>7, <1>8, <1>9
<1> DEFINE pos == Node.stackPos
           left == [begin |-> Node.begin, end |-> middle, lastAxis |-> a, stackPos |-> pos]
           right == [begin |-> middle, end |-> Node.end, lastAxis |-> a, stackPos |-> pos + 1]
           deeper == [NodeLevels EXCEPT ![a] = @ + 1]
<1>11. /\ WriteHalves(c, d) /\ Partition(low, middle)
       /\ encodeBase' = [encodeBase EXCEPT ![pos + 1] = [NodeBase EXCEPT ![a] = split]]
       /\ encodeLevels' = [encodeLevels EXCEPT ![pos] = deeper, ![pos + 1] = deeper]
       /\ encodeStack' = Front(encodeStack) \o Push(IfAny(c, left), IfAny(d, right))
  <2>1. /\ WriteHalves(middle - Node.begin, Node.end - middle) /\ Partition(low, middle)
        /\ encodeBase' = [encodeBase EXCEPT ![pos + 1] = [NodeBase EXCEPT ![a] = split]]
        /\ encodeLevels' = [encodeLevels EXCEPT ![pos] = deeper, ![pos + 1] = deeper]
        /\ encodeStack' = Front(encodeStack) \o
             Push(IfAny(middle - Node.begin, left), IfAny(Node.end - middle, right))
    BY <1>3, <1>7, <1>8 DEF SplitInto
  <2> QED
    BY <2>1, <1>9, <1>10
<1>12. [NodeBase EXCEPT ![a] = split] = [NodeBase EXCEPT ![a] = @ + Half(NodeLevels, a)]
  BY <1>2
<1>13. SplitIs(a, low, c, d, left, right)
  BY <1>1, <1>6, <1>8, <1>10, <1>11, <1>12 DEF SplitIs
<1> QED
  BY <1>13

(* The stack after a split.                                                *)
StackIsSplit(a, c, d, left, right) ==
  LET s == encodeStack
      new == encodeStack'
      m == Len(encodeStack) - 1
  IN  /\ left \in EncodeNodes /\ right \in EncodeNodes /\ a \in Axes
      /\ new \in Seq(EncodeNodes) /\ DOMAIN new = 1 .. Len(new) /\ m \in Nat
      /\ Len(new) = m + (IF c > 0 THEN 1 ELSE 0) + (IF d > 0 THEN 1 ELSE 0)
      /\ \A i \in 1 .. m : i \in DOMAIN s /\ i < Len(s) /\ new[i] = s[i]
      /\ c > 0 => new[m + 1] = left
      /\ d > 0 => new[Len(new)] = right
      /\ Node = s[m + 1] /\ m + 1 \in DOMAIN s
      /\ c + d = NodeSize /\ NodeSize > 0

LEMMA SplitStack ==
  ASSUME EncoderIsSound, encodeStack # <<>>,
         NEW a, NEW low, NEW c, NEW d, NEW left, NEW right,
         SplitIs(a, low, c, d, left, right)
  PROVE  StackIsSplit(a, c, d, left, right)
<1>1. /\ Node.begin \in Nat /\ Node.end \in Nat /\ NodeSize = Node.end - Node.begin
      /\ NodeSize \in Nat /\ NodeSize > 0 /\ Node.stackPos \in Nat /\ NodeAxis \in Axes
      /\ encodeStack \in Seq(EncodeNodes)
  BY TopOfEncoder, SizeOfNode DEF EncoderIsSound
<1>2. /\ a = NodeAxis /\ c \in Nat /\ d \in Nat /\ c + d = NodeSize
      /\ left = [begin |-> Node.begin, end |-> Node.begin + c, lastAxis |-> a,
                 stackPos |-> Node.stackPos]
      /\ right = [begin |-> Node.begin + c, end |-> Node.end, lastAxis |-> a,
                  stackPos |-> Node.stackPos + 1]
      /\ encodeStack' = Front(encodeStack) \o Push(IfAny(c, left), IfAny(d, right))
  BY DEF SplitIs
<1>3. left \in EncodeNodes /\ right \in EncodeNodes
  <2>1. /\ Node.begin + c \in Nat /\ Node.stackPos + 1 \in Nat /\ a \in Axes
        /\ Node.begin \in Nat /\ Node.end \in Nat /\ Node.stackPos \in Nat
    <3>1. c \in Nat /\ a = NodeAxis
      BY <1>2
    <3>2. /\ Node.begin \in Nat /\ Node.end \in Nat /\ Node.stackPos \in Nat
          /\ NodeAxis \in Axes
      BY <1>1
    <3> QED
      BY ONLY <3>1, <3>2
  <2>2. /\ left = [begin |-> Node.begin, end |-> Node.begin + c, lastAxis |-> a,
                   stackPos |-> Node.stackPos]
        /\ right = [begin |-> Node.begin + c, end |-> Node.end, lastAxis |-> a,
                    stackPos |-> Node.stackPos + 1]
    BY <1>2
  <2> QED
    BY ONLY <2>1, <2>2 DEF EncodeNodes
<1>4. encodeStack' \in Seq(EncodeNodes) /\ Replaced(encodeStack, encodeStack', left, c, right, d)
  BY ONLY <1>1, <1>2, <1>3, encodeStack # <<>>, PushReplacesTop
<1> DEFINE m == Len(encodeStack) - 1
<1>5. /\ m \in Nat /\ Len(encodeStack) = m + 1 /\ DOMAIN encodeStack = 1 .. m + 1
      /\ Node = encodeStack[Len(encodeStack)]
  BY <1>1, FrontParts DEF Node, Last
<1>6. \A i \in 1 .. m : i \in 1 .. m + 1 /\ i < m + 1
  BY <1>5
<1>7. /\ Len(encodeStack') = m + (IF c > 0 THEN 1 ELSE 0) + (IF d > 0 THEN 1 ELSE 0)
      /\ \A i \in 1 .. m : encodeStack'[i] = encodeStack[i]
      /\ c > 0 => encodeStack'[m + 1] = left
      /\ d > 0 => encodeStack'[Len(encodeStack')] = right
  BY <1>4 DEF Replaced
<1>8. DOMAIN encodeStack' = 1 .. Len(encodeStack')
  BY <1>4, LenProperties
<1>9. m + 1 \in 1 .. m + 1
  BY <1>5
<1> HIDE DEF m
<1> QED
  BY <1>1, <1>2, <1>3, <1>4, <1>5, <1>6, <1>7, <1>8, <1>9, ZenonT(40) DEF m, StackIsSplit

LEMMA SplitAbuts ==
  ASSUME EncoderIsSound, encodeStack # <<>>, Abuts(encodeStack),
         NEW a, NEW low, NEW c, NEW d, NEW left, NEW right,
         SplitIs(a, low, c, d, left, right)
  PROVE  Abuts(encodeStack') /\ Finished(encodeStack') = Node.end
<1> DEFINE s == encodeStack
           new == encodeStack'
           m == Len(encodeStack) - 1
<1>1. /\ new \in Seq(EncodeNodes) /\ DOMAIN new = 1 .. Len(new) /\ m \in Nat
      /\ Len(new) = m + (IF c > 0 THEN 1 ELSE 0) + (IF d > 0 THEN 1 ELSE 0)
      /\ \A i \in 1 .. m : i \in DOMAIN s /\ i < Len(s) /\ new[i] = s[i]
      /\ c > 0 => new[m + 1] = left
      /\ d > 0 => new[Len(new)] = right
      /\ Node = s[m + 1] /\ m + 1 \in DOMAIN s
      /\ c + d = NodeSize /\ NodeSize > 0
  <2>1. StackIsSplit(a, c, d, left, right)
    BY SplitStack
  <2> QED
    BY <2>1 DEF StackIsSplit
<1>2. /\ c \in Nat /\ d \in Nat
      /\ left.begin = Node.begin /\ left.end = Node.begin + c
      /\ right.begin = Node.begin + c /\ right.end = Node.end
      /\ Node.begin \in Nat /\ Node.end \in Nat /\ NodeSize = Node.end - Node.begin
  BY SizeOfNode DEF SplitIs
<1>3. \A i \in DOMAIN s : s[i].begin = IF i = 1 THEN 0 ELSE s[i - 1].end
  BY DEF Abuts
<1> HIDE DEF s, new, m
<1>4. Node.begin = IF m = 0 THEN 0 ELSE new[m].end
  <2>1. Node.begin = IF m + 1 = 1 THEN 0 ELSE s[m + 1 - 1].end
    BY <1>1, <1>3
  <2>2. CASE m = 0
    BY <2>1, <2>2
  <2>3. CASE m # 0
    <3>1. m + 1 - 1 = m /\ m + 1 # 1 /\ m \in 1 .. m
      BY <1>1, <2>3
    <3> QED
      BY <2>1, <2>3, <3>1, <1>1
  <2> QED
    BY <2>2, <2>3
<1>5. ASSUME NEW i \in DOMAIN new
      PROVE  new[i].begin = IF i = 1 THEN 0 ELSE new[i - 1].end
  <2>1. CASE i \in 1 .. m
    <3>1. new[i] = s[i] /\ i \in DOMAIN s
      BY <2>1, <1>1
    <3>2. i # 1 => i - 1 \in 1 .. m
      BY <2>1, <1>1
    <3>3. i # 1 => new[i - 1] = s[i - 1]
      BY <3>2, <1>1
    <3> QED
      BY <3>1, <3>3, <1>3
  <2>2. CASE i = m + 1
    <3>1. new[i].begin = Node.begin
      <4>1. CASE c > 0
        BY <4>1, <2>2, <1>1, <1>2
      <4>2. CASE c = 0
        <5>1. Len(new) = m + 1 /\ d > 0
          BY <4>2, <1>1, <1>2
        <5> QED
          BY <5>1, <4>2, <2>2, <1>1, <1>2
      <4> QED
        BY <4>1, <4>2, <1>2
    <3>2. (i = 1 <=> m = 0) /\ i - 1 = m
      BY <2>2, <1>1
    <3> QED
      BY <3>1, <3>2, <1>4
  <2>3. CASE i > m + 1
    <3>1. c > 0 /\ d > 0 /\ i = m + 2 /\ Len(new) = m + 2
      BY <2>3, <1>1, <1>2
    <3>2. new[i] = right /\ i - 1 = m + 1 /\ i # 1 /\ new[i - 1] = left
      BY <3>1, <1>1
    <3> QED
      BY <3>2, <1>2
  <2>4. i \in 1 .. m \/ i = m + 1 \/ i > m + 1
    BY <1>1
  <2> QED
    BY <2>1, <2>2, <2>3, <2>4
<1>6. Finished(new) = Node.end
  <2>1. new # <<>> /\ Last(new) = new[Len(new)]
    <3>1. Len(new) # 0
      BY <1>1, <1>2
    <3> QED
      BY <1>1, <3>1, EmptySeq DEF Last
  <2>2. CASE d > 0
    BY <2>1, <2>2, <1>1, <1>2 DEF Finished
  <2>3. CASE d = 0
    <3>1. c > 0 /\ Len(new) = m + 1 /\ Node.begin + c = Node.end
      BY <2>3, <1>1, <1>2
    <3> QED
      BY <2>1, <3>1, <1>1, <1>2 DEF Finished
  <2> QED
    BY <2>2, <2>3, <1>2
<1> QED
  BY <1>5, <1>6 DEF Abuts, new

(* The levels and bases after a split.                                     *)
ScratchIsSplit(a, deeper) ==
  /\ a \in Axes /\ Node.stackPos \in Nat
  /\ encodeLevels'[Node.stackPos] = deeper /\ encodeLevels'[Node.stackPos + 1] = deeper
  /\ \A p : p \in Positions /\ p < Node.stackPos => encodeLevels'[p] = encodeLevels[p]

LEMMA SplitScratch ==
  ASSUME EncoderIsSound, encodeStack # <<>>, NodeLevels[NodeAxis] < BitLength,
         NEW a, NEW low, NEW c, NEW d, NEW left, NEW right,
         SplitIs(a, low, c, d, left, right),
         NEW deeper, deeper = [NodeLevels EXCEPT ![a] = @ + 1]
  PROVE  ScratchIsSplit(a, deeper)
<1> DEFINE pos == Node.stackPos
<1>1. /\ a = NodeAxis /\ a \in Axes /\ NodeLevels \in [Axes -> 0 .. BitLength]
      /\ pos \in Positions /\ pos \in Nat /\ pos <= Cardinality(KnownBits(NodeLevels))
      /\ SpaceIsSound /\ DOMAIN encodeLevels = Positions
  BY TopOfEncoder DEF SplitIs, EncoderIsSound, CellsAreSound
<1>2. pos + 1 \in Positions
  BY <1>1, NextPositionExists
<1>3. encodeLevels' = [encodeLevels EXCEPT ![pos] = deeper, ![pos + 1] = deeper]
  BY DEF SplitIs
<1>4. pos # pos + 1
  BY <1>1
<1>5. \A p : p \in Positions /\ p < pos => p # pos /\ p # pos + 1
  BY <1>1 DEF Positions
<1> HIDE DEF pos
<1>6. encodeLevels'[pos] = deeper /\ encodeLevels'[pos + 1] = deeper
  BY <1>1, <1>2, <1>3, <1>4
<1>7. \A p : p \in Positions /\ p < pos => encodeLevels'[p] = encodeLevels[p]
  BY <1>1, <1>3, <1>5
<1> QED
  BY <1>1, <1>6, <1>7 DEF pos, ScratchIsSplit

LEMMA NextInTurn ==
  ASSUME dimension \in Nat \ {0}, NEW levels \in [Axes -> Nat],
         NEW last \in Axes, InTurn(levels, last), NEW a, a = IncrementMod(last, dimension),
         NEW deeper, deeper = [levels EXCEPT ![a] = @ + 1]
  PROVE  InTurn(deeper, a)
<1>1. last \in 0 .. dimension - 1 /\ 0 \in Axes
  BY DEF Axes
<1>2. a = IF last + 1 >= dimension THEN 0 ELSE last + 1
  BY DEF IncrementMod
<1>3. a \in Axes
  BY <1>1, <1>2 DEF Axes
<1>4. /\ deeper[a] = levels[a] + 1 /\ \A b \in Axes \ {a} : deeper[b] = levels[b]
      /\ \A b \in Axes : levels[b] \in Nat
  BY <1>3
<1>5. \A b \in Axes : levels[b] = IF 1 <= b /\ b <= last THEN levels[0] + 1 ELSE levels[0]
  BY DEF InTurn
<1>6. SUFFICES ASSUME NEW b \in Axes
               PROVE  deeper[b] = IF 1 <= b /\ b <= a THEN deeper[0] + 1 ELSE deeper[0]
  BY DEF InTurn
<1>7. b \in 0 .. dimension - 1
  BY DEF Axes
<1>8. CASE a = 0
  <2>1. last + 1 >= dimension /\ ~(1 <= b /\ b <= a)
    BY <1>1, <1>2, <1>7, <1>8
  <2>2. levels[0] = levels[0] /\ deeper[0] = levels[0] + 1
    BY <1>4, <1>8
  <2>3. CASE b = 0
    BY <2>1, <2>3
  <2>4. CASE b # 0
    <3>1. 1 <= b /\ b <= last
      BY <1>1, <1>7, <2>1, <2>4
    <3>2. deeper[b] = levels[b] /\ levels[b] = levels[0] + 1
      BY <3>1, <2>4, <1>4, <1>5, <1>8
    <3> QED
      BY <3>2, <2>1, <2>2
  <2> QED
    BY <2>3, <2>4
<1>9. CASE a # 0
  <2>1. a = last + 1
    BY <1>2, <1>9
  <2>2. deeper[0] = levels[0]
    BY <1>1, <1>4, <1>9
  <2>3. CASE b = a
    <3>1. 1 <= b /\ b <= a /\ ~(b <= last)
      BY <1>1, <2>1, <2>3
    <3>2. deeper[b] = levels[b] + 1 /\ levels[b] = levels[0]
      BY <3>1, <2>3, <1>4, <1>5
    <3> QED
      BY <3>1, <3>2, <2>2
  <2>4. CASE b # a
    <3>1. deeper[b] = levels[b]
      BY <2>4, <1>4
    <3>2. (1 <= b /\ b <= a) <=> (1 <= b /\ b <= last)
      BY <1>1, <1>7, <2>1, <2>4
    <3> QED
      BY <3>1, <3>2, <2>2, <1>5
  <2> QED
    BY <2>3, <2>4
<1> QED
  BY <1>8, <1>9

LEMMA SplitTakesTurns ==
  ASSUME EncoderIsSound, encodeStack # <<>>, NodeLevels[NodeAxis] < BitLength,
         \A i \in DOMAIN encodeStack : TakesTurns(encodeStack[i], encodeLevels),
         NEW a, NEW low, NEW c, NEW d, NEW left, NEW right,
         SplitIs(a, low, c, d, left, right)
  PROVE  \A i \in DOMAIN encodeStack' : TakesTurns(encodeStack'[i], encodeLevels')
<1> SUFFICES ASSUME ~SelectAxis, NEW i \in DOMAIN encodeStack'
             PROVE  InTurn(encodeLevels'[encodeStack'[i].stackPos], encodeStack'[i].lastAxis)
  BY DEF TakesTurns
<1>1. PICK deeper : deeper = [NodeLevels EXCEPT ![a] = @ + 1]
  OBVIOUS
<1> DEFINE s == encodeStack
           new == encodeStack'
           m == Len(encodeStack) - 1
           pos == Node.stackPos
<1>2. /\ a \in Axes /\ pos \in Nat
      /\ encodeLevels'[pos] = deeper /\ encodeLevels'[pos + 1] = deeper
      /\ \A p : p \in Positions /\ p < pos => encodeLevels'[p] = encodeLevels[p]
  <2>1. ScratchIsSplit(a, deeper)
    BY <1>1, SplitScratch
  <2> QED
    BY <2>1 DEF ScratchIsSplit
<1>3. /\ DOMAIN new = 1 .. Len(new) /\ m \in Nat
      /\ Len(new) = m + (IF c > 0 THEN 1 ELSE 0) + (IF d > 0 THEN 1 ELSE 0)
      /\ \A k \in 1 .. m : k \in DOMAIN s /\ k < Len(s) /\ new[k] = s[k]
      /\ c > 0 => new[m + 1] = left
      /\ d > 0 => new[Len(new)] = right
      /\ Node = s[m + 1] /\ m + 1 \in DOMAIN s
  <2>1. StackIsSplit(a, c, d, left, right)
    BY SplitStack
  <2> QED
    BY <2>1 DEF StackIsSplit
<1>4. /\ c \in Nat /\ d \in Nat
      /\ left.stackPos = pos /\ left.lastAxis = a
      /\ right.stackPos = pos + 1 /\ right.lastAxis = a /\ a = NodeAxis
  BY DEF SplitIs
<1>5. /\ \A k \in DOMAIN s : InTurn(encodeLevels[s[k].stackPos], s[k].lastAxis)
      /\ \A k \in DOMAIN s : s[k].stackPos \in Positions
      /\ \A k \in DOMAIN s : k < m + 1 => s[k].stackPos < pos
  <2>1. \A j, k \in DOMAIN s : j < k => s[j].stackPos < s[k].stackPos
    BY DEF EncoderIsSound, NodesAreDeep
  <2>2. \A k \in DOMAIN s : s[k].stackPos \in Positions
    BY DEF EncoderIsSound, NodesAreDeep
  <2> QED
    BY <1>3, <2>1, <2>2 DEF TakesTurns
<1>6. InTurn(deeper, a)
  <2>1. InTurn(NodeLevels, Node.lastAxis)
    BY <1>3, <1>5 DEF NodeLevels
  <2>2. a = IncrementMod(Node.lastAxis, dimension)
    BY <1>4 DEF NodeAxis
  <2>3. NodeLevels \in [Axes -> 0 .. BitLength] /\ Node.lastAxis \in Axes
        /\ dimension \in Nat \ {0} /\ BitLength \in Nat
    BY TopOfEncoder, SizeOfNode
  <2>4. NodeLevels \in [Axes -> Nat]
    BY <2>3
  <2> QED
    BY <1>1, <2>1, <2>2, <2>3, <2>4, NextInTurn
<1> HIDE DEF new, s, m, pos
<1>7. CASE i \in 1 .. m
  <2>1. i \in DOMAIN s /\ i < m + 1 /\ new[i] = s[i]
    BY <1>3, <1>7
  <2> QED
    BY <2>1, <1>2, <1>5 DEF new
<1>8. CASE i = m + 1 /\ c > 0
  BY <1>2, <1>3, <1>4, <1>6, <1>8 DEF new
<1>9. CASE i = Len(new) /\ d > 0
  BY <1>2, <1>3, <1>4, <1>6, <1>9 DEF new
<1>10. i \in 1 .. Len(new)
  BY <1>3 DEF new
<1> QED
  BY <1>3, <1>4, <1>7, <1>8, <1>9, <1>10

(* The stacks are split alike.                                             *)
MirrorNodes == [numRemainingPoints : Int, lastAxis : Axes, stackPos : Nat]

LEMMA MirrorIsASeq ==
  ASSUME NEW s \in Seq(EncodeNodes)
  PROVE  /\ MirrorStack(s) \in Seq(MirrorNodes) /\ Len(MirrorStack(s)) = Len(s) /\ Len(s) \in Nat
         /\ \A i \in 1 .. Len(s) : MirrorStack(s)[i]
              = CellOf(s[i].end - s[i].begin, s[i].lastAxis, s[i].stackPos)
<1> DEFINE t == MirrorStack(s)
<1>1. Len(s) \in Nat /\ DOMAIN s = 1 .. Len(s) /\ s \in [1 .. Len(s) -> EncodeNodes]
  BY LenProperties
<1>2. /\ t = [i \in 1 .. Len(s) |-> CellOf(s[i].end - s[i].begin, s[i].lastAxis, s[i].stackPos)]
  BY <1>1 DEF MirrorStack
<1>3. ASSUME NEW i \in 1 .. Len(s)
      PROVE  CellOf(s[i].end - s[i].begin, s[i].lastAxis, s[i].stackPos) \in MirrorNodes
  <2>1. s[i] \in EncodeNodes
    BY <1>1
  <2>2. s[i].end \in Nat /\ s[i].begin \in Nat /\ s[i].lastAxis \in Axes /\ s[i].stackPos \in Nat
    BY <2>1 DEF EncodeNodes
  <2>3. s[i].end - s[i].begin \in Int
    BY <2>2
  <2> QED
    BY <2>2, <2>3 DEF CellOf, MirrorNodes
<1>4. t \in [1 .. Len(s) -> MirrorNodes]
  BY <1>2, <1>3
<1> QED
  BY <1>1, <1>2, <1>4

LEMMA MirrorConcat ==
  ASSUME NEW s \in Seq(EncodeNodes), NEW t \in Seq(EncodeNodes)
  PROVE  MirrorStack(s \o t) = MirrorStack(s) \o MirrorStack(t)
<1> DEFINE l == Len(s)
           n == Len(t)
           all == s \o t
           ms == MirrorStack(s)
           mt == MirrorStack(t)
           left == MirrorStack(s \o t)
           right == MirrorStack(s) \o MirrorStack(t)
           cell(x) == CellOf(x.end - x.begin, x.lastAxis, x.stackPos)
<1>1. /\ ms \in Seq(MirrorNodes) /\ Len(ms) = l /\ l \in Nat
      /\ \A i \in 1 .. l : ms[i] = cell(s[i])
  BY MirrorIsASeq
<1>2. /\ mt \in Seq(MirrorNodes) /\ Len(mt) = n /\ n \in Nat
      /\ \A i \in 1 .. n : mt[i] = cell(t[i])
  BY MirrorIsASeq
<1>3. /\ all \in Seq(EncodeNodes) /\ Len(all) = l + n
      /\ \A i \in 1 .. l : all[i] = s[i]
      /\ \A i \in 1 .. n : all[l + i] = t[i]
  BY ConcatProperties, ConcatParts
<1>4. /\ left \in Seq(MirrorNodes) /\ Len(left) = l + n
      /\ \A i \in 1 .. l + n : left[i] = cell(all[i])
  <2> HIDE DEF cell, l, n
  <2>1. /\ MirrorStack(all) \in Seq(MirrorNodes) /\ Len(MirrorStack(all)) = Len(all)
        /\ \A i \in 1 .. Len(all) : MirrorStack(all)[i]
              = CellOf(all[i].end - all[i].begin, all[i].lastAxis, all[i].stackPos)
    <3> HIDE DEF all
    <3> QED
      BY <1>3, MirrorIsASeq
  <2> QED
    BY <2>1, <1>3 DEF cell
<1>5. /\ right \in Seq(MirrorNodes) /\ Len(right) = l + n
      /\ \A i \in 1 .. l : right[i] = ms[i]
      /\ \A i \in 1 .. n : right[l + i] = mt[i]
  <2> HIDE DEF cell, l, n, all, left
  <2>1. ms \in Seq(MirrorNodes) /\ mt \in Seq(MirrorNodes)
    BY <1>1, <1>2
  <2>2. right = ms \o mt
    OBVIOUS
  <2> HIDE DEF ms, mt, right
  <2>3. /\ right \in Seq(MirrorNodes) /\ Len(right) = Len(ms) + Len(mt)
        /\ \A i \in 1 .. Len(ms) : right[i] = ms[i]
        /\ \A i \in 1 .. Len(mt) : right[Len(ms) + i] = mt[i]
    BY <2>1, <2>2, ConcatProperties, ConcatParts
  <2> QED
    BY <2>3, <1>1, <1>2
<1> HIDE DEF l, n, all, ms, mt, left, right, cell
<1>6. ASSUME NEW i \in 1 .. l + n
      PROVE  left[i] = right[i]
  <2>1. CASE i \in 1 .. l
    BY <2>1, <1>1, <1>3, <1>4, <1>5
  <2>2. CASE i \notin 1 .. l
    <3>1. i - l \in 1 .. n /\ l + (i - l) = i
      BY <2>2, <1>1, <1>2
    <3> QED
      BY <3>1, <1>2, <1>3, <1>4, <1>5, SMTT(20)
  <2> QED
    BY <2>1, <2>2
<1>7. left = right
  BY <1>4, <1>5, <1>6, SeqEqual
<1> QED
  BY <1>7 DEF left, right

LEMMA MirrorOfOne ==
  ASSUME NEW x \in EncodeNodes, NEW c \in Nat, c = x.end - x.begin,
         NEW y, y = CellOf(c, x.lastAxis, x.stackPos)
  PROVE  MirrorStack(IfAny(c, x)) = IfAny(c, y) /\ IfAny(c, x) \in Seq(EncodeNodes)
<1>1. CASE c > 0
  <2>1. IfAny(c, x) = <<x>> /\ IfAny(c, y) = <<y>>
    BY <1>1 DEF IfAny
  <2>2. DOMAIN <<x>> = 1 .. 1 /\ <<x>>[1] = x /\ <<x>> \in Seq(EncodeNodes)
    OBVIOUS
  <2>3. MirrorStack(<<x>>) = [i \in 1 .. 1 |-> y]
    BY <2>2 DEF MirrorStack
  <2>4. [i \in 1 .. 1 |-> y] = <<y>>
    OBVIOUS
  <2> QED
    BY <2>1, <2>2, <2>3, <2>4
<1>2. CASE ~(c > 0)
  <2>1. IfAny(c, x) = <<>> /\ IfAny(c, y) = <<>>
    BY <1>2 DEF IfAny
  <2>2. MirrorStack(<<>>) = <<>>
    BY DEF MirrorStack
  <2>3. <<>> \in Seq(EncodeNodes)
    BY EmptySeq
  <2> QED
    BY ONLY <2>1, <2>2, <2>3
<1> QED
  BY <1>1, <1>2

LEMMA SplitMirrors ==
  ASSUME EncoderIsSound, encodeStack # <<>>,
         NEW a, NEW low, NEW c, NEW d, NEW left, NEW right,
         SplitIs(a, low, c, d, left, right)
  PROVE  MirrorStack(encodeStack') = Front(MirrorStack(encodeStack)) \o
           Push(IfAny(c, CellOf(c, a, Node.stackPos)), IfAny(d, CellOf(d, a, Node.stackPos + 1)))
<1>1. left \in EncodeNodes /\ right \in EncodeNodes
  <2>1. StackIsSplit(a, c, d, left, right)
    BY SplitStack
  <2> QED
    BY <2>1 DEF StackIsSplit
<1> DEFINE pos == Node.stackPos
           cl == CellOf(c, a, pos)
           cr == CellOf(d, a, pos + 1)
           front == Front(encodeStack)
<1>2. /\ c \in Nat /\ d \in Nat /\ c = left.end - left.begin /\ d = right.end - right.begin
      /\ cl = CellOf(c, left.lastAxis, left.stackPos)
      /\ cr = CellOf(d, right.lastAxis, right.stackPos)
      /\ encodeStack' = front \o (IfAny(c, left) \o IfAny(d, right))
  <2>1. /\ Node.begin \in Nat /\ Node.end \in Nat /\ NodeSize = Node.end - Node.begin
    BY SizeOfNode
  <2>2. /\ c \in Nat /\ d \in Nat /\ c + d = NodeSize
        /\ left.begin = Node.begin /\ left.end = Node.begin + c
        /\ left.lastAxis = a /\ left.stackPos = pos
        /\ right.begin = Node.begin + c /\ right.end = Node.end
        /\ right.lastAxis = a /\ right.stackPos = pos + 1
        /\ encodeStack' = front \o Push(IfAny(c, left), IfAny(d, right))
    BY DEF SplitIs
  <2> QED
    BY <2>1, <2>2 DEF Push
<1> HIDE DEF cl, cr
<1>3. /\ MirrorStack(IfAny(c, left)) = IfAny(c, cl) /\ IfAny(c, left) \in Seq(EncodeNodes)
      /\ MirrorStack(IfAny(d, right)) = IfAny(d, cr) /\ IfAny(d, right) \in Seq(EncodeNodes)
  BY ONLY <1>1, <1>2, MirrorOfOne
<1>4. front \in Seq(EncodeNodes) /\ MirrorStack(front) = Front(MirrorStack(encodeStack))
  BY FrontParts, MirroredStack DEF EncoderIsSound
<1> DEFINE pushed == IfAny(c, left) \o IfAny(d, right)
<1>5. pushed \in Seq(EncodeNodes) /\ MirrorStack(pushed) = IfAny(c, cl) \o IfAny(d, cr)
  BY <1>3, ConcatProperties, MirrorConcat
<1>6. MirrorStack(encodeStack') = MirrorStack(front) \o MirrorStack(pushed)
  <2>1. encodeStack' = front \o pushed
    BY <1>2
  <2> HIDE DEF front, pushed
  <2> QED
    BY <2>1, <1>4, <1>5, MirrorConcat
<1> QED
  BY <1>4, <1>5, <1>6 DEF Push, cl, cr

(* Partitioning shuffles the points.                                       *)
Exchanges(t, X, L, R, p) ==
  \A k \in X : t[k] = IF k \in L THEN p[k] ELSE IF k \in R THEN CHOOSE j \in L : p[j] = k ELSE k

LEMMA SwappingIsABijection ==
  ASSUME NEW X, NEW L \in SUBSET X, NEW R \in SUBSET X, \A k \in L : k \notin R,
         NEW p \in Bijection(L, R)
  PROVE  \E t \in Bijection(X, X) : Exchanges(t, X, L, R, p)
<1> DEFINE back(k) == CHOOSE j \in L : p[j] = k
           t == [k \in X |-> IF k \in L THEN p[k] ELSE IF k \in R THEN back(k) ELSE k]
<1>1. /\ \A k \in L : p[k] \in R
      /\ \A i, j \in L : p[i] = p[j] => i = j
      /\ \A k \in R : \E j \in L : p[j] = k
  BY DEF Bijection, Injection, Surjection, IsInjective
<1>2. \A k \in R : back(k) \in L /\ p[back(k)] = k
  BY <1>1
<1>3. \A k \in X : t[k] = IF k \in L THEN p[k] ELSE IF k \in R THEN back(k) ELSE k
  OBVIOUS
<1>4. t = [k \in X |-> t[k]]
  OBVIOUS
<1> HIDE DEF back, t
<1>5. ASSUME NEW k \in X
      PROVE  t[k] \in X /\ t[t[k]] = k
  <2>1. CASE k \in L
    <3>1. t[k] = p[k] /\ p[k] \in R /\ p[k] \notin L
      BY <2>1, <1>1, <1>3
    <3>2. t[p[k]] = back(p[k])
      BY <3>1, <1>3
    <3>3. back(p[k]) = k
      BY <2>1, <3>1, <1>1, <1>2
    <3> QED
      BY <3>1, <3>2, <3>3
  <2>2. CASE k \notin L /\ k \in R
    <3>1. t[k] = back(k) /\ back(k) \in L /\ p[back(k)] = k
      BY <2>2, <1>2, <1>3
    <3>2. t[back(k)] = p[back(k)]
      BY <3>1, <1>3
    <3> QED
      BY <3>1, <3>2
  <2>3. CASE k \notin L /\ k \notin R
    BY <2>3, <1>3
  <2> QED
    BY <2>1, <2>2, <2>3
<1>6. t \in Bijection(X, X)
  <2>1. t \in [X -> X]
    BY <1>4, <1>5
  <2>2. \A i, j \in X : t[i] = t[j] => i = j
    BY <1>5
  <2>3. \A k \in X : \E j \in X : t[j] = k
    BY <1>5
  <2> QED
    BY <2>1, <2>2, <2>3 DEF Bijection, Injection, Surjection, IsInjective
<1> QED
  BY <1>3, <1>6 DEF back, Exchanges

LEMMA PartitionShuffles ==
  ASSUME NEW P, points \in Seq(P),
         Node.begin \in Nat, Node.end \in Nat, Node.end <= Len(points),
         NEW low \in SUBSET NodePoints, NEW middle \in Int, Partition(low, middle)
  PROVE  \E t \in Bijection(1 .. Len(points), 1 .. Len(points)) :
           \A k \in 1 .. Len(points) : points'[k] = points[t[k]]
<1> DEFINE L == {i \in NodePoints : i <= middle} \ low
           R == {i \in low : i > middle}
           X == 1 .. Len(points)
<1>1. DOMAIN points = X /\ Len(points) \in Nat
  BY LenProperties
<1>2. \A k \in NodePoints : k \in X /\ k \in Int
  BY <1>1 DEF NodePoints
<1>3. PICK partner \in Bijection(L, R) : points' = Swapped(partner)
  BY DEF Partition
<1>4. /\ partner \in [L -> R] /\ DOMAIN partner = L
      /\ \A j \in R : \E i \in L : partner[i] = j
  BY <1>3 DEF Bijection, Surjection
<1>5. Range(partner) = R
  BY <1>4 DEF Range
<1>6. points' = [i \in X |->
                   IF i \in L THEN points[partner[i]]
                   ELSE IF i \in R THEN points[CHOOSE j \in L : partner[j] = i]
                   ELSE points[i]]
  BY <1>1, <1>3, <1>4, <1>5 DEF Swapped
<1>7. L \in SUBSET X /\ R \in SUBSET X /\ \A k \in L : k \notin R
  BY <1>2
<1> HIDE DEF L, R, X
<1>8. PICK t \in Bijection(X, X) : Exchanges(t, X, L, R, partner)
  BY <1>3, <1>7, SwappingIsABijection
<1>9. ASSUME NEW k \in X
      PROVE  points'[k] = points[t[k]]
  BY <1>6, <1>8 DEF Exchanges
<1> QED
  BY <1>8, <1>9 DEF X

LEMMA SplitShuffles ==
  ASSUME EncoderIsSound, encodeStack # <<>>, NumPoints' = NumPoints, jobs' = jobs,
         NEW a, NEW low, NEW c, NEW d, NEW left, NEW right,
         SplitIs(a, low, c, d, left, right), Shuffled
  PROVE  Shuffled'
<1> DEFINE X == 1 .. NumPoints
<1>1. PICK f \in Bijection(X, X) : \A k \in X : points[k] = Job.points[f[k]]
  BY DEF Shuffled
<1>2. PICK t \in Bijection(X, X) : \A k \in X : points'[k] = points[t[k]]
  <2>1. /\ points \in Seq([Axes -> Nat]) /\ Len(points) = NumPoints
        /\ Node.begin \in Nat /\ Node.end \in Nat /\ Node.end <= Len(points)
    BY TopOfEncoder DEF EncoderIsSound
  <2>2. low \in SUBSET NodePoints /\ Node.begin + c \in Int /\ Partition(low, Node.begin + c)
    BY <2>1 DEF SplitIs
  <2> QED
    BY <2>1, <2>2, PartitionShuffles
<1> DEFINE g == [k \in X |-> f[t[k]]]
<1>3. g \in Bijection(X, X)
  <2> HIDE DEF X
  <2> QED
    BY ONLY f \in Bijection(X, X), t \in Bijection(X, X), Fun_BijTransitive
<1>4. \A k \in X : t[k] \in X
  BY <1>2 DEF Bijection, Injection
<1>5. \A k \in X : points'[k] = Job.points[g[k]]
  BY <1>1, <1>2, <1>4
<1>6. Job' = Job
  BY DEF Job
<1> HIDE DEF g
<1> QED
  BY <1>3, <1>5, <1>6 DEF Shuffled

LEMMA SplitEmits ==
  ASSUME EncoderIsSound, encodeStack # <<>>, NumPoints' = NumPoints,
         NEW a, NEW low, NEW c, NEW d, NEW left, NEW right,
         SplitIs(a, low, c, d, left, right),
         NEW R, NEW rws \in Seq(R), NEW e, e = Node.end, Emitted(rws, e)
  PROVE  Emitted(rws, e)'
<1>1. /\ points \in Seq([Axes -> Nat]) /\ Len(points) = NumPoints /\ NumPoints \in Nat
      /\ DOMAIN points = 1 .. NumPoints
      /\ Node.begin \in Nat /\ Node.end \in Nat /\ Node.end <= Len(points)
  BY TopOfEncoder, SizeOfNode, LenProperties DEF EncoderIsSound
<1>2. low \in SUBSET NodePoints /\ Node.begin + c \in Int /\ Partition(low, Node.begin + c)
  BY <1>1 DEF SplitIs
<1>3. \A k \in DOMAIN points : k \notin NodePoints => points'[k] = points[k]
  BY <1>1, <1>2, PartitionIsRight
<1>4. PICK f \in Bijection(1 .. Len(rws), e + 1 .. NumPoints) :
        \A k \in 1 .. Len(rws) : rws[k] = points[f[k]]
  BY DEF Emitted
<1>5. ASSUME NEW k \in 1 .. Len(rws)
      PROVE  rws[k] = points'[f[k]]
  <2>1. f[k] \in e + 1 .. NumPoints
    BY <1>4 DEF Bijection, Injection
  <2>2. f[k] \in DOMAIN points /\ f[k] \notin NodePoints
    BY <1>1, <2>1 DEF NodePoints
  <2> QED
    BY <1>3, <1>4, <2>2
<1>6. f \in Bijection(1 .. Len(rws), e + 1 .. NumPoints')
  BY <1>4
<1> QED
  BY <1>5, <1>6 DEF Emitted

(* What is written for the sizes of the halves.                            *)
HalvesAreWritten(c, d) ==
  /\ FieldIs(numbers', Len(numbers), MostSignificantBit(c + d), (c + d) \div 2 - Smaller(c, d))
  /\ c # d => FieldIs(halves', Len(halves), 1, IF c < d THEN 1 ELSE 0)
  /\ Extends(numbers', numbers) /\ Len(numbers') = Len(numbers) + 1
  /\ Extends(halves', halves) /\ Len(halves') = IF c # d THEN Len(halves) + 1 ELSE Len(halves)
  /\ halves' \in Seq(Fields) /\ Len(numbers) \in Nat /\ Len(halves) \in Nat

LEMMA HalvesAreTold ==
  ASSUME numbers \in Seq(Fields), halves \in Seq(Fields), NEW c \in Nat, NEW d \in Nat,
         c + d # 0, Fits32(c + d), WriteHalves(c, d)
  PROVE  HalvesAreWritten(c, d)
<1> DEFINE n == c + d
           smaller == Smaller(c, d)
           width == MostSignificantBit(n)
           lack == n \div 2 - smaller
<1>1. n \in Nat \ {0} /\ Fits32(n) /\ smaller \in Nat /\ smaller <= n \div 2
  <2>1. n \in Nat \ {0} /\ Fits32(n)
    OBVIOUS
  <2>2. smaller = IF c < d THEN c ELSE d
    BY DEF Smaller
  <2>3. smaller \in Nat /\ 2 * smaller <= n
    BY <2>2
  <2> QED
    BY <2>1, <2>3
<1>2. /\ numbers' = Append(numbers, Field(width, lack))
      /\ halves' = IF c # d THEN Append(halves, [width |-> 1, value |-> IF c < d THEN 1 ELSE 0])
                   ELSE halves
  BY DEF WriteHalves, Smaller
<1> HIDE DEF n, smaller
<1>3. lack \in 0 .. n \div 2
  BY <1>1
<1>4. width \in Nat /\ lack \in 0 .. TwoTo[width] - 1
  BY <1>1, <1>3, LackFits
<1> HIDE DEF width, lack
<1>5. lack % TwoTo[width] = lack
  <2>1. TwoTo[width] \in Nat \ {0}
    BY <1>4, PowersDouble
  <2>2. \A m \in Nat \ {0} : \A s \in 0 .. m - 1 : s % m = s
    OBVIOUS
  <2> QED
    BY <1>4, <2>1, <2>2
<1>6. Field(width, lack) = [width |-> width, value |-> lack] /\ Field(width, lack) \in Fields
  BY <1>4, <1>5 DEF Field, Fields
<1>7. /\ Extends(numbers', numbers) /\ Len(numbers') = Len(numbers) + 1
      /\ Len(numbers) + 1 \in DOMAIN numbers' /\ numbers'[Len(numbers) + 1] = Field(width, lack)
  BY <1>2, <1>6, AppendExtends
<1>8. FieldIs(numbers', Len(numbers), width, lack)
  BY <1>4, <1>6, <1>7 DEF FieldIs
<1>9. Len(numbers) \in Nat /\ Len(halves) \in Nat
  BY LenProperties
<1>10. CASE c = d
  <2>1. halves' = halves
    BY <1>2, <1>10
  <2>2. Extends(halves', halves) /\ halves' \in Seq(Fields)
    BY <2>1 DEF Extends
  <2> QED
    BY <1>7, <1>8, <1>9, <1>10, <2>1, <2>2 DEF HalvesAreWritten, n, lack, width, smaller
<1>11. CASE c # d
  <2>1. PICK bit : bit = [width |-> 1, value |-> IF c < d THEN 1 ELSE 0]
    OBVIOUS
  <2>2. halves' = Append(halves, bit) /\ bit \in Fields
    BY <1>2, <1>11, <2>1 DEF Fields
  <2>3. /\ Extends(halves', halves) /\ Len(halves') = Len(halves) + 1 /\ halves' \in Seq(Fields)
        /\ Len(halves) + 1 \in DOMAIN halves' /\ halves'[Len(halves) + 1] = bit
    BY <2>2, AppendExtends
  <2>4. FieldIs(halves', Len(halves), 1, IF c < d THEN 1 ELSE 0)
    <3>1. TwoTo[1] = 2 * TwoTo[0] /\ TwoTo[0] = 1
      <4>1. 0 \in Nat /\ 0 + 1 = 1
        OBVIOUS
      <4> QED
        BY <4>1, PowersDouble
    <3> QED
      BY <2>1, <2>3, <3>1 DEF FieldIs
  <2> QED
    BY <1>7, <1>8, <1>9, <1>11, <2>3, <2>4 DEF HalvesAreWritten, n, lack, width, smaller
<1> QED
  BY <1>10, <1>11

LEMMA SplitNodeIsFollowed ==
  ASSUME KdInv, EncoderIsFollowed, SplitNode
  PROVE  EncoderIsFollowed'
<1>1. /\ EncoderIsSound /\ encodeStack # <<>> /\ Popping
      /\ NodeLevels[NodeAxis] < BitLength /\ NodeSize > 2
      /\ jobs' = jobs /\ remaining' = remaining
      /\ UNCHANGED <<header, level, dimension>>
      /\ SpaceIsNarrow /\ axes \in Seq(Fields) /\ halves \in Seq(Fields)
      /\ numbers \in Seq(Fields) /\ remaining \in Seq(Fields)
      /\ NumPoints = Len(Job.points) /\ Shuffled /\ Abuts(encodeStack)
      /\ \A i \in DOMAIN encodeStack : TakesTurns(encodeStack[i], encodeLevels)
  BY DEF KdInv, SplitNode, Popping, EncoderIsFollowed, WireIsSound
<1>2. PICK a, low, c, d, left, right : SplitIs(a, low, c, d, left, right)
  BY <1>1, SplitHasParts
<1>3. PICK tr, n : Trace(tr, n) /\ Mirrors(tr[n])
  BY DEF EncoderIsFollowed, Foretold
<1>4. PICK s : s = tr[n]
  OBVIOUS
<1>5. /\ a = NodeAxis /\ a \in Axes /\ c \in Nat /\ d \in Nat /\ c + d = NodeSize
      /\ NodeSize \in Nat /\ Fits32(NodeSize) /\ WriteHalves(c, d)
  <2>1. /\ a = NodeAxis /\ c \in Nat /\ d \in Nat /\ c + d = NodeSize /\ WriteHalves(c, d)
    BY <1>2 DEF SplitIs
  <2>2. NodeSize \in Nat /\ NodeSize \in 1 .. NumPoints /\ NumPoints \in Nat /\ NodeAxis \in Axes
    BY <1>1, SizeOfNode, TopOfEncoder
  <2>3. NodeSize <= NumPoints
    BY <2>2
  <2>4. Fits32(NumPoints)
    BY DEF KdInv, WireIsSound
  <2> QED
    BY <2>1, <2>2, <2>3, <2>4, FewerFit
<1>6. /\ AxisIsTold(s, a)' /\ axes' \in Seq(Fields) /\ Extends(axes', axes)
      /\ ReadAxis(s)' = [AllRead EXCEPT !.axes = Len(axes')]
  BY <1>1, <1>3, <1>4, <1>5, AxisIsWritten
<1>7. HalvesAreWritten(c, d)
  <2>1. c + d # 0 /\ Fits32(c + d)
    <3>1. NodeSize # 0 /\ Fits32(NodeSize) /\ NodeSize = c + d
      BY <1>1, <1>5
    <3> QED
      BY <3>1, Zenon
  <2>2. /\ c \in Nat /\ d \in Nat /\ WriteHalves(c, d)
        /\ numbers \in Seq(Fields) /\ halves \in Seq(Fields)
    BY <1>1, <1>5
  <2> QED
    BY ONLY <2>1, <2>2, HalvesAreTold
<1>8. StreamsGrow
  <2>1. Len(remaining) \in Nat
    BY <1>1, LenProperties
  <2> QED
    BY <1>1, <1>6, <1>7, <2>1 DEF StreamsGrow, Extends, HalvesAreWritten
<1>9. /\ Axes' = Axes /\ BitLength' = BitLength /\ NumPoints' = NumPoints /\ SelectAxis' = SelectAxis
      /\ SpaceIsNarrow' = SpaceIsNarrow /\ ReadAxis(s)' = ReadAxis(s)
      /\ Half(LevelsOf(s), a)' = Half(LevelsOf(s), a)
  BY <1>1, SameWalk
<1>10. /\ s.stack # <<>> /\ s.stack = MirrorStack(encodeStack)
       /\ TopOf(s).stackPos = Node.stackPos
       /\ SizeOf(s) = NodeSize /\ BaseOf(s) = NodeBase /\ LevelsOf(s) = NodeLevels
       /\ s.read = AllRead /\ s.base = encodeBase /\ s.levels = encodeLevels
       /\ s.rows \in Seq([Axes -> Nat]) /\ Emitted(s.rows, Finished(encodeStack))
  BY <1>1, <1>3, <1>4, MirroredTop DEF Mirrors
<1>11. PICK e : e = AfterSplit(s, a, c, d)
  OBVIOUS
<1>12. Turn(s, e)'
  <2>1. AfterSplit(s, a, c, d)' = AfterSplit(s, a, c, d)
    BY <1>9 DEF AfterSplit
  <2>2. LevelsOf(s)[a] < BitLength' /\ SizeOf(s) > 2 /\ c + d = SizeOf(s)
    BY <1>1, <1>5, <1>9, <1>10
  <2>3. s.read.numbers = Len(numbers) /\ s.read.halves = Len(halves)
    BY <1>10 DEF AllRead
  <2>4. FieldIs(numbers', s.read.numbers, MostSignificantBit(SizeOf(s)),
                SizeOf(s) \div 2 - Smaller(c, d))
    BY <1>7, <2>2, <2>3 DEF HalvesAreWritten
  <2>5. c # d => FieldIs(halves', s.read.halves, 1, IF c < d THEN 1 ELSE 0)
    BY <1>7, <2>3 DEF HalvesAreWritten
  <2>6. SplitTurn(s, a, e)'
    BY <1>5, <1>11, <2>1, <2>2, <2>4, <2>5 DEF SplitTurn
  <2> QED
    BY <1>5, <1>6, <1>9, <1>10, <2>6 DEF Turn
<1>13. /\ e.stack = MirrorStack(encodeStack') /\ e.base = encodeBase' /\ e.levels = encodeLevels'
       /\ e.read = AllRead' /\ e.rows = s.rows
       /\ e = [stack |-> e.stack, base |-> e.base, levels |-> e.levels, read |-> e.read, rows |-> e.rows]
  <2> DEFINE pos == Node.stackPos
             deeper == [NodeLevels EXCEPT ![a] = @ + 1]
  <2>1. e = [stack |-> Front(s.stack) \o Push(IfAny(c, CellOf(c, a, pos)),
                                              IfAny(d, CellOf(d, a, pos + 1))),
             base |-> [encodeBase EXCEPT ![pos + 1] = [NodeBase EXCEPT ![a] = @ + Half(NodeLevels, a)]],
             levels |-> [encodeLevels EXCEPT ![pos] = deeper, ![pos + 1] = deeper],
             read |-> [ReadAxis(s) EXCEPT !.numbers = @ + 1,
                         !.halves = IF c # d THEN @ + 1 ELSE @],
             rows |-> s.rows]
    BY <1>10, <1>11 DEF AfterSplit
  <2>2. e.stack = MirrorStack(encodeStack')
    <3>1. MirrorStack(encodeStack') = Front(MirrorStack(encodeStack)) \o
            Push(IfAny(c, CellOf(c, a, pos)), IfAny(d, CellOf(d, a, pos + 1)))
      BY <1>1, <1>2, SplitMirrors
    <3> QED
      BY <2>1, <3>1, <1>10
  <2>3. e.base = encodeBase' /\ e.levels = encodeLevels'
    BY <2>1, <1>2 DEF SplitIs
  <2>4. e.read = AllRead'
    <3>1. ReadAxis(s) = [numbers |-> Len(numbers), remaining |-> Len(remaining),
                         axes |-> Len(axes'), halves |-> Len(halves)]
      BY <1>6, <1>9 DEF AllRead
    <3>2. e.read = [ReadAxis(s) EXCEPT !.numbers = @ + 1, !.halves = IF c # d THEN @ + 1 ELSE @]
      BY <2>1
    <3>3. e.read = [numbers |-> Len(numbers) + 1, remaining |-> Len(remaining),
                    axes |-> Len(axes'), halves |-> IF c # d THEN Len(halves) + 1 ELSE Len(halves)]
      <4>1. PICK r, h, u, x, v : r = ReadAxis(s) /\ h = Len(numbers) /\ u = Len(remaining)
                                 /\ x = Len(axes') /\ v = Len(halves)
        OBVIOUS
      <4>2. r = [numbers |-> h, remaining |-> u, axes |-> x, halves |-> v]
        BY <3>1, <4>1
      <4>3. [r EXCEPT !.numbers = @ + 1, !.halves = IF c # d THEN @ + 1 ELSE @]
              = [numbers |-> h + 1, remaining |-> u, axes |-> x, halves |-> IF c # d THEN v + 1 ELSE v]
        <5>1. PICK q : q = [numbers |-> h + 1, remaining |-> u, axes |-> x, halves |-> v]
          OBVIOUS
        <5>2. [r EXCEPT !.numbers = @ + 1] = q
          BY <4>2, <5>1
        <5>3. [q EXCEPT !.halves = IF c # d THEN @ + 1 ELSE @]
                = [numbers |-> h + 1, remaining |-> u, axes |-> x,
                   halves |-> IF c # d THEN v + 1 ELSE v]
          BY <5>1
        <5>4. [r EXCEPT !.numbers = @ + 1, !.halves = IF c # d THEN @ + 1 ELSE @]
                = [[r EXCEPT !.numbers = @ + 1] EXCEPT !.halves = IF c # d THEN @ + 1 ELSE @]
          BY Zenon
        <5> QED
          BY <5>2, <5>3, <5>4
      <4> QED
        BY <3>2, <4>1, <4>3
    <3> QED
      BY <3>3, <1>1, <1>7 DEF AllRead, HalvesAreWritten
  <2>5. /\ e.rows = s.rows
        /\ e = [stack |-> e.stack, base |-> e.base, levels |-> e.levels, read |-> e.read,
                rows |-> e.rows]
    BY <2>1
  <2> QED
    BY <2>2, <2>3, <2>4, <2>5
<1>14. Abuts(encodeStack') /\ Finished(encodeStack') = Node.end
  BY <1>1, <1>2, SplitAbuts
<1>15. Mirrors(e)'
  <2>1. PICK f : f = Node.end
    OBVIOUS
  <2>2. Finished(encodeStack) = f
    BY <1>1, <2>1 DEF Finished, Node
  <2>3. Emitted(s.rows, f)'
    <3>1. Emitted(s.rows, f) /\ s.rows \in Seq([Axes -> Nat])
      BY <1>10, <2>2
    <3> QED
      BY <3>1, <2>1, <1>1, <1>2, <1>9, SplitEmits
  <2>4. Emitted(e.rows, Finished(encodeStack))'
    BY <2>1, <2>3, <1>13, <1>14 DEF Finished
  <2>5. e.rows \in Seq([Axes' -> Nat])
    BY <1>9, <1>10, <1>13
  <2>6. MirrorStack(encodeStack') = MirrorStack(encodeStack)'
    BY DEF MirrorStack
  <2> QED
    BY <2>4, <2>5, <2>6, <1>13 DEF Mirrors
<1>16. Foretold'
  <2>1. Trace(tr, n)' /\ Turn(tr[n], e)'
    BY <1>3, <1>4, <1>8, <1>12, TraceStays
  <2>2. PICK new : Trace(new, n + 1)' /\ new[n + 1] = e
    BY ONLY <2>1, OneMoreTurn
  <2> QED
    BY <1>15, <2>2 DEF Foretold
<1>17. Shuffled'
  BY <1>1, <1>2, <1>9, SplitShuffles
<1>18. \A i \in DOMAIN encodeStack' : TakesTurns(encodeStack'[i], encodeLevels')
  BY <1>1, <1>2, SplitTakesTurns
<1>19. (\A i \in DOMAIN encodeStack : TakesTurns(encodeStack[i], encodeLevels))'
  BY <1>9, <1>18 DEF TakesTurns, InTurn
<1>20. Abuts(encodeStack)'
  BY <1>14 DEF Abuts
<1>21. (NumPoints = Len(Job.points))' /\ SpaceIsNarrow'
  BY <1>1, <1>9 DEF Job
<1>22. (axes \in Seq(Fields))' /\ (halves \in Seq(Fields))'
  BY <1>6, <1>7 DEF HalvesAreWritten, Fields
<1> QED
  BY <1>16, <1>17, <1>19, <1>20, <1>21, <1>22 DEF EncoderIsFollowed

(* A job begins.                                                           *)
EncoderBegins ==
  /\ EncoderStarts /\ SpaceIsNarrow /\ points = Job.points
  /\ numbers = <<>> /\ remaining = <<>> /\ axes = <<>> /\ halves = <<>>

LEMMA NothingIsEmitted ==
  ASSUME NumPoints \in Nat, NEW from, from = NumPoints
  PROVE  Emitted(<<>>, from)
<1> DEFINE S == 1 .. Len(<<>>)
           T == from + 1 .. NumPoints
           f == [k \in {} |-> k]
<1>1. S = {} /\ T = {}
  OBVIOUS
<1>2. f \in Bijection(S, T)
  BY <1>1 DEF Bijection, Injection, Surjection, IsInjective
<1>3. \A k \in S : <<>>[k] = points[f[k]]
  BY <1>1
<1> HIDE DEF f
<1> QED
  BY <1>2, <1>3 DEF Emitted

LEMMA BeginningIsFollowed == EncoderBegins => EncoderIsFollowed
<1> SUFFICES ASSUME EncoderBegins PROVE EncoderIsFollowed
  OBVIOUS
<1>1. /\ SpaceIsSound /\ SpaceIsNarrow /\ points = Job.points /\ Len(points) = NumPoints
      /\ dimension \in Nat \ {0} /\ BitLength \in Nat
      /\ numbers = <<>> /\ remaining = <<>> /\ axes = <<>> /\ halves = <<>>
      /\ encodeStack = IF points = <<>> THEN <<>> ELSE <<RootNode>>
      /\ encodeBase = Prepared(<<>>, dimension) /\ encodeLevels = Prepared(<<>>, dimension)
  BY WireAssumption DEF EncoderBegins, EncoderStarts, SpaceIsSound
<1>2. /\ NumPoints \in Nat /\ (points = <<>> <=> NumPoints = 0)
  <2>1. points \in Seq([Axes -> 0 .. TwoTo[BitLength] - 1])
    BY DEF EncoderBegins, EncoderStarts
  <2> QED
    BY <1>1, <2>1, EmptySeq, LenProperties
<1>3. Shuffled
  <2> DEFINE X == 1 .. NumPoints
             f == [k \in X |-> k]
  <2>1. f \in Bijection(X, X)
    BY DEF Bijection, Injection, Surjection, IsInjective
  <2>2. \A k \in X : points[k] = Job.points[f[k]]
    BY <1>1
  <2> HIDE DEF f
  <2> QED
    BY <2>1, <2>2 DEF Shuffled
<1>4. axes \in Seq(Fields) /\ halves \in Seq(Fields)
  BY <1>1, EmptySeq
<1>5. \A i \in DOMAIN encodeStack : i = 1 /\ encodeStack[i] = RootNode
  BY <1>1
<1>6. Abuts(encodeStack)
  BY <1>5 DEF Abuts, RootNode
<1>7. \A i \in DOMAIN encodeStack : TakesTurns(encodeStack[i], encodeLevels)
  <2> SUFFICES ASSUME NEW i \in DOMAIN encodeStack
               PROVE  InTurn(encodeLevels[0], 0)
    BY <1>5 DEF TakesTurns, RootNode
  <2>1. 0 \in 0 .. dimension * WordBits
    <3>1. dimension * WordBits \in Nat
      BY <1>1, WireAssumption
    <3> QED
      BY <3>1
  <2>2. encodeLevels[0] = [b \in 0 .. dimension - 1 |-> 0]
    BY <1>1, <2>1 DEF Prepared
  <2>3. 0 \in Axes /\ \A b \in Axes : encodeLevels[0][b] = 0 /\ ~(1 <= b /\ b <= 0)
    BY <1>1, <2>2 DEF Axes
  <2> QED
    BY <2>3 DEF InTurn
<1>8. Foretold
  <2>1. PICK tr : tr = [i \in {1} |-> FirstState]
    OBVIOUS
  <2>2. tr[1] = FirstState
    BY <2>1
  <2>3. Trace(tr, 1)
    BY <2>2 DEF Trace
  <2>4. FirstState.stack = MirrorStack(encodeStack)
    <3>1. CASE points = <<>>
      <4>1. encodeStack = <<>>
        BY <1>1, <3>1
      <4>2. MirrorStack(<<>>) = <<>>
        BY DEF MirrorStack
      <4> QED
        BY <1>2, <3>1, <4>1, <4>2 DEF FirstState
    <3>2. CASE points # <<>>
      <4>1. encodeStack = <<RootNode>> /\ NumPoints # 0
        BY <1>1, <1>2, <3>2
      <4>2. CellOf(RootNode.end - RootNode.begin, RootNode.lastAxis, RootNode.stackPos) = RootCell
        BY <1>1, <1>2 DEF RootNode, CellOf, RootCell
      <4>3. DOMAIN <<RootNode>> = 1 .. 1 /\ <<RootNode>>[1] = RootNode
        OBVIOUS
      <4>4. MirrorStack(<<RootNode>>) = [i \in 1 .. 1 |-> RootCell]
        BY <4>2, <4>3 DEF MirrorStack
      <4>5. [i \in 1 .. 1 |-> RootCell] = <<RootCell>>
        OBVIOUS
      <4> QED
        BY <4>1, <4>4, <4>5 DEF FirstState
    <3> QED
      BY <3>1, <3>2
  <2>5. AllRead = Unread
    <3>1. Len(numbers) = 0 /\ Len(remaining) = 0 /\ Len(axes) = 0 /\ Len(halves) = 0
      BY <1>1
    <3> QED
      BY <3>1 DEF AllRead, Unread
  <2>6. Finished(encodeStack) = NumPoints
    <3>1. CASE points = <<>>
      BY <1>1, <1>2, <3>1 DEF Finished
    <3>2. CASE points # <<>>
      <4>1. encodeStack = <<RootNode>> /\ encodeStack # <<>>
        BY <1>1, <3>2
      <4>2. Last(<<RootNode>>) = RootNode
        BY DEF Last
      <4> QED
        BY <1>1, <4>1, <4>2 DEF Finished, RootNode
    <3> QED
      BY <3>1, <3>2
  <2>7. FirstState.rows = <<>> /\ FirstState.rows \in Seq([Axes -> Nat])
    BY EmptySeq DEF FirstState
  <2>8. Emitted(<<>>, Finished(encodeStack))
    BY <1>2, <2>6, NothingIsEmitted
  <2>9. FirstState = [stack |-> FirstState.stack, base |-> encodeBase, levels |-> encodeLevels,
                      read |-> Unread, rows |-> FirstState.rows]
    BY <1>1 DEF FirstState
  <2>10. Mirrors(FirstState)
    BY <2>4, <2>5, <2>7, <2>8, <2>9 DEF Mirrors
  <2> QED
    BY <2>2, <2>3, <2>10 DEF Foretold
<1>9. NumPoints = Len(Job.points)
  BY <1>1
<1> QED
  BY <1>1, <1>3, <1>4, <1>6, <1>7, <1>8, <1>9 DEF EncoderIsFollowed

LEMMA StartEncodingIsFollowed ==
  ASSUME KdInv, StartEncoding, phase' = "encode"
  PROVE  EncoderIsFollowed'
<1>1. Job \in AllJobs
  <2>1. jobs \in Seq(AllJobs) /\ jobs # <<>>
    BY DEF KdInv, WireIsSound, StartEncoding
  <2> QED
    BY <2>1, HeadTailProperties DEF Job
<1>2. /\ Job.dimension \in Int /\ Job.level \in Int /\ Job.bitLength \in 0 .. WordBits
      /\ Job.points \in Seq([0 .. Job.dimension - 1 -> 0 .. TwoTo[Job.bitLength] - 1])
      /\ Fits32(Len(Job.points)) /\ Fits32(Job.dimension - 1)
  BY <1>1, JobsAssumption
<1>3. /\ dimension' = Job.dimension /\ level' = Job.level /\ jobs' = jobs
      /\ numbers' = <<>> /\ remaining' = <<>> /\ axes' = <<>> /\ halves' = <<>>
  BY DEF StartEncoding
<1>4. /\ Job.level \in Levels /\ Job.dimension > 0
      /\ header' = [bitLength |-> Job.bitLength, numPoints |-> Len(Job.points)]
      /\ points' = Job.points
      /\ encodeStack' = IF Job.points = <<>> THEN <<>>
                        ELSE <<[begin |-> 0, end |-> Len(Job.points), lastAxis |-> 0, stackPos |-> 0]>>
      /\ encodeBase' = Prepared(<<>>, dimension') /\ encodeLevels' = Prepared(<<>>, dimension')
  BY <1>2, <1>3 DEF StartEncoding, Prepared
<1>5. BitLength' = Job.bitLength /\ NumPoints' = Len(Job.points)
      /\ Axes' = 0 .. Job.dimension - 1 /\ Job' = Job
  BY <1>3, <1>4 DEF BitLength, NumPoints, Axes, Job
<1>6. SpaceIsSound'
  BY <1>2, <1>3, <1>4, <1>5 DEF SpaceIsSound
<1>7. EncoderStarts'
  BY <1>2, <1>4, <1>5, <1>6 DEF EncoderStarts, RootNode
<1>8. SpaceIsNarrow'
  BY <1>2, <1>3, <1>4 DEF SpaceIsNarrow, Fits32
<1>9. EncoderBegins'
  BY <1>3, <1>4, <1>5, <1>7, <1>8 DEF EncoderBegins
<1>10. EncoderBegins' => EncoderIsFollowed'
  BY BeginningIsFollowed, PTL
<1> QED
  BY <1>9, <1>10

-----------------------------------------------------------------------------
(* From the streams of a whole cloud the decoder makes that cloud.         *)
CameBack(rws) ==
  /\ rws \in Seq([Axes -> Nat])
  /\ \E f \in Bijection(1 .. Len(rws), 1 .. Len(Job.points)) :
       \A k \in 1 .. Len(rws) : rws[k] = Job.points[f[k]]

Foreseen(tr, n) ==
  /\ SpaceIsNarrow /\ SpaceIsSound /\ NumPoints = Len(Job.points)
  /\ Trace(tr, n)
  /\ tr[n].stack = <<>> /\ tr[n].read = AllRead /\ CameBack(tr[n].rows)

StreamInv ==
  ~Arbitrary =>
    /\ misread = FALSE
    /\ phase = "encode" => EncoderIsFollowed
    /\ phase = "written" => \E tr, n : Foreseen(tr, n)
    /\ phase = "decode" => \E tr, n : Foreseen(tr, n) /\ \E i \in 1 .. n : DecoderState = tr[i]
    /\ phase \in {"done", "failed"} => CameBack(rows) /\ (NumPoints > 0 => read = AllRead)
    /\ phase = "failed" => decodeStack = <<>> /\ ~NumbersEndClean

(* Nothing but the level and the numbers decides how the numbers end.      *)
LEMMA SameEnd ==
  ASSUME UNCHANGED <<numbers, level>>
  PROVE  NumbersEndClean' <=> NumbersEndClean
  BY DEF NumbersEndClean, NumberCoder

LEMMA ForeseenStays ==
  ASSUME UNCHANGED <<wireVars, jobs>>, remaining \in Seq(Fields),
         NEW tr, NEW n, Foreseen(tr, n)
  PROVE  Foreseen(tr, n)'
<1>1. UNCHANGED <<header, level, dimension, numbers, remaining, axes, halves, jobs>>
  BY DEF wireVars
<1>2. Len(remaining) \in Nat
  BY LenProperties
<1>3. StreamsGrow
  BY <1>1, <1>2 DEF StreamsGrow, Extends
<1>4. Trace(tr, n)'
  BY <1>3, TraceStays DEF Foreseen
<1>5. /\ SpaceIsNarrow' = SpaceIsNarrow /\ Axes' = Axes /\ NumPoints' = NumPoints
      /\ BitLength' = BitLength
  BY <1>1, SameWalk
<1>6. SpaceIsSound' = SpaceIsSound
  BY <1>1, <1>5 DEF SpaceIsSound
<1>7. Job' = Job /\ AllRead' = AllRead
  BY <1>1 DEF Job, AllRead
<1>8. CameBack(tr[n].rows)'
  BY <1>5, <1>7 DEF Foreseen, CameBack
<1> QED
  BY <1>4, <1>5, <1>6, <1>7, <1>8 DEF Foreseen

(* When the encoder has done all nodes, all is foreseen.                   *)
LEMMA AllIsForeseen ==
  ASSUME EncoderIsSound, EncoderIsFollowed, encodeStack = <<>>
  PROVE  \E tr, n : Foreseen(tr, n)
<1>1. PICK tr, n : Trace(tr, n) /\ Mirrors(tr[n])
  BY DEF EncoderIsFollowed, Foretold
<1>2. PICK d : d = tr[n]
  OBVIOUS
<1>3. d.stack = <<>> /\ d.read = AllRead
  <2>1. MirrorStack(<<>>) = <<>>
    BY DEF MirrorStack
  <2> QED
    BY <1>1, <1>2, <2>1 DEF Mirrors
<1>4. d.rows \in Seq([Axes -> Nat]) /\ Emitted(d.rows, 0)
  BY <1>1, <1>2 DEF Mirrors, Finished
<1> DEFINE S == 1 .. Len(d.rows)
           N == 1 .. NumPoints
<1>5. PICK f \in Bijection(S, N) : \A k \in S : d.rows[k] = points[f[k]]
  <2>1. 0 + 1 .. NumPoints = N
    OBVIOUS
  <2> QED
    BY <1>4, <2>1 DEF Emitted
<1>6. PICK g \in Bijection(N, N) : \A k \in N : points[k] = Job.points[g[k]]
  BY DEF EncoderIsFollowed, Shuffled
<1>7. NumPoints = Len(Job.points)
  BY DEF EncoderIsFollowed
<1> DEFINE h == [k \in S |-> g[f[k]]]
<1>8. h \in Bijection(S, N)
  <2>1. f \in Bijection(S, N) /\ g \in Bijection(N, N)
    BY <1>5, <1>6
  <2> HIDE DEF S, N
  <2> QED
    BY ONLY <2>1, Fun_BijTransitive
<1>9. \A k \in S : f[k] \in N
  BY <1>5 DEF Bijection, Injection
<1>10. \A k \in S : d.rows[k] = Job.points[h[k]]
  BY <1>5, <1>6, <1>9
<1> HIDE DEF h
<1>11. CameBack(d.rows)
  BY <1>4, <1>7, <1>8, <1>10 DEF CameBack
<1>12. Foreseen(tr, n)
  BY <1>1, <1>2, <1>3, <1>7, <1>11 DEF Foreseen, EncoderIsFollowed, EncoderIsSound
<1> QED
  BY <1>12

LEMMA EncoderKeepsStreams ==
  ASSUME KdInv, StreamInv, EncodeStep
  PROVE  StreamInv'
<1> SUFFICES ASSUME ~Arbitrary'
             PROVE  StreamInv'
  BY DEF StreamInv
<1>1. EncoderNext /\ UNCHANGED decoderVars
  BY DEF EncodeStep
<1>2. misread' = misread
  BY <1>1 DEF decoderVars
<1>3. CASE StartEncoding
  <2>1. jobs' = jobs /\ phase' \in {"refused", "encode"}
    BY <1>3 DEF StartEncoding
  <2>2. ~Arbitrary
    BY <2>1 DEF Arbitrary
  <2>3. phase' = "encode" => EncoderIsFollowed'
    BY <1>3, StartEncodingIsFollowed
  <2> QED
    BY <1>2, <2>1, <2>2, <2>3 DEF StreamInv
<1>4. CASE EncodeKnownNode \/ EncodeSmallNode \/ SplitNode
  <2>1. jobs' = jobs /\ phase' = "encode" /\ phase = "encode"
    BY <1>4 DEF EncodeKnownNode, EncodeSmallNode, SplitNode, Popping
  <2>2. ~Arbitrary
    BY <2>1 DEF Arbitrary
  <2>3. misread = FALSE /\ EncoderIsFollowed
    BY <2>1, <2>2 DEF StreamInv
  <2>4. EncoderIsFollowed'
    BY <1>4, <2>3, EncodeKnownNodeIsFollowed, EncodeSmallNodeIsFollowed, SplitNodeIsFollowed
  <2> QED
    BY <1>2, <2>1, <2>3, <2>4 DEF StreamInv
<1>5. CASE CancelEncoding
  <2>1. jobs' = jobs /\ phase' = "cancelled"
    BY <1>5 DEF CancelEncoding, encoderVars
  <2>2. ~Arbitrary
    BY <2>1 DEF Arbitrary
  <2> QED
    BY <1>2, <2>1, <2>2 DEF StreamInv
<1>6. CASE EndEncoding
  <2>1. /\ UNCHANGED <<wireVars, jobs>> /\ phase = "encode" /\ phase' = "written"
        /\ encodeStack = <<>>
    BY <1>6 DEF EndEncoding, encoderVars
  <2>2. ~Arbitrary
    BY <2>1 DEF Arbitrary
  <2>3. misread = FALSE /\ EncoderIsFollowed /\ EncoderIsSound /\ remaining \in Seq(Fields)
    BY <2>1, <2>2 DEF StreamInv, KdInv, WireIsSound
  <2>4. PICK tr, n : Foreseen(tr, n)
    BY <2>1, <2>3, AllIsForeseen
  <2>5. Foreseen(tr, n)'
    BY ONLY <2>1, <2>3, <2>4, ForeseenStays
  <2>6. (\E t, m : Foreseen(t, m))'
    BY <2>5
  <2> QED
    BY <1>2, <2>1, <2>3, <2>6 DEF StreamInv
<1> QED
  BY <1>1, <1>3, <1>4, <1>5, <1>6 DEF EncoderNext

(* The decoder begins where what is foreseen begins.                       *)
LEMMA StartDecodingKeepsStreams ==
  ASSUME KdInv, StreamInv, StartDecoding, ~Arbitrary
  PROVE  StreamInv'
<1>1. /\ phase = "written" /\ UNCHANGED <<wireVars, encoderVars>>
      /\ read' = Unread /\ rows' = <<>> /\ misread' = FALSE
  BY DEF StartDecoding
<1>2. PICK tr, n : Foreseen(tr, n)
  BY <1>1 DEF StreamInv
<1>3. UNCHANGED <<wireVars, jobs>> /\ remaining \in Seq(Fields)
  BY <1>1 DEF encoderVars, KdInv, WireIsSound
<1>4. Foreseen(tr, n)'
  BY ONLY <1>2, <1>3, ForeseenStays
<1>5. /\ UNCHANGED <<header, level, dimension>> /\ UNCHANGED jobs
  BY <1>3 DEF wireVars
<1>6. dimension \in Nat \ {0} /\ level \in Levels /\ BitLength \in 0 .. WordBits
  BY <1>2 DEF Foreseen, SpaceIsSound, SpaceIsNarrow
<1>7. ~(dimension <= 0 \/ level \notin Levels \/ BitLength > WordBits)
  BY <1>6, WireAssumption
<1>8. CASE NumPoints = 0
  <2>1. phase' = "done"
    BY <1>7, <1>8 DEF StartDecoding
  <2>2. NumPoints' = 0
    BY <1>5, <1>8 DEF NumPoints
  <2>3. CameBack(<<>>)'
    <3>1. Len(Job.points)' = 0
      BY <1>4, <2>2 DEF Foreseen
    <3> DEFINE S == 1 .. Len(<<>>)
               T == 1 .. Len(Job'.points)
               f == [k \in {} |-> k]
    <3>2. S = {} /\ T = {}
      BY <3>1
    <3>3. f \in Bijection(S, T)
      BY <3>2 DEF Bijection, Injection, Surjection, IsInjective
    <3>4. \A k \in S : <<>>[k] = Job'.points[f[k]]
      BY <3>2
    <3> HIDE DEF f
    <3> QED
      BY <3>3, <3>4, EmptySeq DEF CameBack
  <2>4. CameBack(rows)'
    BY <1>1, <2>3 DEF CameBack
  <2> QED
    BY <1>1, <2>1, <2>2, <2>4 DEF StreamInv
<1>9. CASE NumPoints # 0
  <2>1. /\ phase' = "decode"
        /\ decodeStack' = <<[numRemainingPoints |-> NumPoints, lastAxis |-> 0, stackPos |-> 0]>>
        /\ decodeBase' = Prepared(<<>>, dimension) /\ decodeLevels' = Prepared(<<>>, dimension)
    BY <1>7, <1>9 DEF StartDecoding, Prepared
  <2>2. DecoderState' = FirstState'
    <3>1. FirstState' = FirstState
      BY <1>5, SameWalk
    <3>2. DecoderState' = FirstState
      BY <1>1, <1>9, <2>1 DEF DecoderState, FirstState, RootCell
    <3> QED
      BY <3>1, <3>2
  <2>3. tr[1] = FirstState' /\ n \in Nat \ {0}
    BY <1>4 DEF Foreseen, Trace
  <2>4. 1 \in 1 .. n /\ DecoderState' = tr[1]
    BY <2>2, <2>3
  <2>5. (\E t, m : Foreseen(t, m) /\ \E i \in 1 .. m : DecoderState = t[i])'
    BY <1>4, <2>4
  <2> QED
    BY <1>1, <2>1, <2>5 DEF StreamInv
<1> QED
  BY <1>8, <1>9

(* Where it stands, it takes the turn that is foreseen.                    *)
LEMMA DecodingKeepsStreams ==
  ASSUME KdInv, StreamInv, ~Arbitrary,
         DecodeNode \/ DecodeFails \/ CancelDecoding \/ EndDecoding
  PROVE  StreamInv'
<1>1. phase = "decode" /\ UNCHANGED <<wireVars, encoderVars>>
  BY DEF DecodeNode, DecodeKnownNode, DecodeSmallNode, DecodeSplit, DecodingNode,
         DecodeFails, CancelDecoding, EndDecoding
<1>2. PICK tr, n : Foreseen(tr, n) /\ \E i \in 1 .. n : DecoderState = tr[i]
  BY <1>1 DEF StreamInv
<1>3. PICK i \in 1 .. n : DecoderState = tr[i]
  BY <1>2
<1>4. UNCHANGED <<wireVars, jobs>> /\ remaining \in Seq(Fields) /\ misread = FALSE
  BY <1>1 DEF encoderVars, KdInv, WireIsSound, StreamInv
<1>5. Foreseen(tr, n)'
  BY ONLY <1>2, <1>4, ForeseenStays
<1>6. n \in Nat \ {0} /\ \A k \in 1 .. n - 1 : Turn(tr[k], tr[k + 1])
  BY <1>2 DEF Foreseen, Trace
<1>7. SpaceIsNarrow
  BY <1>2 DEF Foreseen
<1>8. ASSUME decodeStack # <<>>
      PROVE  i + 1 \in 1 .. n /\ Decoding /\ Turn(DecoderState, tr[i + 1])
  <2>1. tr[i].stack # <<>>
    BY <1>3, <1>8, SameCell
  <2>2. i # n
    BY <2>1, <1>2 DEF Foreseen
  <2>3. i \in 1 .. n - 1 /\ i + 1 \in 1 .. n
    BY <2>2, <1>6
  <2> QED
    BY <1>1, <1>3, <1>4, <1>6, <1>7, <1>8, <2>3 DEF Decoding
<1>9. CASE DecodeNode
  <2>1. decodeStack # <<>>
    BY <1>9 DEF DecodeNode, DecodeKnownNode, DecodeSmallNode, DecodeSplit, DecodingNode
  <2>2. Forced(tr[i + 1])
    BY <1>8, <1>9, <2>1, TurnsAreForced
  <2>3. i + 1 \in 1 .. n /\ DecoderState' = tr[i + 1] /\ misread' = FALSE /\ phase' = "decode"
    BY <1>8, <2>1, <2>2 DEF Forced
  <2>4. (\E t, m : Foreseen(t, m) /\ \E k \in 1 .. m : DecoderState = t[k])'
    BY <1>5, <2>3
  <2> QED
    BY <2>3, <2>4 DEF StreamInv
<1>10. CASE DecodeFails
  <2>1. decodeStack # <<>>
    BY <1>10 DEF DecodeFails
  <2> QED
    BY <1>8, <1>10, <2>1, TurnsAreForced
<1>11. CASE CancelDecoding
  <2>1. phase' = "cancelled" /\ misread' = FALSE
    BY <1>4, <1>11 DEF CancelDecoding, decoderVars
  <2> QED
    BY <2>1 DEF StreamInv
<1>12. CASE EndDecoding
  <2>1. /\ phase' \in {"done", "failed"} /\ decodeStack = <<>>
        /\ UNCHANGED <<read, decodeStack, rows, misread>>
    BY <1>12 DEF EndDecoding, decoderVars
  <2>2. i = n
    <3>1. tr[i].stack = <<>>
      BY <1>3, <2>1, SameCell
    <3>2. i # n => i \in 1 .. n - 1
      BY <1>6
    <3> QED
      BY <3>1, <3>2, <1>6 DEF Turn
  <2>3. rows = tr[n].rows /\ read = tr[n].read
    BY <1>3, <2>2, SameCell
  <2>4. CameBack(rows)' /\ read' = AllRead'
    BY <1>5, <2>1, <2>3 DEF Foreseen, CameBack
  <2>5. phase' = "failed" => ~NumbersEndClean'
    <3>1. phase' = "failed" => ~NumbersEndClean
      BY <1>12 DEF EndDecoding
    <3>2. NumbersEndClean' <=> NumbersEndClean
      BY <1>4, SameEnd DEF wireVars
    <3> QED
      BY <3>1, <3>2
  <2> QED
    BY <1>4, <2>1, <2>4, <2>5 DEF StreamInv
<1> QED
  BY <1>9, <1>10, <1>11, <1>12

LEMMA StreamInvAlways == Spec => []StreamInv
<1>1. KdInv /\ StreamInv /\ [Next]_vars => StreamInv'
  <2> SUFFICES ASSUME KdInv, StreamInv, [Next]_vars PROVE StreamInv'
    OBVIOUS
  <2>1. CASE EncodeStep
    BY <2>1, EncoderKeepsStreams
  <2>2. CASE DecoderNext
    <3>1. UNCHANGED jobs
      BY <2>2 DEF DecoderNext, StartDecoding, DecodeNode, DecodeKnownNode, DecodeSmallNode,
                  DecodeSplit, DecodingNode, DecodeFails, CancelDecoding, EndDecoding, encoderVars
    <3>2. CASE Arbitrary
      BY <3>1, <3>2 DEF StreamInv, Arbitrary
    <3>3. CASE ~Arbitrary
      BY <2>2, <3>3, StartDecodingKeepsStreams, DecodingKeepsStreams DEF DecoderNext
    <3> QED
      BY <3>2, <3>3
  <2>3. CASE NextJob
    <3>1. /\ jobs # <<>> /\ phase' = "start" /\ misread' = misread
      <4>1. Len(jobs) > 1 /\ Len(<<>>) = 0
        BY <2>3 DEF NextJob
      <4> QED
        BY <2>3, <4>1 DEF NextJob, decoderVars
    <3>2. misread = FALSE
      BY <3>1 DEF StreamInv, Arbitrary
    <3> QED
      BY <3>1, <3>2 DEF StreamInv
  <2>4. CASE UNCHANGED vars
    <3>1. /\ UNCHANGED <<wireVars, jobs>> /\ UNCHANGED decoderVars /\ phase' = phase
          /\ UNCHANGED <<points, encodeStack, encodeBase, encodeLevels>>
      BY <2>4 DEF vars, encoderVars
    <3>2. CASE Arbitrary
      BY <3>1, <3>2 DEF StreamInv, Arbitrary
    <3>3. CASE ~Arbitrary
      <4>1. UNCHANGED wireVars /\ UNCHANGED encoderVars /\ UNCHANGED decoderVars /\ phase' = phase
        BY <2>4 DEF vars
      <4>2. /\ UNCHANGED <<header, numbers, remaining, axes, halves, level, dimension>>
            /\ UNCHANGED <<jobs, points, encodeStack, encodeBase, encodeLevels>>
            /\ UNCHANGED <<read, decodeStack, decodeBase, decodeLevels, rows, misread>>
            /\ UNCHANGED phase
        BY <4>1 DEF wireVars, encoderVars, decoderVars
      <4>3. remaining \in Seq(Fields)
        BY DEF KdInv, WireIsSound
      <4>4. misread' = FALSE
        BY <3>3, <4>2 DEF StreamInv
      <4>5. phase = "encode" => EncoderIsFollowed'
        <5> SUFFICES ASSUME phase = "encode" PROVE EncoderIsFollowed'
          OBVIOUS
        <5>1. EncoderIsFollowed
          BY <3>3 DEF StreamInv
        <5>2. PICK tr, n : Trace(tr, n) /\ Mirrors(tr[n])
          BY <5>1 DEF EncoderIsFollowed, Foretold
        <5>3. StreamsGrow
          <6>1. Len(remaining) \in Nat
            BY <4>3, LenProperties
          <6> QED
            BY <4>2, <6>1 DEF StreamsGrow, Extends
        <5>4. Trace(tr, n)'
          BY <5>2, <5>3, TraceStays
        <5>5. /\ Axes' = Axes /\ NumPoints' = NumPoints /\ SelectAxis' = SelectAxis
              /\ SpaceIsNarrow' = SpaceIsNarrow
          BY <4>2, SameWalk
        <5>6. Mirrors(tr[n])'
          BY <5>2, <5>5, <4>2 DEF Mirrors, MirrorStack, AllRead, Emitted, Finished
        <5>7. Foretold'
          BY <5>4, <5>6 DEF Foretold
        <5> QED
          BY <5>1, <5>5, <5>7, <4>2 DEF EncoderIsFollowed, Fields, Shuffled, Job, Abuts,
                                        TakesTurns, InTurn
      <4>6. ASSUME NEW tr, NEW n, Foreseen(tr, n)
            PROVE  Foreseen(tr, n)'
        BY <3>1, <4>3, <4>6, ForeseenStays
      <4>7. phase = "written" => (\E tr, n : Foreseen(tr, n))'
        BY <3>3, <4>6 DEF StreamInv
      <4>8. DecoderState' = DecoderState
        BY <4>2 DEF DecoderState
      <4>9. phase = "decode" => (\E tr, n : Foreseen(tr, n) /\ \E i \in 1 .. n : DecoderState = tr[i])'
        BY <3>3, <4>6, <4>8 DEF StreamInv
      <4>10. phase \in {"done", "failed"} => CameBack(rows)' /\ (NumPoints > 0 => read = AllRead)'
        <5> SUFFICES ASSUME phase \in {"done", "failed"}
                     PROVE  CameBack(rows)' /\ (NumPoints > 0 => read = AllRead)'
          OBVIOUS
        <5>1. CameBack(rows) /\ (NumPoints > 0 => read = AllRead)
          BY <3>3 DEF StreamInv
        <5>2. Axes' = Axes /\ NumPoints' = NumPoints
          BY <4>2, SameWalk
        <5> QED
          BY <4>2, <5>1, <5>2 DEF CameBack, Job, AllRead
      <4>11. phase = "failed" => decodeStack' = <<>> /\ ~NumbersEndClean'
        BY <3>3, <4>2, SameEnd DEF StreamInv
      <4> QED
        BY <4>2, <4>4, <4>5, <4>7, <4>9, <4>10, <4>11 DEF StreamInv
    <3> QED
      BY <3>2, <3>3
  <2> QED
    BY <2>1, <2>2, <2>3, <2>4 DEF Next
<1>2. Init => StreamInv
  BY DEF Init, DecoderInit, EncoderInit, StreamInv, Arbitrary
<1> QED
  BY <1>1, <1>2, KdInvAlways, PTL DEF Spec

(* Reordering keeps the number of times each point occurs.                 *)
LEMMA ReorderedOccurrences ==
  ASSUME NEW S, NEW s \in Seq(S), NEW T, NEW t \in Seq(T),
         NEW f \in Bijection(1 .. Len(s), 1 .. Len(t)),
         \A k \in 1 .. Len(s) : s[k] = t[f[k]]
  PROVE  Occurrences(s) = Occurrences(t)
<1>1. /\ Len(s) \in Nat /\ DOMAIN s = 1 .. Len(s)
      /\ Len(t) \in Nat /\ DOMAIN t = 1 .. Len(t)
  BY LenProperties
<1> DEFINE A(p) == {i \in DOMAIN s : s[i] = p}
           B(p) == {i \in DOMAIN t : t[i] = p}
<1>2. /\ \A i \in DOMAIN s : f[i] \in DOMAIN t /\ s[i] = t[f[i]]
      /\ \A i, j \in DOMAIN s : f[i] = f[j] => i = j
      /\ \A j \in DOMAIN t : \E i \in DOMAIN s : f[i] = j
  BY <1>1 DEF Bijection, Injection, Surjection, IsInjective
<1>3. Range(s) = Range(t)
  <2>1. Range(s) = {s[i] : i \in DOMAIN s} /\ Range(t) = {t[i] : i \in DOMAIN t}
    BY DEF Range
  <2>2. \A i \in DOMAIN s : s[i] \in {t[j] : j \in DOMAIN t}
    BY <1>2, ZenonT(40)
  <2>3. \A j \in DOMAIN t : t[j] \in {s[i] : i \in DOMAIN s}
    BY <1>2
  <2> QED
    BY <2>1, <2>2, <2>3
<1>4. ASSUME NEW p
      PROVE  Cardinality(A(p)) = Cardinality(B(p))
  <2> DEFINE g == [i \in A(p) |-> f[i]]
  <2>1. \A i \in A(p) : g[i] = f[i] /\ g[i] \in B(p)
    BY <1>2
  <2>2. ASSUME NEW j \in B(p)
        PROVE  \E i \in A(p) : g[i] = j
    <3>1. j \in DOMAIN t /\ t[j] = p
      OBVIOUS
    <3>2. PICK i \in DOMAIN s : f[i] = j
      BY <1>2, <3>1
    <3>3. s[i] = p
      BY <1>2, <3>1, <3>2
    <3>4. i \in A(p)
      BY <3>3
    <3> QED
      BY <2>1, <3>2, <3>4
  <2>3. ASSUME NEW i \in A(p), NEW j \in A(p), g[i] = g[j]
        PROVE  i = j
    <3>1. i \in DOMAIN s /\ j \in DOMAIN s
      OBVIOUS
    <3>2. f[i] = f[j]
      BY <2>1, <2>3
    <3> QED
      BY <1>2, <3>1, <3>2
  <2>4. g \in [A(p) -> B(p)]
    BY <2>1
  <2>5. g \in Bijection(A(p), B(p))
    <3> HIDE DEF g, A, B
    <3> QED
      BY <2>2, <2>3, <2>4 DEF Bijection, Injection, Surjection, IsInjective
  <2>6. IsFiniteSet(A(p))
    <3>1. A(p) \subseteq 1 .. Len(s)
      BY <1>1
    <3>2. IsFiniteSet(1 .. Len(s))
      BY <1>1, FS_Interval
    <3> QED
      BY <3>1, <3>2, FS_Subset
  <2>7. ExistsBijection(A(p), B(p))
    BY <2>5 DEF ExistsBijection
  <2> HIDE DEF A, B, g
  <2> QED
    BY <2>6, <2>7, FS_Bijection
<1>5. /\ Occurrences(s) = [p \in Range(s) |-> Cardinality(A(p))]
      /\ Occurrences(t) = [p \in Range(t) |-> Cardinality(B(p))]
  BY DEF Occurrences
<1> HIDE DEF A, B
<1> QED
  BY <1>3, <1>4, <1>5

(* A cloud that was written comes back as the same bag of points, whatever *)
(* the points, their number, the dimension and the level are, and whatever *)
(* jobs the two scratches served before: the decoder asks for every field  *)
(* with the width it was written with and never fails before its last node *)
(* is done.  It has then read all that was written, and refuses it after   *)
(* that only where the numbers end unclean.                                *)
THEOREM PointsAlwaysComeBack == Spec => []PointsComeBack
<1>1. KdInv /\ StreamInv => PointsComeBack
  <2> SUFFICES ASSUME KdInv, StreamInv PROVE PointsComeBack
    OBVIOUS
  <2>1. DecoderFollowsEncoder
    BY DEF StreamInv, DecoderFollowsEncoder, AllRead
  <2>2. ASSUME phase \in {"done", "failed"}, ~Arbitrary
        PROVE  Occurrences(rows) = Occurrences(Job.points)
    <3>1. CameBack(rows)
      BY <2>2 DEF StreamInv
    <3>2. Job \in AllJobs
      <4>1. jobs \in Seq(AllJobs) /\ jobs # <<>>
        BY <2>2 DEF KdInv, WireIsSound, Arbitrary
      <4> QED
        BY <4>1, HeadTailProperties DEF Job
    <3>3. Job.points \in Seq([0 .. Job.dimension - 1 -> 0 .. TwoTo[Job.bitLength] - 1])
      BY <3>2, JobsAssumption
    <3> QED
      BY <3>1, <3>3, ReorderedOccurrences DEF CameBack
  <2> QED
    BY <2>1, <2>2 DEF PointsComeBack, RoundTrip
<1> QED
  BY <1>1, KdInvAlways, StreamInvAlways, PTL

=============================================================================
