------------------------ MODULE EdgebreakerAttributes ------------------------
(***************************************************************************)
(* The attributes of an edgebreaker mesh, on top of the connectivity round *)
(* trip: the encoder finds the seams of every attribute, rebuilds the      *)
(* table the reader will have, lays the values out along a walk over it,   *)
(* and writes seam bits and groups; the reader rebuilds seams, points and  *)
(* walks from the stream and attaches the values it reads to its points.   *)
(*                                                                         *)
(* A value is named by the entry of the source attribute it was copied     *)
(* from.  The first position attribute is the mesh itself: its entry at a  *)
(* corner is the vertex the mesh gives the corner.                         *)
(***************************************************************************)
EXTENDS EdgebreakerRoundTrip, AttributeLayout

CONSTANT
  AttributesOf(_, _)      \* the attributes tried on a mesh, given their number

VARIABLES
  layoutPhase,            \* how far the two sides are
  attributes,             \* the source attributes after the position, in order
  attributeData,          \* the encoder: seams of each attribute in the source table
  decodedTableOf, decodedConnectivity, pointToCorner,   \* what it expects the reader to have
  sequenceCorners,        \* the walk of the group in work, on either side
  seamBits,               \* the wire: one sequence of bits per attribute data
  groups,                 \* the wire: group headers with their values
  connectivities, points, \* the reader's seams and points
  received                \* the reader's attributes: entry per point

expectation == <<decodedTableOf, decodedConnectivity, pointToCorner>>
attributeVars ==
  <<layoutPhase, attributes, attributeData, expectation, sequenceCorners, seamBits,
    groups, connectivities, points, received>>
allVars == <<vars, attributeVars>>

AttributeInit ==
  /\ Init
  /\ layoutPhase = "unwritten"
  /\ attributes = <<>>
  /\ attributeData = <<>>
  /\ decodedTableOf = <<>>
  /\ decodedConnectivity = <<>>
  /\ pointToCorner = <<>>
  /\ sequenceCorners = <<>>
  /\ seamBits = <<>>
  /\ groups = <<>>
  /\ connectivities = <<>>
  /\ points = <<>>
  /\ received = <<>>

-----------------------------------------------------------------------------
(* The encoder.                                                            *)

SourceTable ==
  [opposite |-> opposite, cornerVertex |-> cornerVertex, vertexCorners |-> vertexCorners,
   numVertices |-> numVertices,
   isVertHole |-> [v \in VertexIDs |-> vertexHoleID[v] # -1]]

(* initAttributeData skips every attribute of the position type; only the  *)
(* first of them has a group of its own.                                   *)
IsData(attribute) == attribute.type # "position"

AttributeData(attrs) == SelectSeq(attrs, IsData)

(* buildEdgebreakerAttributeConnectivity: an inner edge is a seam when the *)
(* entries differ at one of its ends; the corner with the lower number     *)
(* stands for the edge.                                                    *)
EntriesDifferOneEnd(entryAt, c, d) == entryAt[NextCorner(c)] # entryAt[PreviousCorner(d)]
EntriesDiffer(entryAt, c, d) ==
  \/ entryAt[NextCorner(c)] # entryAt[PreviousCorner(d)]
  \/ entryAt[PreviousCorner(c)] # entryAt[NextCorner(d)]

SeamCorners(attribute) ==
  {c \in AllCorners :
     \/ opposite[c] < 0
     \/ opposite[c] > c /\ EntriesDiffer(attribute.entryAt, c, opposite[c])}

SourceConnectivity(attribute) == AttributeConnectivity(SourceTable, SeamCorners(attribute))

(* The table and seams a traversal writes: replaying the recorded symbols  *)
(* gives the reader's own table, before it moves the boundary corners.     *)
DecodedTable ==
  [opposite |-> dOpposite, cornerVertex |-> dCornerVertex, vertexCorners |-> dVertexCorners,
   numVertices |-> dNumVertices, isVertHole |-> isVertHole]

ReadSeamCorners(bits) ==
  {c \in DecodedCorners : dOpposite[c] < 0}
    \cup {SeamQueries[i] : i \in {j \in DOMAIN SeamQueries : bits[j]}}

(* computeNativeOrderDecodedPointMapping builds a table for the faces in   *)
(* their new order without running the decoder: vertices are numbered as   *)
(* the corners first use them, and everything else is carried over.        *)
NativeCorner(s) == CHOOSE c \in AllCorners : SourceCorner(c) = s

NativeFirstUses ==
  SelectSeq([i \in 1 .. Cardinality(AllCorners) |-> i - 1],
            LAMBDA c : \A d \in 0 .. c - 1 : SourceVertex(d) # SourceVertex(c))

NativeStoredFirst(oppositeOf, c) == c           \* not moved to the end of its fan
NativeStored(oppositeOf, c) == LastOf(LeftFan(oppositeOf, c))

NativeTable ==
  LET firsts == NativeFirstUses
      vertexOf == [c \in AllCorners |->
         (CHOOSE i \in DOMAIN firsts : SourceVertex(firsts[i]) = SourceVertex(c)) - 1]
      oppositeOf == [c \in AllCorners |->
         IF opposite[SourceCorner(c)] < 0 THEN NoCorner
         ELSE NativeCorner(opposite[SourceCorner(c)])]
  IN  [opposite |-> oppositeOf, cornerVertex |-> vertexOf,
       vertexCorners |-> [v \in 0 .. Len(firsts) - 1 |-> NativeStored(oppositeOf, firsts[v + 1])],
       numVertices |-> Len(firsts),
       isVertHole |-> [v \in 0 .. Len(firsts) - 1 |->
                         vertexHoleID[SourceVertex(firsts[v + 1])] # -1]]

NativeSeamCorners(connectivity) == {NativeCorner(s) : s \in connectivity.seamEdges}

(* This encoder writes depth-first groups only (edgebreaker_encode.go,     *)
(* 2328 and 2343); the reader takes either walk for a group of vertices,   *)
(* so a group as another encoder would write it is among the behaviours.   *)
Traversals == {"depthFirst", "predictionDegree"}

(* The walk of a group over the vertices its values belong to.             *)
GroupOf(T, ks, header) ==
  CASE header.dataID < 0 -> VertexGroup(T, {})
    [] header.dataID >= 0 /\ header.decoderType = "vertex" ->
         VertexGroup(T, ks[header.dataID + 1].vertexOnSeam)
    [] header.dataID >= 0 /\ header.decoderType = "corner" ->
         CornerGroup(T, ks[header.dataID + 1])

SequenceOf(T, ks, header) ==
  LET sequence[group \in Groups(T)] ==
        IF header.traversal = "depthFirst" THEN DepthFirstSequence(T, group)
        ELSE PredictionDegreeSequence(T, group)
  IN  sequence[GroupOf(T, ks, header)]

DecoderType(connectivity) == IF connectivity.noInteriorSeams THEN "vertex" ELSE "corner"

(* encode runs this before the traversal.  Nothing before the seam bits    *)
(* depends on the entries, so they are chosen here.                        *)
InitAttributeData ==
  /\ decoderPhase = "connected" /\ layoutPhase = "unwritten"
  /\ \E attrs \in AttributesOf(mesh, numAttributeData) :
       LET data == AttributeData(attrs)
       IN  /\ attributes' = attrs
           /\ attributeData' = [a \in DOMAIN data |-> SourceConnectivity(data[a])]
           /\ layoutPhase' = IF \E a \in DOMAIN data :
                                  LET k == attributeData'[a]
                                  IN  NoSeamInFan(SourceTable, k.seamEdges, k.vertexOnSeam)
                             THEN "failed" ELSE "data"
  /\ UNCHANGED <<vars, expectation, sequenceCorners, seamBits, groups, connectivities, points, received>>

(* encodeAttributeConnectivitiesOnFace: a bit per attribute for every      *)
(* inner edge, at the corner seams names.                                  *)
EncodeSeams ==
  /\ layoutPhase = "data"
  /\ layoutPhase' = "seamsWritten"
  /\ seamBits' = [a \in DOMAIN attributeData |->
                    [i \in DOMAIN seams |-> seams[i] \in attributeData[a].seamEdges]]
  /\ UNCHANGED <<vars, attributes, attributeData, expectation, sequenceCorners, groups,
                 connectivities, points, received>>

(* computeDecodedPointMapping, or its shortcut for the native order: the   *)
(* table first, then the seams on it, then the points.                     *)
ExpectTable ==
  /\ layoutPhase = "seamsWritten"
  /\ layoutPhase' = "tableExpected"
  /\ decodedTableOf' = IF nativeTraversalOrder THEN NativeTable ELSE DecodedTable
  /\ UNCHANGED <<vars, attributes, attributeData, decodedConnectivity, pointToCorner,
                 sequenceCorners, seamBits, groups, connectivities, points, received>>

ExpectSeams ==
  /\ layoutPhase = "tableExpected"
  /\ layoutPhase' = "seamsExpected"
  /\ decodedConnectivity' =
       [a \in DOMAIN attributeData |->
          AttributeConnectivity(decodedTableOf,
            IF nativeTraversalOrder THEN NativeSeamCorners(attributeData[a])
            ELSE ReadSeamCorners(seamBits[a]))]
  /\ UNCHANGED <<vars, attributes, attributeData, decodedTableOf, pointToCorner,
                 sequenceCorners, seamBits, groups, connectivities, points, received>>

ExpectPoints ==
  /\ layoutPhase = "seamsExpected"
  /\ layoutPhase' = "pointsExpected"
  /\ pointToCorner' = PointsOfCorners(decodedTableOf, decodedConnectivity)
  /\ UNCHANGED <<vars, attributes, attributeData, decodedTableOf, decodedConnectivity,
                 sequenceCorners, seamBits, groups, connectivities, points, received>>

(* prepareEdgebreakerAttributeGroup: the position group first, then the    *)
(* attribute data in order.  The value at a sequence corner is that of its *)
(* source point: replayed, the source corner of the first corner of its    *)
(* point; in native order its own source corner.                           *)
DecodedCornerSource(c) ==
  IF nativeTraversalOrder THEN SourceCorner(c)
  ELSE SourceCorner(pointToCorner.first[pointToCorner.of[c] + 1])

SourceEntry(i, c) ==
  IF i = 1 THEN mesh.vertexAt[c] ELSE AttributeData(attributes)[i - 1].entryAt[c]

HeaderToWrite(n, method) ==
  [dataID |-> n - 1,
   decoderType |-> IF n = 0 THEN "vertex" ELSE DecoderType(attributeData[n]),
   traversal |-> method]

WriteHeader ==
  /\ layoutPhase = "pointsExpected" /\ Len(groups) <= Len(attributeData)
  /\ layoutPhase' = "headerWritten"
  /\ \E method \in Traversals :
       LET header == HeaderToWrite(Len(groups), method)
       IN  /\ header.decoderType = "corner" => method = "depthFirst"
           /\ groups' = Append(groups, [header |-> header, sequence |-> <<>>, values |-> <<>>])
           /\ sequenceCorners' = SequenceOf(decodedTableOf, decodedConnectivity, header)
  /\ UNCHANGED <<vars, attributes, attributeData, expectation, seamBits,
                 connectivities, points, received>>

PrepareGroup ==
  /\ layoutPhase = "headerWritten"
  /\ layoutPhase' = "pointsExpected"
  /\ LET n == Len(groups)
     IN  groups' = [groups EXCEPT
           ![n].sequence = sequenceCorners,
           ![n].values = [i \in DOMAIN sequenceCorners |->
                            SourceEntry(n, DecodedCornerSource(sequenceCorners[i]))]]
  /\ UNCHANGED <<vars, attributes, attributeData, expectation, sequenceCorners, seamBits,
                 connectivities, points, received>>

GroupsWritten ==
  /\ layoutPhase = "pointsExpected" /\ Len(groups) > Len(attributeData)
  /\ layoutPhase' = "written"
  /\ UNCHANGED <<vars, attributes, attributeData, expectation, sequenceCorners, seamBits,
                 groups, connectivities, points, received>>

EncodeAttributes ==
  \/ InitAttributeData \/ EncodeSeams \/ ExpectTable \/ ExpectSeams \/ ExpectPoints
  \/ WriteHeader \/ PrepareGroup \/ GroupsWritten

-----------------------------------------------------------------------------
(* The reader.                                                             *)

ReadSeams ==
  /\ Decoded /\ layoutPhase = "written"
  /\ LET ks == [a \in DOMAIN seamBits |->
                  AttributeConnectivity(DecodedTable, ReadSeamCorners(seamBits[a]))]
     IN  /\ connectivities' = ks
         /\ layoutPhase' = IF \E a \in DOMAIN ks :
                                NoSeamInFan(DecodedTable, ks[a].seamEdges, ks[a].vertexOnSeam)
                           THEN "failed" ELSE "seams"
  /\ UNCHANGED <<vars, attributes, attributeData, expectation, sequenceCorners, seamBits, groups,
                 points, received>>

AssignPointsToCorners ==
  /\ layoutPhase = "seams"
  /\ points' = PointsOfCorners(DecodedTable, connectivities)
  /\ layoutPhase' = IF \E c \in DecodedCorners : points'.of[c] < 0
                    THEN "failed" ELSE "groups"
  /\ UNCHANGED <<vars, attributes, attributeData, expectation, sequenceCorners, seamBits, groups,
                 connectivities, received>>

(* One group: the reader's own walk for the header it read, then the value *)
(* each point takes.                                                       *)
GenerateSequence ==
  /\ layoutPhase = "groups" /\ Len(received) < Len(groups)
  /\ LET header == groups[Len(received) + 1].header
     IN  IF header.dataID >= numAttributeData
         THEN layoutPhase' = "failed" /\ UNCHANGED sequenceCorners
         ELSE /\ layoutPhase' = "sequence"
              /\ sequenceCorners' = SequenceOf(DecodedTable, connectivities, header)
  /\ UNCHANGED <<vars, attributes, attributeData, expectation, seamBits, groups,
                 connectivities, points, received>>

VertexOfValue(header, c) ==
  IF header.decoderType = "corner" THEN connectivities[header.dataID + 1].cornerToVertex[c]
  ELSE dCornerVertex[c]

EntriesFor(header, c) ==
  {i \in DOMAIN sequenceCorners :
     VertexOfValue(header, sequenceCorners[i]) = VertexOfValue(header, c)}

InstantiateAttribute ==
  /\ layoutPhase = "sequence"
  /\ LET group == groups[Len(received) + 1]
         value(c) == group.values[CHOOSE i \in EntriesFor(group.header, c) : TRUE]
     IN  IF \E c \in Range(points.first) : EntriesFor(group.header, c) = {}
         THEN layoutPhase' = "failed" /\ UNCHANGED received
         ELSE /\ layoutPhase' = "groups"
              /\ received' = Append(received, [p \in DOMAIN points.first |-> value(points.first[p])])
  /\ UNCHANGED <<vars, attributes, attributeData, expectation, sequenceCorners, seamBits,
                 groups, connectivities, points>>

ConnectivityStep ==
  /\ Next
  /\ decoderPhase = "connected" => layoutPhase = "written"
  /\ UNCHANGED attributeVars

AttributeNext ==
  ConnectivityStep \/ EncodeAttributes \/ ReadSeams \/ AssignPointsToCorners
  \/ GenerateSequence \/ InstantiateAttribute

(* No fairness: what is asked of the layout is what it says when it is    *)
(* there.                                                                  *)
AttributeSpec == AttributeInit /\ [][AttributeNext]_allVars

-----------------------------------------------------------------------------

(* Whatever the seams, the walk and the way the encoder rebuilt the table, *)
(* every corner of the decoded mesh has the values its source corner had.  *)
ValuesReachTheirCorners ==
  layoutPhase = "groups" =>
    \A i \in DOMAIN received : \A c \in DecodedCorners :
       received[i][points.of[c] + 1] = SourceEntry(i, SourceCorner(c))

(* The reader never meets a corner without a point, a point without a      *)
(* value, or a fan it cannot cut: nothing the encoder wrote is refused.    *)
AttributesAreAccepted == layoutPhase # "failed"

(* What was encoded is accepted, and the values it carries arrive.         *)
ValuesArrive == AttributesAreAccepted /\ ValuesReachTheirCorners

(* The walk of the reader meets the corners in the order the encoder wrote *)
(* the values in, also when the encoder did not replay the decoder.        *)
WalksAgree ==
  layoutPhase = "groups" =>
    \A i \in DOMAIN groups :
       SequenceOf(DecodedTable, connectivities, groups[i].header) = groups[i].sequence

(* Neighbouring corners of a vertex that agree in every attribute are one  *)
(* point: the walk around a closed fan does not end in a copy of the point *)
(* it began with.                                                          *)
NoPointTwice ==
  layoutPhase = "groups" =>
    \A c \in DecodedCorners :
       LET d == SwingRight(dOpposite, c)
       IN  ( /\ d >= 0
             /\ \A a \in DOMAIN connectivities :
                  PreviousCorner(c) \notin connectivities[a].seamEdges)
           => points.of[c] = points.of[d]

(* No value is stored twice for a vertex it belongs to: a group has as     *)
(* many values as its table has vertices in use.                           *)
OneValuePerVertex ==
  layoutPhase = "groups" =>
    \A i \in DOMAIN groups :
       LET group == GroupOf(DecodedTable, connectivities, groups[i].header)
       IN  /\ Met(group, groups[i].sequence) = {group.vertexAt[c] : c \in DecodedCorners}
           /\ Len(groups[i].values) = Cardinality({group.vertexAt[c] : c \in DecodedCorners})

(* Nothing is sent or stored a second time.                                *)
NothingIsRepeated == NoPointTwice /\ OneValuePerVertex

=============================================================================
