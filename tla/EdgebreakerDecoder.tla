------------------------- MODULE EdgebreakerDecoder -------------------------
(***************************************************************************)
(* The edgebreaker connectivity decoder (edgebreaker_decode.go:            *)
(* decodeEdgebreakerConnectivity and the passes decodeEdgebreakerMesh runs *)
(* right after it).                                                        *)
(*                                                                         *)
(* It reads the symbols last first and undoes the encoder's steps: every   *)
(* symbol adds one face, glued to the edges of the faces already there.    *)
(* activeCorners is the stack of parts under construction, each named by   *)
(* the corner that faces the edge it grows at.  An S joins the two parts   *)
(* on top, or a part a split event names.  What is left on the stack are   *)
(* the components, which the start-face bits close.                        *)
(***************************************************************************)
EXTENDS EdgebreakerWire

VARIABLES
  decoderPhase,
  symbolID,                       \* symbols read so far
  dCornerVertex, dOpposite, dVertexCorners, dNumVertices,   \* the decoded table
  activeCorners,
  topologySplitCorner,            \* per symbol, the corner a split event left for it
  splitIndex,                     \* split events not consumed, from the last one
  invalidVertices,                \* vertices an S merged into others
  isVertHole,
  numDecodedFaces,
  startFacesRead

decodedTable == <<dCornerVertex, dOpposite, dVertexCorners, dNumVertices>>

decoderVars ==
  <<decoderPhase, symbolID, decodedTable, activeCorners, topologySplitCorner,
    splitIndex, invalidVertices, isVertHole, numDecodedFaces, startFacesRead>>

(* The vertices an S merges away are numbered too, so the table has room   *)
(* for one more vertex per S.                                              *)
DecoderMaxVertices == numEncodedVertices + numSplitSymbols
DecodedCorners == DOMAIN dOpposite
DecodedVertexIDs == DOMAIN dVertexCorners

DecoderInit ==
  /\ decoderPhase = "idle"
  /\ symbolID = 0
  /\ dCornerVertex = <<>>
  /\ dOpposite = <<>>
  /\ dVertexCorners = <<>>
  /\ dNumVertices = 0
  /\ activeCorners = <<>>
  /\ topologySplitCorner = <<>>
  /\ splitIndex = 0
  /\ invalidVertices = <<>>
  /\ isVertHole = <<>>
  /\ numDecodedFaces = 0
  /\ startFacesRead = 0

(* decodeEdgebreakerMesh up to the connectivity: the counts are read and   *)
(* the table is reset.                                                     *)
StartDecoding ==
  /\ decoderPhase = "idle"
  /\ IF numSplitSymbols > NumSymbols
     THEN /\ decoderPhase' = "failed"
          /\ UNCHANGED <<decodedTable, topologySplitCorner, splitIndex, isVertHole>>
     ELSE /\ decoderPhase' = "symbols"
          /\ dCornerVertex' = [c \in Corners(numEncodedFaces) |-> -1]
          /\ dOpposite' = [c \in Corners(numEncodedFaces) |-> NoCorner]
          /\ dVertexCorners' = [v \in 0 .. DecoderMaxVertices - 1 |-> NoCorner]
          /\ dNumVertices' = 0
          /\ topologySplitCorner' = [id \in 0 .. NumSymbols - 1 |-> NoCorner]
          /\ splitIndex' = Len(splitEvents)
          /\ isVertHole' = [v \in 0 .. DecoderMaxVertices - 1 |-> TRUE]
  /\ UNCHANGED <<symbolID, activeCorners, invalidVertices, numDecodedFaces,
                 startFacesRead>>

Fail ==
  /\ decoderPhase' = "failed"
  /\ UNCHANGED <<symbolID, decodedTable, activeCorners, topologySplitCorner,
                 splitIndex, invalidVertices, isVertHole, numDecodedFaces,
                 startFacesRead>>

-----------------------------------------------------------------------------
(* Setters of the table ignore what is out of range.                       *)

(* Every symbol's face takes the next three corners.                       *)
NewCorner == 3 * numDecodedFaces

(* The corners of the next face, and the vertices they are given.          *)
NewFace(v0, v1, v2) ==
  [c \in {NewCorner, NewCorner + 1, NewCorner + 2} |->
      IF c = NewCorner THEN v0 ELSE IF c = NewCorner + 1 THEN v1 ELSE v2]

MapCorners(cornerVertex, map) ==
  [c \in DOMAIN cornerVertex |->
      IF c \in DOMAIN map /\ map[c] \in DecodedVertexIDs
      THEN map[c] ELSE cornerVertex[c]]

SetLeftMost(vertexCorners, v, c) ==
  [w \in DOMAIN vertexCorners |-> IF w = v THEN c ELSE vertexCorners[w]]

VertexOf(c) == At(dCornerVertex, c)
OppositeOf(c) == At(dOpposite, c)
LeftMostCornerOf(v) == At(dVertexCorners, v)

OccupiedUnchecked(c) == FALSE               \* glues over what is glued
Occupied(c) == OppositeOf(c) >= 0

NoRoomFor(n) == dNumVertices + n > DecoderMaxVertices

ClosedVerticesForgotten(S) == isVertHole    \* leaves closed vertices on the boundary
ClosedVertices(S) == [v \in DOMAIN isVertHole |-> isVertHole[v] /\ v \notin S]

NextSymbol == symbols[NumSymbols - symbolID]
ReadingSymbol(s) ==
  /\ decoderPhase = "symbols"
  /\ symbolID < NumSymbols
  /\ NextSymbol = s

FaceAdded ==
  /\ symbolID' = symbolID + 1
  /\ numDecodedFaces' = numDecodedFaces + 1
  /\ UNCHANGED startFacesRead

Top == Last(activeCorners)
ReplaceTop(c) == Front(activeCorners) \o <<c>>

(* C: a face that closes the fan of vertex X between two adjacent edges of *)
(* the active boundary.                                                    *)
DecodeC ==
  /\ ReadingSymbol("C")
  /\ LET a == Top
         x == VertexOf(NextIn(a))
         b == NextIn(LeftMostCornerOf(x))
         vertAPrev == VertexOf(PreviousIn(a))
         vertBNext == VertexOf(NextIn(b))
     IN  IF \/ activeCorners = <<>>
            \/ a = b \/ a < 0 \/ b < 0
            \/ Occupied(a) \/ Occupied(b)
            \/ x = vertAPrev \/ x = vertBNext
         THEN Fail
         ELSE /\ dOpposite' = Glue(Glue(dOpposite, a, NewCorner + 1), b, NewCorner + 2)
              /\ dCornerVertex' =
                   MapCorners(dCornerVertex, NewFace(x, vertBNext, vertAPrev))
              /\ dVertexCorners' = SetLeftMost(dVertexCorners, vertAPrev, NewCorner + 2)
              /\ isVertHole' = ClosedVertices({x})
              /\ activeCorners' = ReplaceTop(NewCorner)
              /\ FaceAdded
              /\ UNCHANGED <<decoderPhase, dNumVertices, topologySplitCorner,
                             splitIndex, invalidVertices>>

(* After R, L and E: the split events whose source is this symbol leave an *)
(* active corner for the S they name.                                      *)
EncoderSymbolID == NumSymbols - symbolID - 1

EventsHereFirst ==                          \* one event per symbol at most
  {i \in {splitIndex} \ {0} : splitEvents[i].source = EncoderSymbolID}
EventsHere ==
  {i \in 1 .. splitIndex :
      \A j \in i .. splitIndex : splitEvents[j].source = EncoderSymbolID}

DecoderSplitID(i) == NumSymbols - splitEvents[i].split - 1

EventsInRange == \A i \in EventsHere : DecoderSplitID(i) \in 0 .. NumSymbols - 1

TakeSplitEvents(corner) ==
  LET cornerOf(i) == IF splitEvents[i].edge = "right"
                     THEN NextCorner(corner) ELSE PreviousCorner(corner)
      for(id) == {i \in EventsHere : DecoderSplitID(i) = id}
  IN  /\ topologySplitCorner' = [id \in DOMAIN topologySplitCorner |->
             IF for(id) = {} THEN topologySplitCorner[id]
             ELSE cornerOf(CHOOSE i \in for(id) : \A j \in for(id) : i <= j)]
      /\ splitIndex' = splitIndex - Cardinality(EventsHere)

(* R and L: a face on one edge of the active boundary, with a new vertex.  *)
DecodeSide(symbol, oppCorner, cornerL, cornerR) ==
  /\ ReadingSymbol(symbol)
  /\ LET a == Top
         newVertex == dNumVertices
         vertexR == VertexOf(PreviousIn(a))
     IN  IF \/ activeCorners = <<>>
            \/ Occupied(a)
            \/ NoRoomFor(1)
            \/ ~ EventsInRange
         THEN Fail
         ELSE /\ dOpposite' = Glue(dOpposite, oppCorner, a)
              /\ dNumVertices' = dNumVertices + 1
              /\ dCornerVertex' = MapCorners(dCornerVertex,
                     [c \in {oppCorner, cornerL, cornerR} |->
                         IF c = oppCorner THEN newVertex
                         ELSE IF c = cornerR THEN vertexR ELSE VertexOf(NextIn(a))])
              /\ dVertexCorners' =
                   SetLeftMost(SetLeftMost(dVertexCorners, newVertex, oppCorner),
                               vertexR, cornerR)
              /\ activeCorners' = ReplaceTop(NewCorner)
              /\ TakeSplitEvents(NewCorner)
              /\ FaceAdded
              /\ UNCHANGED <<decoderPhase, invalidVertices, isVertHole>>

DecodeR == DecodeSide("R", NewCorner + 2, NewCorner + 1, NewCorner)
DecodeL == DecodeSide("L", NewCorner + 1, NewCorner, NewCorner + 2)

(* mergeEdgebreakerVertexFan: the corners of one vertex become the other's.*)
MergeVertexFanAt(cornerVertex, c, n, p) == [cornerVertex EXCEPT ![c] = p]
MergeVertexFan(cornerVertex, c, n, p) ==
  [d \in DOMAIN cornerVertex |-> IF cornerVertex[d] = n THEN p ELSE cornerVertex[d]]

(* S: a face between two parts.  The parts meet in one vertex, so vertex N *)
(* of the one is merged into vertex P of the other.                        *)
OtherParts ==
  Front(activeCorners) \o (IF topologySplitCorner[symbolID] # NoCorner
                           THEN <<topologySplitCorner[symbolID]>> ELSE <<>>)
VertexP == VertexOf(PreviousIn(Last(OtherParts)))
VertexN == VertexOf(NextIn(Top))

DecodeS ==
  /\ ReadingSymbol("S")
  /\ LET b == Top
         rest == OtherParts
         a == Last(rest)
         p == VertexP
         n == VertexN
         vertBPrev == VertexOf(PreviousIn(b))
         glued == MapCorners(dCornerVertex, NewFace(p, VertexOf(NextIn(a)), vertBPrev))
         leftMost == SetLeftMost(dVertexCorners, vertBPrev, NewCorner + 2)
     IN  IF \/ activeCorners = <<>>
            \/ rest = <<>>
            \/ a = b \/ Occupied(a) \/ Occupied(b)
         THEN Fail
         ELSE /\ dOpposite' = Glue(Glue(dOpposite, a, NewCorner + 2), b, NewCorner + 1)
              /\ dCornerVertex' = MergeVertexFan(glued, NextIn(b), n, p)
              /\ dVertexCorners' =
                   SetLeftMost(SetLeftMost(leftMost, p, At(leftMost, n)), n, NoCorner)
              /\ invalidVertices' = IF numAttributeData = 0
                                    THEN Append(invalidVertices, n)
                                    ELSE invalidVertices
              /\ activeCorners' = Front(rest) \o <<NewCorner>>
              /\ FaceAdded
              /\ UNCHANGED <<decoderPhase, dNumVertices, topologySplitCorner,
                             splitIndex, isVertHole>>

(* E: a face of its own starts a new part.                                 *)
DecodeE ==
  /\ ReadingSymbol("E")
  /\ IF NoRoomFor(3) \/ ~ EventsInRange
     THEN Fail
     ELSE /\ dNumVertices' = dNumVertices + 3
          /\ dCornerVertex' =
               MapCorners(dCornerVertex,
                          NewFace(dNumVertices, dNumVertices + 1, dNumVertices + 2))
          /\ dVertexCorners' = [v \in DecodedVertexIDs |->
                 IF v \in dNumVertices .. dNumVertices + 2
                 THEN NewCorner + v - dNumVertices ELSE dVertexCorners[v]]
          /\ activeCorners' = Append(activeCorners, NewCorner)
          /\ TakeSplitEvents(NewCorner)
          /\ FaceAdded
          /\ UNCHANGED <<decoderPhase, dOpposite, invalidVertices, isVertHole>>

SymbolsDone ==
  /\ decoderPhase = "symbols"
  /\ symbolID = NumSymbols
  /\ decoderPhase' = "startFaces"
  /\ UNCHANGED <<symbolID, decodedTable, activeCorners, topologySplitCorner,
                 splitIndex, invalidVertices, isVertHole, numDecodedFaces,
                 startFacesRead>>

-----------------------------------------------------------------------------
(* The start-face bits, one per component left on the stack.               *)

DecodeBoundaryStart ==
  /\ decoderPhase = "startFaces"
  /\ activeCorners # <<>>
  /\ startFacesRead < Len(startFaces)
  /\ ~ startFaces[startFacesRead + 1]
  /\ startFacesRead' = startFacesRead + 1
  /\ activeCorners' = Front(activeCorners)
  /\ UNCHANGED <<decoderPhase, symbolID, decodedTable, topologySplitCorner,
                 splitIndex, invalidVertices, isVertHole, numDecodedFaces>>

(* An interior start closes a component with one more face.                *)
DecodeInteriorStart ==
  /\ decoderPhase = "startFaces"
  /\ activeCorners # <<>>
  /\ startFacesRead < Len(startFaces)
  /\ startFaces[startFacesRead + 1]
  /\ LET a == Top
         vertN == VertexOf(NextIn(a))
         b == NextIn(LeftMostCornerOf(vertN))
         vertX == VertexOf(NextIn(b))
         c == NextIn(LeftMostCornerOf(vertX))
         vertP == VertexOf(NextIn(c))
     IN  IF \/ numDecodedFaces >= numEncodedFaces
            \/ a = b \/ a = c \/ b = c
            \/ Occupied(a) \/ Occupied(b) \/ Occupied(c)
         THEN Fail
         ELSE /\ dOpposite' = Glue(Glue(Glue(dOpposite, NewCorner, a),
                                        NewCorner + 1, b), NewCorner + 2, c)
              /\ dCornerVertex' =
                   MapCorners(dCornerVertex, NewFace(vertX, vertP, vertN))
              /\ isVertHole' = ClosedVertices({vertX, vertP, vertN})
              /\ activeCorners' = Front(activeCorners)
              /\ numDecodedFaces' = numDecodedFaces + 1
              /\ startFacesRead' = startFacesRead + 1
              /\ UNCHANGED <<decoderPhase, symbolID, dVertexCorners, dNumVertices,
                             topologySplitCorner, splitIndex, invalidVertices>>

(* Streams older than 2.2 pack the start-face bits plainly and may run out *)
(* of them; the arithmetic decoder of newer ones always yields a bit.      *)
TruncatedStartFacesUnreported == FALSE
TruncatedStartFaces ==
  /\ decoderPhase = "startFaces"
  /\ activeCorners # <<>>
  /\ startFacesRead = Len(startFaces)
  /\ Fail

(* Without attributes the merged vertices are removed: vertices are        *)
(* renumbered in the order the corners meet them.                          *)
FirstUses(cornerVertex) ==
  {c \in DOMAIN cornerVertex : \A d \in 0 .. c - 1 : cornerVertex[d] # cornerVertex[c]}

StoredAfterCompactionFirst(c) == c          \* the first corner, not the leftmost
StoredAfterCompaction(c) == LeftMostFrom(dOpposite, c)

RemoveInvalidVertices ==
  LET first == FirstUses(dCornerVertex)
      numUsed == Cardinality(first)
      rank(c) == Cardinality({d \in first : d < c})
      firstUse(c) == CHOOSE d \in first : dCornerVertex[d] = dCornerVertex[c]
      met(v) == CHOOSE d \in first : rank(d) = v    \* where new vertex v is met
  IN  /\ dCornerVertex' = [c \in DecodedCorners |-> rank(firstUse(c))]
      /\ dNumVertices' = numUsed
      /\ dVertexCorners' = [v \in DecodedVertexIDs |->
             IF v < numUsed THEN StoredAfterCompaction(met(v)) ELSE NoCorner]
      /\ isVertHole' = [v \in DOMAIN isVertHole |->
             IF v < numUsed THEN isVertHole[dCornerVertex[met(v)]]
             ELSE isVertHole[v]]
      /\ UNCHANGED dOpposite

IncompleteUnchecked == FALSE
Incomplete ==
  \/ numDecodedFaces # numEncodedFaces
  \/ \E c \in DecodedCorners : dCornerVertex[c] \notin 0 .. dNumVertices - 1

FinishConnectivity ==
  /\ decoderPhase = "startFaces"
  /\ activeCorners = <<>>
  /\ IF Incomplete
     THEN Fail
     ELSE /\ decoderPhase' = "connected"
          /\ IF invalidVertices = <<>>
             THEN UNCHANGED <<decodedTable, isVertHole>>
             ELSE RemoveInvalidVertices
          /\ UNCHANGED <<symbolID, activeCorners, topologySplitCorner, splitIndex,
                         invalidVertices, numDecodedFaces, startFacesRead>>

(* decodeEdgebreakerMesh: the boundary vertices' corners are moved to the  *)
(* left end of their fans before points are assigned.                      *)
HoleCorner(c) == LeftMostFrom(dOpposite, c)

UpdateHoleCorners ==
  /\ decoderPhase = "connected"
  /\ decoderPhase' = "decoded"
  /\ dVertexCorners' = [v \in DecodedVertexIDs |->
         IF v < dNumVertices /\ isVertHole[v]
         THEN HoleCorner(dVertexCorners[v])
         ELSE dVertexCorners[v]]
  /\ UNCHANGED <<symbolID, dCornerVertex, dOpposite, dNumVertices, activeCorners,
                 topologySplitCorner, splitIndex, invalidVertices, isVertHole,
                 numDecodedFaces, startFacesRead>>

DecoderNext ==
  \/ StartDecoding
  \/ DecodeC \/ DecodeR \/ DecodeL \/ DecodeS \/ DecodeE
  \/ SymbolsDone
  \/ DecodeBoundaryStart \/ DecodeInteriorStart \/ TruncatedStartFaces
  \/ FinishConnectivity \/ UpdateHoleCorners

=============================================================================
