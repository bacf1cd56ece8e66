------------------------- MODULE EdgebreakerEncoder -------------------------
(***************************************************************************)
(* The edgebreaker connectivity encoder (edgebreaker_encode.go:            *)
(* edgebreakerMeshEncoder.encode and what it calls), from the base table   *)
(* to the stream of EdgebreakerWire.                                       *)
(*                                                                         *)
(* The traversal removes one face per step.  From each seed face it goes   *)
(* right as long as the face's tip vertex is new (C); when it is not, the  *)
(* step says which of the two remaining neighbours are gone (R, L, E) or   *)
(* that the rest falls into two parts (S), of which the right one is       *)
(* walked first and the left one waits on a stack.                         *)
(***************************************************************************)
EXTENDS EdgebreakerBaseTable, EdgebreakerWire

CONSTANT AttributeCounts    \* how many attributes besides the position

VARIABLES
  nativeTraversalOrder,     \* seeds in face order rather than canonical order
  visitedFaces, visitedVertices, visitedHoles,
  current,                  \* the corner of the inner loop
  cornerTraversalStack,
  lastEncodedSymbolID, faceToSplitSymbol,
  processedCorners, initFaceCorners

traversalVars ==
  <<nativeTraversalOrder, visitedFaces, visitedVertices, visitedHoles, current,
    cornerTraversalStack, lastEncodedSymbolID, faceToSplitSymbol,
    processedCorners, initFaceCorners>>

encoderVars == <<baseVars, traversalVars, wireVars>>

AllFaces == 0 .. mesh.numFaces - 1

TraversalInit ==
  /\ nativeTraversalOrder \in BOOLEAN
  /\ visitedFaces = {}
  /\ visitedVertices = {}
  /\ visitedHoles = {}
  /\ current = NoCorner
  /\ cornerTraversalStack = <<>>
  /\ lastEncodedSymbolID = -1
  /\ faceToSplitSymbol = [f \in AllFaces |-> -1]
  /\ processedCorners = <<>>
  /\ initFaceCorners = <<>>

WireInit ==
  /\ symbols = <<>>
  /\ startFaces = <<>>
  /\ seams = <<>>
  /\ splitEvents = <<>>
  /\ numSplitSymbols = 0
  /\ numEncodedVertices = 0
  /\ numEncodedFaces = 0
  /\ numAttributeData \in AttributeCounts

EncoderInit == BaseInit /\ TraversalInit /\ WireInit

-----------------------------------------------------------------------------

(* Turn around the boundary vertex ahead of corner d to the last face.     *)
TurnToBoundary(d) ==
  LET turn[e \in AllCorners] ==
        IF opposite[e] < 0 THEN e ELSE turn[NextCorner(opposite[e])]
  IN  turn[d]

(* encodeHole: the vertices met walking the boundary from startCorner's    *)
(* vertex back to it.                                                      *)
VertexBehind(c) == cornerVertex[PreviousCorner(c)]

HoleVertices(startCorner) ==
  LET walk[path \in Seq(BoundaryCorners) \ {<<>>}] ==
        IF VertexBehind(LastOf(path)) = cornerVertex[startCorner]
        THEN path
        ELSE walk[Append(path, NextBoundaryCorner(LastOf(path)))]
      hole == walk[<<TurnToBoundary(PreviousCorner(startCorner))>>]
  IN  {VertexBehind(hole[i]) : i \in 1 .. Len(hole) - 1}

HoleOf(startCorner) ==
  LET h == vertexHoleID[cornerVertex[startCorner]] IN IF h >= 0 THEN {h} ELSE {}

(* findEdgebreakerInitFaceConfiguration: a face none of whose vertices is  *)
(* on a boundary is an interior start; otherwise the start corner faces a  *)
(* boundary edge of the face or of the fan around its boundary vertex.     *)
FaceCorners(f) == {3 * f, 3 * f + 1, 3 * f + 2}

TouchesBoundary(c) == opposite[c] < 0 \/ vertexHoleID[cornerVertex[c]] # -1

InteriorStart(f) == \A c \in FaceCorners(f) : ~ TouchesBoundary(c)

StartCorner(f) ==
  IF InteriorStart(f) THEN 3 * f
  ELSE LET c == CHOOSE d \in FaceCorners(f) :
                   /\ TouchesBoundary(d)
                   /\ \A e \in FaceCorners(f) : TouchesBoundary(e) => d <= e
       IN  IF opposite[c] < 0 THEN c
           ELSE PreviousCorner(LastOf(RightFan(opposite, c)))

(* nextTraversalSeed: the first unvisited face of the seed order.  The     *)
(* canonical order sorts faces by their point data, so any order is        *)
(* possible; the native order is the order of the faces.                   *)
IsNextSeed(f) ==
  /\ f \in AllFaces \ visitedFaces
  /\ nativeTraversalOrder => \A g \in AllFaces \ visitedFaces : f <= g

EncodeConnectivityFrom(corner) ==
  /\ cornerTraversalStack' = <<corner>>
  /\ phase' = "branch"

SeedInteriorFace(f) ==
  /\ phase = "ready"
  /\ IsNextSeed(f)
  /\ InteriorStart(f)
  /\ LET start == StartCorner(f)
         opp == opposite[NextCorner(start)]
     IN  /\ visitedVertices' = visitedVertices \cup
                                 {cornerVertex[c] : c \in FaceCorners(f)}
         /\ visitedFaces' = visitedFaces \cup {f}
         /\ initFaceCorners' = Append(initFaceCorners, NextCorner(start))
         /\ IF opp >= 0 /\ Face(opp) \notin visitedFaces'
            THEN EncodeConnectivityFrom(opp)
            ELSE UNCHANGED <<cornerTraversalStack, phase>>
  /\ startFaces' = Append(startFaces, TRUE)
  /\ UNCHANGED <<mesh, cursor, tableVars, openEdges, baseVisitedVertices,
                 baseVisitedCorners, vertexHoleID, numHoles,
                 nativeTraversalOrder, visitedHoles, current,
                 lastEncodedSymbolID, faceToSplitSymbol, processedCorners,
                 symbols, seams, splitEvents, numSplitSymbols,
                 numEncodedVertices, numEncodedFaces, numAttributeData>>

SeedBoundaryFace(f) ==
  /\ phase = "ready"
  /\ IsNextSeed(f)
  /\ ~ InteriorStart(f)
  /\ LET hole == NextCorner(StartCorner(f))
     IN  /\ visitedVertices' = visitedVertices \cup {cornerVertex[hole]}
                                 \cup HoleVertices(hole)
         /\ visitedHoles' = visitedHoles \cup HoleOf(hole)
  /\ EncodeConnectivityFrom(StartCorner(f))
  /\ startFaces' = Append(startFaces, FALSE)
  /\ UNCHANGED <<mesh, cursor, tableVars, openEdges, baseVisitedVertices,
                 baseVisitedCorners, vertexHoleID, numHoles,
                 nativeTraversalOrder, visitedFaces, current,
                 lastEncodedSymbolID, faceToSplitSymbol, processedCorners,
                 initFaceCorners, symbols, seams, splitEvents, numSplitSymbols,
                 numEncodedVertices, numEncodedFaces, numAttributeData>>

-----------------------------------------------------------------------------
(* encodeConnectivityFromCorner: the outer loop takes branches from the    *)
(* stack, the inner loop walks one branch.                                 *)

Gone(corner, faces) == corner < 0 \/ Face(corner) \in faces

UnchangedOutsideTraversal ==
  UNCHANGED <<mesh, cursor, tableVars, openEdges, baseVisitedVertices,
              baseVisitedCorners, vertexHoleID, numHoles,
              nativeTraversalOrder, initFaceCorners, startFaces, seams,
              numEncodedVertices, numEncodedFaces, numAttributeData>>

BranchIsOverOutside == Last(cornerTraversalStack) < 0    \* walks visited faces again
BranchIsOver == Gone(Last(cornerTraversalStack), visitedFaces)

DropVisitedBranch ==
  /\ phase = "branch"
  /\ cornerTraversalStack # <<>>
  /\ BranchIsOver
  /\ cornerTraversalStack' = Front(cornerTraversalStack)
  /\ UnchangedOutsideTraversal
  /\ UNCHANGED <<phase, visitedFaces, visitedVertices, visitedHoles, current,
                 lastEncodedSymbolID, faceToSplitSymbol,
                 processedCorners, symbols, splitEvents, numSplitSymbols>>

EnterBranch ==
  /\ phase = "branch"
  /\ cornerTraversalStack # <<>>
  /\ ~ BranchIsOver
  /\ current' = Last(cornerTraversalStack)
  /\ phase' = "walk"
  /\ UnchangedOutsideTraversal
  /\ UNCHANGED <<visitedFaces, visitedVertices, visitedHoles,
                 cornerTraversalStack, lastEncodedSymbolID, faceToSplitSymbol,
                 processedCorners, symbols, splitEvents, numSplitSymbols>>

ComponentDone ==
  /\ phase = "branch"
  /\ cornerTraversalStack = <<>>
  /\ phase' = "ready"
  /\ UnchangedOutsideTraversal
  /\ UNCHANGED <<visitedFaces, visitedVertices, visitedHoles, current,
                 cornerTraversalStack, lastEncodedSymbolID, faceToSplitSymbol,
                 processedCorners, symbols, splitEvents, numSplitSymbols>>

(* What every iteration of the inner loop starts with.  The code gives up  *)
(* after (4F + 1) * F iterations; EachFaceIsWalkedOnce shows that no call  *)
(* makes more than F, so the limit is left out.                            *)
ReachCorner(symbol) ==
  /\ phase = "walk"
  /\ lastEncodedSymbolID' = lastEncodedSymbolID + 1
  /\ visitedFaces' = visitedFaces \cup {Face(current)}
  /\ processedCorners' = Append(processedCorners, current)
  /\ symbols' = Append(symbols, symbol)
  /\ UnchangedOutsideTraversal

TipVertex == cornerVertex[current]
TipOnBoundary == vertexHoleID[TipVertex] # -1
NewInteriorTip == TipVertex \notin visitedVertices /\ ~ TipOnBoundary

RightOfCurrent == RightCorner(opposite, current)
LeftOfCurrent == LeftCorner(opposite, current)
RightVisited == Gone(RightOfCurrent, visitedFaces \cup {Face(current)})
LeftVisited == Gone(LeftOfCurrent, visitedFaces \cup {Face(current)})

(* checkAndStoreTopologySplitEvent for the neighbour across one edge.      *)
SplitEventAtSwapped(neighbour, edge) ==
  IF neighbour >= 0 /\ faceToSplitSymbol[Face(neighbour)] >= 0
  THEN <<[source |-> faceToSplitSymbol[Face(neighbour)],
          split |-> lastEncodedSymbolID + 1, edge |-> edge]>>
  ELSE <<>>
SplitEventAt(neighbour, edge) ==
  IF neighbour >= 0 /\ faceToSplitSymbol[Face(neighbour)] >= 0
  THEN <<[source |-> lastEncodedSymbolID + 1,
          split |-> faceToSplitSymbol[Face(neighbour)], edge |-> edge]>>
  ELSE <<>>

SymbolC ==
  /\ ReachCorner("C")
  /\ NewInteriorTip
  /\ visitedVertices' = visitedVertices \cup {TipVertex}
  /\ current' = RightOfCurrent
  /\ UNCHANGED <<phase, visitedHoles, cornerTraversalStack, faceToSplitSymbol,
                 splitEvents, numSplitSymbols>>

SymbolR ==
  /\ ReachCorner("R")
  /\ ~ NewInteriorTip /\ RightVisited /\ ~ LeftVisited
  /\ visitedVertices' = visitedVertices \cup {TipVertex}
  /\ splitEvents' = splitEvents \o SplitEventAt(RightOfCurrent, "right")
  /\ current' = LeftOfCurrent
  /\ UNCHANGED <<phase, visitedHoles, cornerTraversalStack, faceToSplitSymbol,
                 numSplitSymbols>>

SymbolL ==
  /\ ReachCorner("L")
  /\ ~ NewInteriorTip /\ ~ RightVisited /\ LeftVisited
  /\ visitedVertices' = visitedVertices \cup {TipVertex}
  /\ splitEvents' = splitEvents \o SplitEventAt(LeftOfCurrent, "left")
  /\ current' = RightOfCurrent
  /\ UNCHANGED <<phase, visitedHoles, cornerTraversalStack, faceToSplitSymbol,
                 numSplitSymbols>>

SymbolE ==
  /\ ReachCorner("E")
  /\ ~ NewInteriorTip /\ RightVisited /\ LeftVisited
  /\ visitedVertices' = visitedVertices \cup {TipVertex}
  /\ splitEvents' = splitEvents \o SplitEventAt(RightOfCurrent, "right")
                                \o SplitEventAt(LeftOfCurrent, "left")
  /\ cornerTraversalStack' = Front(cornerTraversalStack)
  /\ phase' = "branch"
  /\ UNCHANGED <<visitedHoles, current, faceToSplitSymbol, numSplitSymbols>>

SymbolS ==
  /\ ReachCorner("S")
  /\ ~ NewInteriorTip /\ ~ RightVisited /\ ~ LeftVisited
  /\ IF TipOnBoundary /\ vertexHoleID[TipVertex] \notin visitedHoles
     THEN /\ visitedVertices' = visitedVertices \cup {TipVertex}
                                  \cup HoleVertices(current)
          /\ visitedHoles' = visitedHoles \cup HoleOf(current)
     ELSE /\ visitedVertices' = visitedVertices \cup {TipVertex}
          /\ UNCHANGED visitedHoles
  /\ numSplitSymbols' = numSplitSymbols + 1
  /\ faceToSplitSymbol' =
       [faceToSplitSymbol EXCEPT ![Face(current)] = lastEncodedSymbolID + 1]
  /\ cornerTraversalStack' =
       Front(cornerTraversalStack) \o <<LeftOfCurrent, RightOfCurrent>>
  /\ phase' = "branch"
  /\ UNCHANGED <<current, splitEvents>>

-----------------------------------------------------------------------------
(* The end of encode: the order the decoder will meet the faces in, the    *)
(* seam bits in that order, and the counts.                                *)

(* encodeAttributeConnectivitiesOnFace over all faces: every inner edge    *)
(* once, at the first of its two faces.                                    *)
FaceOrderPreviousFirst(c) == <<c, PreviousCorner(c), NextCorner(c)>>
FaceOrder(c) == <<c, NextCorner(c), PreviousCorner(c)>>

(* Three corners to a face; a seam bit goes out at a corner whose edge is  *)
(* glued to a face that has not had its turn.                              *)
CornerAt(order, place) == FaceOrder(order[Face(place) + 1])[(place % 3) + 1]

TakesSeamBit(order, place) ==
  LET across == opposite[CornerAt(order, place)]
  IN  /\ across >= 0
      /\ \A i \in 1 .. Face(place) + 1 : Face(order[i]) # Face(across)

SeamOrder(order) ==
  LET before[place \in 0 .. 3 * Len(order)] ==
        IF place = 0 THEN <<>>
        ELSE IF TakesSeamBit(order, place - 1)
             THEN Append(before[place - 1], CornerAt(order, place - 1))
             ELSE before[place - 1]
  IN  before[3 * Len(order)]

WriteStream ==
  /\ phase = "ready"
  /\ visitedFaces = AllFaces
  /\ LET order == Reverse(processedCorners) \o initFaceCorners
     IN  /\ processedCorners' = order
         /\ seams' = IF numAttributeData > 0 THEN SeamOrder(order) ELSE <<>>
  /\ numEncodedVertices' = Cardinality({v \in VertexIDs : vertexCorners[v] >= 0})
  /\ numEncodedFaces' = mesh.numFaces
  /\ phase' = IF EncodableSplitEvents(splitEvents) THEN "written" ELSE "rejected"
  /\ UNCHANGED <<mesh, cursor, tableVars, openEdges, baseVisitedVertices,
                 baseVisitedCorners, vertexHoleID, numHoles,
                 nativeTraversalOrder, visitedFaces, visitedVertices,
                 visitedHoles, current, cornerTraversalStack,
                 lastEncodedSymbolID, faceToSplitSymbol, initFaceCorners,
                 symbols, startFaces, splitEvents, numSplitSymbols,
                 numAttributeData>>

TraversalNext ==
  \/ \E f \in AllFaces : SeedInteriorFace(f) \/ SeedBoundaryFace(f)
  \/ DropVisitedBranch \/ EnterBranch \/ ComponentDone
  \/ SymbolC \/ SymbolR \/ SymbolL \/ SymbolE \/ SymbolS
  \/ WriteStream

EncoderNext ==
  \/ BaseNext /\ UNCHANGED <<traversalVars, wireVars>>
  \/ TraversalNext

=============================================================================
