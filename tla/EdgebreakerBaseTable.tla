------------------------ MODULE EdgebreakerBaseTable ------------------------
(***************************************************************************)
(* How the edgebreaker encoder turns the triangles of a mesh into the      *)
(* corner table it walks (edgebreaker_encode.go:                           *)
(* prepareEdgebreakerBaseEncodingState, buildNonManifoldEdgebreakerBaseTable*)
(* and findEdgebreakerHoles).                                              *)
(*                                                                         *)
(* The input need not be a manifold: an edge may have any number of faces, *)
(* and the faces at a vertex may fall into several fans.  Half-edges are   *)
(* matched in corner order; then every vertex keeps its first fan and each *)
(* further fan gets a vertex of its own; then the boundary loops are       *)
(* numbered.  One action is one iteration of the loop of each pass.        *)
(***************************************************************************)
EXTENDS CornerTables, FiniteSets

CONSTANT Meshes    \* the triangle meshes that may be encoded

(* A mesh names the number of vertices (position entries, or points when   *)
(* the mesh is split on its seams) and the vertex at every corner.         *)
IsMesh(m) ==
  /\ m.numVertices \in Nat
  /\ m.numFaces \in Nat
  /\ m.vertexAt \in [Corners(m.numFaces) -> Nat]

ASSUME MeshesAssumption == \A m \in Meshes : IsMesh(m)

VARIABLES
  mesh,            \* the mesh being encoded
  phase,           \* the pass the encoder is in
  cursor,          \* the corner the pass has reached
  cornerVertex, opposite, vertexCorners, numVertices,   \* the base table
  openEdges,       \* per source vertex, the half-edges no face has matched
  baseVisitedVertices, baseVisitedCorners,
  vertexHoleID, numHoles

tableVars == <<cornerVertex, opposite, vertexCorners, numVertices>>
baseVars == <<mesh, phase, cursor, tableVars, openEdges,
              baseVisitedVertices, baseVisitedCorners, vertexHoleID, numHoles>>

AllCorners == Corners(mesh.numFaces)

(* The table has room for every vertex of the mesh or, if that is more,    *)
(* for a vertex per corner; vertices beyond numVertices are not in use.    *)
MaxVertices ==
  IF mesh.numVertices > 3 * mesh.numFaces
  THEN mesh.numVertices ELSE 3 * mesh.numFaces
VertexIDs == 0 .. MaxVertices - 1

DegenerateFace(f) ==
  \E c, d \in {3 * f, 3 * f + 1, 3 * f + 2} :
      c # d /\ mesh.vertexAt[c] = mesh.vertexAt[d]

BaseInit ==
  /\ mesh \in Meshes
  /\ phase = "faces"
  /\ cursor = 0
  /\ cornerVertex = [c \in AllCorners |-> -1]
  /\ opposite = [c \in AllCorners |-> NoCorner]
  /\ vertexCorners = [v \in VertexIDs |-> NoCorner]
  /\ numVertices = 0
  /\ openEdges = [v \in VertexIDs |-> <<>>]
  /\ baseVisitedVertices = {}
  /\ baseVisitedCorners = {}
  /\ vertexHoleID = [v \in VertexIDs |-> -1]
  /\ numHoles = 0

(* The table is reset and filled face by face; a degenerate face or an     *)
(* index beyond the vertices ends the encoding with an error.              *)
LoadFaces ==
  /\ phase = "faces"
  /\ IF \/ \E f \in 0 .. mesh.numFaces - 1 : DegenerateFace(f)
        \/ \E c \in AllCorners : mesh.vertexAt[c] >= mesh.numVertices
     THEN /\ phase' = "rejected"
          /\ UNCHANGED <<numVertices, cornerVertex>>
     ELSE /\ phase' = "opposites"
          /\ numVertices' = mesh.numVertices
          /\ cornerVertex' = mesh.vertexAt
  /\ UNCHANGED <<mesh, cursor, opposite, vertexCorners, openEdges,
                 baseVisitedVertices, baseVisitedCorners, vertexHoleID, numHoles>>

(* The open half-edges of vertex v that run back along corner c's edge and *)
(* do not belong to a mirrored copy of c's own face.                       *)
MatchesMirrored(c, v) ==                    \* takes a mirrored copy for a neighbour
  {i \in DOMAIN openEdges[v] : openEdges[v][i].sink = cornerVertex[NextCorner(c)]}
Matches(c, v) ==
  {i \in DOMAIN openEdges[v] :
      /\ openEdges[v][i].sink = cornerVertex[NextCorner(c)]
      /\ cornerVertex[openEdges[v][i].corner] # cornerVertex[c]}

CornersAt(v) == {c \in AllCorners : cornerVertex[c] = v}

(* A matched half-edge leaves the list, the ones after it move up.         *)
WithoutIndexKept(list, i) == list           \* leaves it there
WithoutIndexCut(list, i) == SubSeq(list, 1, i - 1)     \* loses the ones after it
WithoutIndex(list, i) ==
  [j \in 1 .. Len(list) - 1 |-> IF j < i THEN list[j] ELSE list[j + 1]]

HalfEdgeSource(c) == cornerVertex[NextCorner(c)]
HalfEdgeSink(c) == cornerVertex[PreviousCorner(c)]

UnchangedByMatching ==
  UNCHANGED <<mesh, cornerVertex, vertexCorners, numVertices,
              baseVisitedVertices, baseVisitedCorners, vertexHoleID, numHoles>>

(* The next corner is glued to the first half-edge it matches,             *)
MatchHalfEdge ==
  /\ phase = "opposites"
  /\ cursor \in AllCorners
  /\ \E i \in Matches(cursor, HalfEdgeSink(cursor)) :
       /\ \A j \in Matches(cursor, HalfEdgeSink(cursor)) : i <= j
       /\ opposite' =
            Glue(opposite, cursor, openEdges[HalfEdgeSink(cursor)][i].corner)
       /\ openEdges' =
            [openEdges EXCEPT ![HalfEdgeSink(cursor)] = WithoutIndex(@, i)]
  /\ cursor' = cursor + 1
  /\ UnchangedByMatching
  /\ UNCHANGED phase

(* or its own half-edge is left open, in one of the slots its source has:  *)
(* as many as there are corners at it.                                     *)
OpenHalfEdge ==
  /\ phase = "opposites"
  /\ cursor \in AllCorners
  /\ Matches(cursor, HalfEdgeSink(cursor)) = {}
  /\ LET v == HalfEdgeSource(cursor)
         e == [sink |-> HalfEdgeSink(cursor), corner |-> cursor]
     IN  IF Len(openEdges[v]) < Cardinality(CornersAt(v))
         THEN /\ openEdges' = [openEdges EXCEPT ![v] = Append(@, e)]
              /\ UNCHANGED phase
         ELSE /\ phase' = "rejected"
              /\ UNCHANGED openEdges
  /\ cursor' = cursor + 1
  /\ UnchangedByMatching
  /\ UNCHANGED opposite

OppositesDone ==
  /\ phase = "opposites"
  /\ cursor \notin AllCorners
  /\ phase' = "vertices"
  /\ cursor' = 0
  /\ UNCHANGED <<mesh, tableVars, openEdges, baseVisitedVertices, baseVisitedCorners,
                 vertexHoleID, numHoles>>

(* The fan of the next unvisited corner is given the corner's vertex or,   *)
(* when that vertex already has a fan, a new one.                          *)
IsNonManifoldVertex(c) == cornerVertex[c] \in baseVisitedVertices

FanVertexShared(c) == cornerVertex[c]       \* never splits
FanVertex(c) == IF IsNonManifoldVertex(c) THEN numVertices ELSE cornerVertex[c]

NoVertexLeft(c) == IsNonManifoldVertex(c) /\ numVertices >= MaxVertices

FanCorner(c) == LastOf(LeftFan(opposite, c))

VisitFan ==
  /\ phase = "vertices"
  /\ cursor \in AllCorners \ baseVisitedCorners
  /\ ~ NoVertexLeft(cursor)
  /\ LET vertex == FanVertex(cursor)
         fan == FanCorners(opposite, cursor)
     IN  /\ baseVisitedVertices' = baseVisitedVertices \cup {vertex}
         /\ baseVisitedCorners' = baseVisitedCorners \cup fan
         /\ vertexCorners' = [vertexCorners EXCEPT ![vertex] = FanCorner(cursor)]
         /\ cornerVertex' = [d \in AllCorners |->
                IF d \in fan THEN vertex ELSE cornerVertex[d]]
  /\ numVertices' = IF IsNonManifoldVertex(cursor) THEN numVertices + 1 ELSE numVertices
  /\ cursor' = cursor + 1
  /\ UNCHANGED <<mesh, phase, opposite, openEdges, vertexHoleID, numHoles>>

OutOfVerticesUnreported == FALSE            \* neither splits nor gives up
OutOfVertices ==
  /\ phase = "vertices"
  /\ cursor \in AllCorners \ baseVisitedCorners
  /\ NoVertexLeft(cursor)
  /\ phase' = "rejected"
  /\ UNCHANGED <<mesh, cursor, tableVars, openEdges, baseVisitedVertices,
                 baseVisitedCorners, vertexHoleID, numHoles>>

SkipVisitedCorner ==
  /\ phase = "vertices"
  /\ cursor \in AllCorners \cap baseVisitedCorners
  /\ cursor' = cursor + 1
  /\ UNCHANGED <<mesh, phase, tableVars, openEdges, baseVisitedVertices,
                 baseVisitedCorners, vertexHoleID, numHoles>>

VerticesDone ==
  /\ phase = "vertices"
  /\ cursor \notin AllCorners
  /\ phase' = "holes"
  /\ cursor' = 0
  /\ UNCHANGED <<mesh, tableVars, openEdges, baseVisitedVertices, baseVisitedCorners,
                 vertexHoleID, numHoles>>

(* From a boundary corner c, the next corner that faces a boundary edge:   *)
(* turn around Next(c)'s vertex until no face is left.                     *)
NextBoundaryCorner(c) ==
  LET turn[d \in AllCorners] ==
        IF opposite[d] < 0 THEN d ELSE turn[NextCorner(opposite[d])]
  IN  turn[NextCorner(c)]

BoundaryVertexOf(c) == cornerVertex[NextCorner(c)]

BoundaryCorners == {c \in AllCorners : opposite[c] = NoCorner}

(* The boundary corners walked from c until a vertex has a hole number.    *)
BoundaryLoopStart(c) == <<c>>               \* stops after one edge
BoundaryLoop(c) ==
  LET loop[path \in Seq(BoundaryCorners) \ {<<>>}] ==
        LET n == NextBoundaryCorner(LastOf(path))
        IN  IF \/ vertexHoleID[BoundaryVertexOf(n)] # -1
               \/ \E i \in DOMAIN path :
                     BoundaryVertexOf(path[i]) = BoundaryVertexOf(n)
            THEN path
            ELSE loop[Append(path, n)]
  IN  loop[<<c>>]

NothingToNumber(c) == opposite[c] >= 0 \/ vertexHoleID[BoundaryVertexOf(c)] # -1

NumberHole ==
  /\ phase = "holes"
  /\ cursor \in AllCorners
  /\ ~ NothingToNumber(cursor)
  /\ LET loop == BoundaryLoop(cursor)
         onLoop == {BoundaryVertexOf(loop[i]) : i \in DOMAIN loop}
     IN  vertexHoleID' = [v \in VertexIDs |->
             IF v \in onLoop THEN numHoles ELSE vertexHoleID[v]]
  /\ numHoles' = numHoles + 1
  /\ cursor' = cursor + 1
  /\ UNCHANGED <<mesh, phase, tableVars, openEdges, baseVisitedVertices,
                 baseVisitedCorners>>

SkipHoleCorner ==
  /\ phase = "holes"
  /\ cursor \in AllCorners
  /\ NothingToNumber(cursor)
  /\ cursor' = cursor + 1
  /\ UNCHANGED <<mesh, phase, tableVars, openEdges, baseVisitedVertices,
                 baseVisitedCorners, vertexHoleID, numHoles>>

HolesDone ==
  /\ phase = "holes"
  /\ cursor \notin AllCorners
  /\ phase' = "ready"
  /\ UNCHANGED <<mesh, cursor, tableVars, openEdges, baseVisitedVertices,
                 baseVisitedCorners, vertexHoleID, numHoles>>

BaseNext ==
  \/ LoadFaces
  \/ MatchHalfEdge \/ OpenHalfEdge \/ OppositesDone
  \/ VisitFan \/ OutOfVertices \/ SkipVisitedCorner \/ VerticesDone
  \/ NumberHole \/ SkipHoleCorner \/ HolesDone

(* The encoder is one goroutine that runs to its end: nothing but a        *)
(* cancelled context stops it, so it is given weak fairness.               *)
BaseSpec == BaseInit /\ [][BaseNext]_baseVars /\ WF_baseVars(BaseNext)

-----------------------------------------------------------------------------

Phases == {"faces", "opposites", "vertices", "holes", "ready", "rejected"}

(* The types of the variables of the three passes; StoredCornerIsLeftmost  *)
(* says what vertexCorners holds.                                          *)
BaseTypeOK ==
  /\ IsMesh(mesh)
  /\ phase \in Phases
  /\ cursor \in 0 .. 3 * mesh.numFaces
  /\ cornerVertex \in [AllCorners -> VertexIDs \cup {-1}]
  /\ opposite \in [AllCorners -> AllCorners \cup {NoCorner}]
  /\ DOMAIN vertexCorners = VertexIDs
  /\ numVertices \in 0 .. MaxVertices
  /\ openEdges \in [VertexIDs -> Seq([sink : VertexIDs, corner : AllCorners])]
  /\ baseVisitedVertices \subseteq VertexIDs
  /\ vertexHoleID \in [VertexIDs -> Int]
  /\ numHoles \in Nat

(* Whatever the faces, opposite corners come in pairs, and this stays true *)
(* through every iteration of the half-edge matching: a third face on an   *)
(* edge never steals the partner of the second.                            *)
OppositesArePairs == IsPairing(opposite)

(* A pair faces one edge of the mesh from its two sides: the corners are   *)
(* of different faces, run along the edge in opposite directions, and are  *)
(* not those of mirrored copies of one face.                               *)
PairsFaceOneEdge ==
  \A c \in AllCorners : opposite[c] # NoCorner =>
     /\ Face(opposite[c]) # Face(c)
     /\ FacesSameEdge(mesh.vertexAt, c, opposite[c])
     /\ mesh.vertexAt[c] # mesh.vertexAt[opposite[c]]

(* The matching leaves no two half-edges open that could be glued, so the  *)
(* boundary of the encoded mesh is the boundary of the mesh.               *)
NothingLeftToGlue ==
  phase \in {"vertices", "holes", "ready"} =>
    \A c, d \in AllCorners :
       ~ /\ opposite[c] = NoCorner
         /\ opposite[d] = NoCorner
         /\ FacesSameEdge(mesh.vertexAt, c, d)
         /\ mesh.vertexAt[c] # mesh.vertexAt[d]

(* After the second pass every vertex has one fan, all the corners of that *)
(* fan and no others: the table is a manifold even when the mesh is not.   *)
OneFanPerVertex ==
  phase \in {"holes", "ready"} =>
    \A c \in AllCorners : CornersAt(cornerVertex[c]) = FanCorners(opposite, c)

(* The stored corner of an open fan is its leftmost one: the walks of the  *)
(* decoder and the boundary test rely on it.                               *)
StoredCornerIsLeftmost ==
  phase \in {"holes", "ready"} =>
    \A v \in {cornerVertex[c] : c \in AllCorners} :
       /\ vertexCorners[v] \in CornersAt(v)
       /\ LeftMostFrom(opposite, vertexCorners[v]) = vertexCorners[v]

HoleAt(c) == vertexHoleID[BoundaryVertexOf(c)]
TurnsWithin(S) == \A c \in S : NextBoundaryCorner(c) \in S

(* A vertex has a hole number exactly when it is on the boundary, and the  *)
(* vertices with one number are the vertices of one boundary loop.         *)
HolesAreBoundaryLoops ==
  phase = "ready" =>
    /\ \A v \in 0 .. numVertices - 1 :
         vertexHoleID[v] # -1 <=> \E c \in BoundaryCorners : BoundaryVertexOf(c) = v
    /\ \A c \in BoundaryCorners : HoleAt(NextBoundaryCorner(c)) = HoleAt(c)
    /\ {HoleAt(c) : c \in BoundaryCorners} = 0 .. numHoles - 1
    /\ \A S \in SUBSET BoundaryCorners :
         TurnsWithin(S) =>
           \A c \in BoundaryCorners : (\E d \in S : HoleAt(c) = HoleAt(d)) => c \in S

(* The two ways a triangle list can be improper.                           *)
Improper ==
  \/ \E f \in 0 .. mesh.numFaces - 1 : DegenerateFace(f)
  \/ \E c \in AllCorners : mesh.vertexAt[c] >= mesh.numVertices

EveryVertexIsUsed ==
  \A v \in 0 .. mesh.numVertices - 1 : \E c \in AllCorners : mesh.vertexAt[c] = v

(* When faces use all vertices, the table has room for a vertex per fan    *)
(* however non-manifold the mesh is, and a slot per open half-edge: no     *)
(* proper mesh is turned away.                                             *)
RoomForEveryFan == phase = "rejected" => Improper \/ ~ EveryVertexIsUsed

(* What every later walk needs of the vertices: one fan each, its leftmost *)
(* corner stored, and none short of a slot.                                *)
FansAreSound ==
  BaseTypeOK /\ OneFanPerVertex /\ StoredCornerIsLeftmost /\ RoomForEveryFan

(* A vertex no face uses makes no difference to whether a mesh can be      *)
(* encoded: isolated points are dropped on the way                         *)
(* (edgebreaker_behavior_test.go, TestMeshEdgebreakerIsolatedPointCleanup).*)
ProperTrianglesAreAccepted == phase = "rejected" => Improper

(* The passes end.                                                         *)
BaseTerminates == <>(phase \in {"ready", "rejected"})

=============================================================================
