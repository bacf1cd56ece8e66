--------------------------- MODULE AttributeLayout ---------------------------
(***************************************************************************)
(* How the edgebreaker codec lays attribute values out over a mesh, written *)
(* as operators on a table                                                 *)
(*    [opposite, cornerVertex, vertexCorners, numVertices, isVertHole]     *)
(* because the encoder runs them on its source table and on its own        *)
(* rebuilding of the decoded table, and the reader on the decoded table.   *)
(*                                                                         *)
(* An attribute that changes value inside the mesh has seams: edges whose  *)
(* two sides carry different entries.  Cut along its seams the mesh has    *)
(* more vertices; the attribute stores one value for each of them, in the  *)
(* order a walk over the faces first meets them.  Points are the classes   *)
(* of corners that no seam of any attribute separates.                     *)
(***************************************************************************)
EXTENDS CornerTables, FiniteSetsExt, SequencesExt

LOCAL CornersOf(T) == DOMAIN T.opposite
LOCAL Ascending(n) == [i \in 1 .. n |-> i - 1]

(* markSeam: an edge is marked at both its corners and at both its         *)
(* vertices; a boundary edge is a seam of every attribute, but no inner    *)
(* one.                                                                    *)
SeamEdges(T, marked) ==
  marked \cup {T.opposite[c] : c \in {d \in marked : T.opposite[d] >= 0}}

VerticesOnSeam(T, edges) ==
  UNION {{T.cornerVertex[NextCorner(c)], T.cornerVertex[PreviousCorner(c)]} : c \in edges}

(* Opposite of the attribute connectivity: no neighbour across a seam.     *)
AttributeOpposite(T, edges) ==
  [c \in CornersOf(T) |-> IF c \in edges THEN NoCorner ELSE T.opposite[c]]

(* Corners are numbered walk by walk: a corner that starts something new   *)
(* takes the next number and is kept as its first corner, the others take  *)
(* the number of the corner before them.                                   *)
Numberings(T) ==
  [of : [CornersOf(T) -> -1 .. Cardinality(CornersOf(T))], first : Seq(CornersOf(T))]

Unnumbered(T) == [of |-> [c \in CornersOf(T) |-> -1], first |-> <<>>]

NumberAlong(T, walk, Starts(_, _), numbered) ==
  LET from[path \in Seq(CornersOf(T)), i \in Nat, n \in Numberings(T)] ==
        IF i > Len(path) THEN n
        ELSE LET first == IF Starts(path, i) THEN Append(n.first, path[i]) ELSE n.first
             IN  from[path, i + 1,
                      [of |-> [n.of EXCEPT ![path[i]] = Len(first) - 1], first |-> first]]
  IN  from[walk, 1, numbered]

(* Step(numbered, x) for the members x of a sequence, in order.            *)
ForEach(T, sequence, Step(_, _), numbered) ==
  LET from[rest \in Seq(Int), n \in Numberings(T)] ==
        IF rest = <<>> THEN n ELSE from[Tail(rest), Step(n, Head(rest))]
  IN  from[sequence, numbered]

(* recomputeVertices.  A vertex on a seam is walked from the corner right  *)
(* of the seam; a fan that closes without meeting one is an error.         *)
FirstCornerOfFan(T, edges, onSeam, c) ==
  IF T.cornerVertex[c] \in onSeam
  THEN LastOf(LeftFan(AttributeOpposite(T, edges), c))
  ELSE c

StoredCorners(T) ==
  SelectSeq([i \in 1 .. T.numVertices |-> T.vertexCorners[i - 1]], LAMBDA c : c >= 0)

NoSeamInFan(T, edges, onSeam) ==
  \E i \in DOMAIN StoredCorners(T) :
     LET c == StoredCorners(T)[i]
     IN  T.cornerVertex[c] \in onSeam /\ ClosedFan(AttributeOpposite(T, edges), c)

UntilNumbered(path, numbered) ==
  LET met == {i \in 2 .. Len(path) : numbered.of[path[i]] >= 0}
  IN  IF met = {} THEN path ELSE SubSeq(path, 1, Min(met) - 1)

RecomputedVertices(T, edges, onSeam) ==
  LET startsVertex(path, i) == i = 1 \/ NextCorner(path[i]) \in edges
      fanOfVertex(n, c) ==
        NumberAlong(T, RightFan(T.opposite, FirstCornerOfFan(T, edges, onSeam, c)),
                    startsVertex, n)
      leftoverFan(n, c) ==
        IF n.of[c] >= 0 THEN n
        ELSE NumberAlong(T, UntilNumbered(RightFan(T.opposite, c), n), startsVertex, n)
  IN  ForEach(T, Ascending(Cardinality(CornersOf(T))), leftoverFan,
              ForEach(T, StoredCorners(T), fanOfVertex, Unnumbered(T)))

(* The connectivity of an attribute whose seams are marked at the corners  *)
(* of marked.                                                              *)
AttributeConnectivity(T, marked) ==
  LET connectivity[edges \in SUBSET CornersOf(T), onSeam \in SUBSET Range(T.cornerVertex),
                   n \in Numberings(T)] ==
        [seamEdges |-> edges, vertexOnSeam |-> onSeam,
         noInteriorSeams |-> \A c \in edges : T.opposite[c] < 0,
         cornerToVertex |-> n.of, leftMostCorners |-> n.first]
      withSeams[edges \in SUBSET CornersOf(T), onSeam \in SUBSET Range(T.cornerVertex)] ==
        connectivity[edges, onSeam, RecomputedVertices(T, edges, onSeam)]
      withEdges[edges \in SUBSET CornersOf(T)] == withSeams[edges, VerticesOnSeam(T, edges)]
  IN  withEdges[SeamEdges(T, marked)]

-----------------------------------------------------------------------------
(* assignEdgebreakerPointsToCorners.  A closed fan is walked from a corner *)
(* where some attribute changes, so that the last point of the walk is not *)
(* the first one over again.                                               *)
StoredPointCorner(T, connectivities, v) == T.vertexCorners[v]   \* wherever the fan is stored
FirstPointCorner(T, connectivities, v) ==
  LET c == T.vertexCorners[v]
      fan == RightFan(T.opposite, c)
      changes(k) == {i \in 2 .. Len(fan) : k.cornerToVertex[fan[i]] # k.cornerToVertex[c]}
      split == {a \in DOMAIN connectivities :
                  /\ T.cornerVertex[c] \in connectivities[a].vertexOnSeam
                  /\ changes(connectivities[a]) # {}}
  IN  IF T.isVertHole[v] \/ split = {} THEN c
      ELSE fan[Min(changes(connectivities[Min(split)]))]

PointsOfCorners(T, connectivities) ==
  LET startsPoint(path, i) ==
        i = 1 \/ \E a \in DOMAIN connectivities :
                   connectivities[a].cornerToVertex[path[i]]
                     # connectivities[a].cornerToVertex[path[i - 1]]
      fanOfVertex(n, v) ==
        IF T.vertexCorners[v] < 0 THEN n
        ELSE NumberAlong(T, RightFan(T.opposite, FirstPointCorner(T, connectivities, v)),
                         startsPoint, n)
  IN  ForEach(T, Ascending(T.numVertices), fanOfVertex, Unnumbered(T))

-----------------------------------------------------------------------------
(* generateEdgebreakerSequence.  A group is                                *)
(*    [vertexAt |-> the vertex its values belong to, per corner,           *)
(*     numVertices, cut |-> edges its walk does not cross,                 *)
(*     stops |-> corners whose vertex ends the walk to the right].         *)
(* The position and attributes without inner seams are laid out over the   *)
(* table's vertices, the others over their own.                            *)
Groups(T) ==
  [vertexAt : [CornersOf(T) -> -1 .. Cardinality(CornersOf(T))], numVertices : Nat,
   cut : SUBSET CornersOf(T), stops : SUBSET CornersOf(T)]

VertexGroup(T, onSeam) ==
  [vertexAt |-> T.cornerVertex, numVertices |-> T.numVertices, cut |-> {},
   stops |-> {c \in CornersOf(T) :
                \/ IsBoundaryVertex(T.opposite, T.vertexCorners, T.cornerVertex[c])
                \/ T.cornerVertex[c] \in onSeam}]

CornerGroup(T, k) ==
  [VertexGroup(T, k.vertexOnSeam) EXCEPT
     !.vertexAt = k.cornerToVertex, !.numVertices = Len(k.leftMostCorners),
     !.cut = k.seamEdges]

Met(group, order) == {group.vertexAt[order[i]] : i \in DOMAIN order}

(* onNewVertex: the first corner that meets a vertex stands for it.        *)
Meet(group, order, c) ==
  IF group.vertexAt[c] \in Met(group, order) THEN order ELSE Append(order, c)

RightNeighbour(T, group, c) ==
  IF NextCorner(c) \in group.cut THEN NoCorner ELSE RightCorner(T.opposite, c)
LeftNeighbour(T, group, c) ==
  IF PreviousCorner(c) \in group.cut THEN NoCorner ELSE LeftCorner(T.opposite, c)

IsGone(faces, c) == c < 0 \/ Face(c) \in faces

(* One step of the inner loop of the depth-first walk, from the state      *)
(* [faces, order, stack, at]; at is NoCorner when the next corner comes    *)
(* from the stack.                                                         *)
DepthFirstStep(T, group, s) ==
  LET c == s.at
      right == RightNeighbour(T, group, c)
      left == LeftNeighbour(T, group, c)
      faces == s.faces \cup {Face(c)}
      here == [s EXCEPT !.faces = faces, !.order = Meet(group, @, c), !.at = NoCorner]
  IN  IF group.vertexAt[c] \notin Met(group, s.order) /\ c \notin group.stops
      THEN [here EXCEPT !.at = RightCorner(T.opposite, c)]
      ELSE CASE IsGone(faces, right) /\ IsGone(faces, left) ->
                  [here EXCEPT !.stack = Front(@)]
             [] IsGone(faces, right) /\ ~ IsGone(faces, left) -> [here EXCEPT !.at = left]
             [] ~ IsGone(faces, right) /\ IsGone(faces, left) -> [here EXCEPT !.at = right]
             [] OTHER -> [here EXCEPT !.stack = Front(@) \o <<left, right>>]

WalkStates(T) ==
  [faces : SUBSET (0 .. Cardinality(CornersOf(T)) \div 3 - 1), order : Seq(CornersOf(T)),
   stack : Seq(CornersOf(T) \cup {NoCorner}), at : CornersOf(T) \cup {NoCorner}]

DepthFirstSequence(T, group) ==
  LET numFaces == Cardinality(CornersOf(T)) \div 3
      walk[s \in WalkStates(T)] ==
        CASE s.at # NoCorner -> walk[DepthFirstStep(T, group, s)]
          [] s.at = NoCorner /\ s.stack # <<>> ->
               walk[[s EXCEPT !.stack = IF IsGone(s.faces, LastOf(@)) THEN Front(@) ELSE @,
                              !.at = IF IsGone(s.faces, LastOf(s.stack)) THEN NoCorner
                                     ELSE LastOf(s.stack)]]
          [] s.at = NoCorner /\ s.stack = <<>> /\ (0 .. numFaces - 1) \ s.faces # {} ->
               LET f == Min((0 .. numFaces - 1) \ s.faces)
               IN  walk[[s EXCEPT !.stack = <<3 * f>>,
                           !.order = Meet(group, Meet(group, @, 3 * f + 1), 3 * f + 2)]]
          [] OTHER -> s
  IN  walk[[faces |-> {}, order |-> <<>>, stack |-> <<>>, at |-> NoCorner]].order

-----------------------------------------------------------------------------
(* The other walk of the format: corners wait on three stacks, and those   *)
(* whose tip was reached over more than one edge go before those whose tip *)
(* was not.  The walk of the encoder is always depth first; streams of     *)
(* other encoders use this one for vertex groups.                          *)

(* computePriority counts the visit of an unmet tip.                       *)
CountVisit(group, s, c) ==
  IF group.vertexAt[c] \in Met(group, s.order) THEN s
  ELSE [s EXCEPT !.degree[group.vertexAt[c]] = @ + 1]

Priority(group, s, c) ==
  IF group.vertexAt[c] \in Met(group, s.order) THEN 0
  ELSE IF s.degree[group.vertexAt[c]] > 1 THEN 1 ELSE 2

Wait(s, priority, c) ==
  [s EXCEPT !.stacks[priority] = Append(@, c), !.best = Min({@, priority})]

(* One face: the left neighbour first, walked on at once only when there   *)
(* is no right one.                                                        *)
PredictionDegreeStep(T, group, s) ==
  LET c == s.at
      here == [s EXCEPT !.faces = @ \cup {Face(c)}, !.order = Meet(group, @, c),
                        !.at = NoCorner]
      left == LeftCorner(T.opposite, c)
      right == RightCorner(T.opposite, c)
      leftGone == IsGone(here.faces, left)
      rightGone == IsGone(here.faces, right)
      seenLeft == IF leftGone THEN here ELSE CountVisit(group, here, left)
      goLeft == ~ leftGone /\ rightGone /\ Priority(group, seenLeft, left) <= s.best
      afterLeft == IF leftGone THEN here
                   ELSE Wait(seenLeft, Priority(group, seenLeft, left), left)
      seenRight == IF rightGone THEN afterLeft ELSE CountVisit(group, afterLeft, right)
      goRight == ~ rightGone /\ Priority(group, seenRight, right) <= afterLeft.best
  IN  CASE goLeft -> [seenLeft EXCEPT !.at = left]
        [] goRight -> [seenRight EXCEPT !.at = right]
        [] ~ goLeft /\ ~ goRight /\ ~ rightGone ->
             Wait(seenRight, Priority(group, seenRight, right), right)
        [] OTHER -> afterLeft

(* popNextCorner: from the best stack that is not empty.                   *)
Waiting(s) == {p \in s.best .. 2 : s.stacks[p] # <<>>}

PopCorner(s) ==
  LET p == Min(Waiting(s))
      c == LastOf(s.stacks[p])
  IN  [s EXCEPT !.stacks[p] = Front(@), !.best = p,
                !.at = IF Face(c) \in s.faces THEN NoCorner ELSE c]

DegreeStates(T) ==
  [faces : SUBSET (0 .. Cardinality(CornersOf(T)) \div 3 - 1), order : Seq(CornersOf(T)),
   degree : [0 .. T.numVertices - 1 -> Nat], stacks : [0 .. 2 -> Seq(CornersOf(T))],
   best : 0 .. 2, at : CornersOf(T) \cup {NoCorner}]

PredictionDegreeSequence(T, group) ==
  LET numFaces == Cardinality(CornersOf(T)) \div 3
      walk[s \in DegreeStates(T)] ==
        CASE s.at # NoCorner -> walk[PredictionDegreeStep(T, group, s)]
          [] s.at = NoCorner /\ Waiting(s) # {} -> walk[PopCorner(s)]
          [] s.at = NoCorner /\ Waiting(s) = {} /\ (0 .. numFaces - 1) \ s.faces # {} ->
               LET f == Min((0 .. numFaces - 1) \ s.faces)
               IN  walk[[s EXCEPT !.stacks = [p \in 0 .. 2 |-> IF p = 0 THEN <<3 * f>> ELSE <<>>],
                           !.best = 0,
                           !.order = Meet(group, Meet(group, Meet(group, @, 3 * f + 1),
                                                      3 * f + 2), 3 * f)]]
          [] OTHER -> s
  IN  walk[[faces |-> {}, order |-> <<>>, degree |-> [v \in 0 .. T.numVertices - 1 |-> 0],
            stacks |-> [p \in 0 .. 2 |-> <<>>], best |-> 0, at |-> NoCorner]].order

=============================================================================
