--------------------- MODULE EdgebreakerRoundTrip_proof ---------------------
(***************************************************************************)
(* The encoder's walk over the faces: WalkIsSound holds of every behaviour *)
(* of Spec, for every set of meshes of every size, and the split events of *)
(* a walk can always be written.                                           *)
(*                                                                         *)
(* WalkIsSound is not inductive.  That the walk finds a face when it goes  *)
(* right or left rests on a relation between faces and vertices: all       *)
(* vertices of a visited face are visited (VerticesOfVisitedFaces), and so *)
(* are the ends of every edge the walk will enter a face through           *)
(* (GatesAreVisited).  A tip vertex that is not visited and not on the     *)
(* boundary then has no visited face, and a face on every edge around it.  *)
(* At a boundary start and at an S this needs the walk around the hole.    *)
(*                                                                         *)
(* The second half is about what the walk leaves behind.  The corners it   *)
(* took and the symbols it wrote are a trace that can be read backwards    *)
(* (TraceInv): every symbol says truly which sides of its face lead on,    *)
(* every branch belongs to an S that waits on the stack or to the root of  *)
(* a component, the start bits are those of the roots in order, there is a *)
(* split event for every edge back to the face of an S and for no other,   *)
(* and the vertices the symbols stand for are all there are.               *)
(***************************************************************************)
EXTENDS EdgebreakerRoundTrip, EdgebreakerBaseTable_proof, EdgebreakerStreams_proof

(* What the traversal knows of the table it walks.                         *)
TableIsReady ==
  /\ TableIsManifold
  /\ \A c \in AllCorners : opposite[c] # NoCorner => Face(opposite[c]) # Face(c)
  /\ numHoles \in Nat
  /\ \A v \in VertexIDs : vertexHoleID[v] \in -1 .. numHoles - 1
  /\ \A v \in VertexIDs :
       vertexHoleID[v] # -1 <=> \E c \in BoundaryCorners : BoundaryVertexOf(c) = v

LEMMA HolesMakeATable ==
  ASSUME HoleInv, phase = "ready"
  PROVE  TableIsReady
<1>1. TableIsManifold
  BY FansMakeAManifold DEF HoleInv
<1>2. \A c \in AllCorners : opposite[c] # NoCorner => Face(opposite[c]) # Face(c)
  BY DEF HoleInv, FanInv, MatchingInv, PairedTable, PairsFaceOneEdge
<1>3. numHoles \in Nat
  BY DEF HoleInv, FanInv, MatchingInv, BaseTypeOK
<1>4. \A v \in VertexIDs : vertexHoleID[v] \in -1 .. numHoles - 1
  BY DEF HoleInv, NumberedLoops
<1>5. \A v \in VertexIDs :
        vertexHoleID[v] # -1 <=> \E c \in BoundaryCorners : BoundaryVertexOf(c) = v
  BY DEF HoleInv, NumberedLoops, NumberedInOrder, HoleAt
<1> QED
  BY <1>1, <1>2, <1>3, <1>4, <1>5 DEF TableIsReady

(* Corners and edges of a manifold table.                                  *)
LEMMA ManifoldCorners ==
  ASSUME TableIsManifold, NEW c \in AllCorners
  PROVE  /\ NextCorner(c) \in AllCorners /\ PreviousCorner(c) \in AllCorners
         /\ NextCorner(PreviousCorner(c)) = c /\ PreviousCorner(NextCorner(c)) = c
         /\ NextCorner(NextCorner(c)) = PreviousCorner(c)
         /\ PreviousCorner(PreviousCorner(c)) = NextCorner(c)
         /\ c \in Nat /\ c # NoCorner /\ ~ (c < 0)
         /\ Face(c) \in AllFaces
         /\ Face(NextCorner(c)) = Face(c) /\ Face(PreviousCorner(c)) = Face(c)
         /\ cornerVertex[c] \in VertexIDs
         /\ opposite[c] \in AllCorners \cup {NoCorner}
         /\ opposite[c] < 0 <=> opposite[c] = NoCorner
         /\ RightCorner(opposite, c) = opposite[NextCorner(c)]
         /\ LeftCorner(opposite, c) = opposite[PreviousCorner(c)]
<1>1. /\ mesh.numFaces \in Nat /\ AllCorners = Corners(mesh.numFaces)
      /\ IsTable(opposite, AllCorners)
  BY DEF TableIsManifold, AllCorners
<1>2. /\ NextCorner(c) \in AllCorners /\ PreviousCorner(c) \in AllCorners
      /\ Face(c) \in AllFaces
  BY <1>1, CornerArithmetic DEF AllFaces
<1>3. /\ NextCorner(PreviousCorner(c)) = c /\ PreviousCorner(NextCorner(c)) = c
      /\ NextCorner(NextCorner(c)) = PreviousCorner(c)
      /\ PreviousCorner(PreviousCorner(c)) = NextCorner(c)
  BY <1>1, NextAndPrevious
<1>4. \A d \in AllCorners : d \in Nat /\ d # NoCorner /\ ~ (d < 0)
  BY <1>1, CornersAreFinite DEF NoCorner, Corners
<1>5. Face(NextCorner(c)) = Face(c) /\ Face(PreviousCorner(c)) = Face(c)
  <2>1. c \in Nat
    BY <1>4
  <2> QED
    BY <2>1 DEF Face, NextCorner, PreviousCorner
<1>6. /\ cornerVertex[c] \in VertexIDs /\ DOMAIN opposite = AllCorners
      /\ opposite[c] \in AllCorners \cup {NoCorner}
      /\ opposite[c] < 0 <=> opposite[c] = NoCorner
  <2>1. cornerVertex[c] \in VertexIDs
    BY DEF TableIsManifold
  <2>2. DOMAIN opposite = AllCorners /\ opposite[c] \in AllCorners \cup {NoCorner}
    BY <1>1 DEF IsTable
  <2>3. opposite[c] < 0 <=> opposite[c] = NoCorner
    BY <1>4, <2>2 DEF NoCorner
  <2> QED
    BY <2>1, <2>2, <2>3
<1>7. RightCorner(opposite, c) = opposite[NextCorner(c)]
  BY <1>2, <1>4, <1>6 DEF RightCorner, NextIn, At
<1>8. LeftCorner(opposite, c) = opposite[PreviousCorner(c)]
  BY <1>2, <1>4, <1>6 DEF LeftCorner, PreviousIn, At
<1> QED
  BY <1>2, <1>3, <1>4, <1>5, <1>6, <1>7, <1>8

LEMMA ManifoldEdges ==
  ASSUME TableIsManifold, NEW c \in AllCorners, opposite[c] # NoCorner
  PROVE  /\ opposite[c] \in AllCorners
         /\ cornerVertex[NextCorner(opposite[c])] = cornerVertex[PreviousCorner(c)]
         /\ cornerVertex[PreviousCorner(opposite[c])] = cornerVertex[NextCorner(c)]
<1> DEFINE e == opposite[c]
           n == NextCorner(c)
           p == PreviousCorner(c)
<1>1. /\ mesh.numFaces \in Nat /\ AllCorners = Corners(mesh.numFaces)
      /\ IsTable(opposite, AllCorners)
      /\ \A x, y \in AllCorners :
           cornerVertex[y] = cornerVertex[x] <=> y \in FanCorners(opposite, x)
  BY DEF TableIsManifold, AllCorners
<1>2. e \in AllCorners /\ n \in AllCorners /\ p \in AllCorners
  BY ManifoldCorners
<1>3. SwingRight(opposite, n) = PreviousCorner(e) /\ SwingLeft(opposite, p) = NextCorner(e)
  BY <1>1, SwingsCrossEdges
<1>4. PreviousCorner(e) \in AllCorners /\ NextCorner(e) \in AllCorners
  BY <1>2, ManifoldCorners
<1>5. PreviousCorner(e) >= 0 /\ NextCorner(e) >= 0
  BY <1>4, ManifoldCorners
<1> HIDE DEF e, n, p
<1>6. /\ n \in FanCorners(opposite, n) /\ KeepsSwings(opposite, FanCorners(opposite, n))
      /\ p \in FanCorners(opposite, p) /\ KeepsSwings(opposite, FanCorners(opposite, p))
  BY <1>1, <1>2, FanKeepsSwings
<1>7. PreviousCorner(e) \in FanCorners(opposite, n) /\ NextCorner(e) \in FanCorners(opposite, p)
  BY <1>3, <1>5, <1>6 DEF KeepsSwings
<1> QED
  BY <1>1, <1>2, <1>4, <1>7 DEF e, n, p

(* A vertex is on the boundary where a face is missing to the left or to   *)
(* the right of one of its corners.                                        *)
LEMMA MissingFaceIsABoundary ==
  ASSUME TableIsReady, NEW c \in AllCorners, opposite[NextCorner(c)] = NoCorner
  PROVE  vertexHoleID[cornerVertex[c]] # -1
<1>1. TableIsManifold
  BY DEF TableIsReady
<1>2. /\ mesh.numFaces \in Nat /\ AllCorners = Corners(mesh.numFaces)
      /\ IsTable(opposite, AllCorners)
      /\ \A x, y \in AllCorners :
           cornerVertex[y] = cornerVertex[x] <=> y \in FanCorners(opposite, x)
  BY <1>1 DEF TableIsManifold, AllCorners
<1>3. NextCorner(c) \in AllCorners /\ PreviousCorner(NextCorner(c)) = c
  BY <1>1, ManifoldCorners
<1>4. SwingLeft(opposite, c) < 0
  <2>1. SwingLeft(opposite, c) = NoCorner
    BY <1>2, <1>3, SwingsCrossEdges
  <2> QED
    BY <2>1 DEF NoCorner
<1>5. PICK e \in FanCorners(opposite, c) : SwingRight(opposite, e) < 0
  BY <1>2, <1>4, OpenFanHasRightmost
<1>6. e \in AllCorners
  BY <1>2, FanKeepsSwings
<1>7. PreviousCorner(e) \in BoundaryCorners /\ BoundaryVertexOf(PreviousCorner(e)) = cornerVertex[c]
  <2> DEFINE b == PreviousCorner(e)
  <2>1. b \in AllCorners /\ NextCorner(b) = e
    BY <1>1, <1>6, ManifoldCorners
  <2> HIDE DEF b
  <2>2. opposite[b] = NoCorner
    <3>1. opposite[b] # NoCorner => opposite[b] \in AllCorners
                                    /\ SwingRight(opposite, e) = PreviousCorner(opposite[b])
      BY <1>2, <2>1, SwingsCrossEdges
    <3>2. opposite[b] \in AllCorners => PreviousCorner(opposite[b]) \in AllCorners
      BY <1>1, ManifoldCorners
    <3>3. \A x \in AllCorners : ~ (x < 0)
      BY <1>1, ManifoldCorners
    <3> QED
      BY <1>5, <3>1, <3>2, <3>3
  <2>3. cornerVertex[e] = cornerVertex[c]
    BY <1>2, <1>5, <1>6
  <2> QED
    BY <2>1, <2>2, <2>3 DEF b, BoundaryCorners, BoundaryVertexOf
<1>8. cornerVertex[c] \in VertexIDs
  BY <1>1, ManifoldCorners
<1> QED
  BY <1>7, <1>8 DEF TableIsReady

-----------------------------------------------------------------------------
(* The walk around a hole.                                                 *)

(* Turning to the boundary from a corner whose next corner's vertex is on  *)
(* the boundary.                                                           *)
LEMMA TurnIsToBoundary ==
  ASSUME TableIsReady, NEW d \in AllCorners,
         vertexHoleID[cornerVertex[NextCorner(d)]] # -1
  PROVE  /\ TurnToBoundary(d) \in BoundaryCorners
         /\ BoundaryVertexOf(TurnToBoundary(d)) = cornerVertex[NextCorner(d)]
<1> DEFINE turn == CHOOSE t : Turns(opposite, t)
           p == NextCorner(d)
<1>1. TableIsManifold
  BY DEF TableIsReady
<1>2. /\ mesh.numFaces \in Nat /\ AllCorners = Corners(mesh.numFaces)
      /\ IsTable(opposite, AllCorners) /\ DOMAIN opposite = AllCorners
      /\ \A x, y \in AllCorners :
           cornerVertex[y] = cornerVertex[x] <=> y \in FanCorners(opposite, x)
  BY <1>1 DEF TableIsManifold, AllCorners, IsTable
<1>3. Turns(opposite, turn)
  <2>1. \E t : Turns(opposite, t)
    BY <1>2, TurnExists
  <2> QED
    BY <2>1
<1>4. TurnToBoundary(d) = turn[d]
  <2>1. \A t : Turns(opposite, t) <=>
          t = [e \in AllCorners |-> IF opposite[e] < 0 THEN e ELSE t[NextCorner(opposite[e])]]
    BY <1>2 DEF Turns
  <2> QED
    BY <2>1 DEF TurnToBoundary
<1> HIDE DEF turn
<1>5. p \in AllCorners /\ cornerVertex[p] \in VertexIDs
  <2>1. p \in AllCorners
    BY <1>1, ManifoldCorners
  <2> QED
    BY <1>1, <2>1, ManifoldCorners
<1> HIDE DEF p
<1>6. PICK b \in BoundaryCorners : BoundaryVertexOf(b) = cornerVertex[p]
  BY <1>5 DEF TableIsReady, p
<1>7. b \in AllCorners /\ opposite[b] = NoCorner /\ NextCorner(b) \in AllCorners
  BY <1>1, <1>6, ManifoldCorners DEF BoundaryCorners
<1>8. NextCorner(b) \in FanCorners(opposite, p)
  BY <1>2, <1>5, <1>6, <1>7 DEF BoundaryVertexOf
<1>9. SwingRight(opposite, NextCorner(b)) < 0
  <2>1. SwingRight(opposite, NextCorner(b)) = NoCorner
    BY <1>2, <1>7, SwingsCrossEdges
  <2> QED
    BY <2>1 DEF NoCorner
<1>10. turn[d] = PreviousCorner(NextCorner(b))
  BY <1>2, <1>3, <1>8, <1>9, TurnFinds DEF p
<1>11. turn[d] = b
  BY <1>1, <1>7, <1>10, ManifoldCorners
<1> QED
  BY <1>4, <1>6, <1>11 DEF p

(* encodeHole comes back to the vertex it starts from, and visits the one  *)
(* it starts with unless that is the same.                                 *)
LEMMA HoleIsWalked ==
  ASSUME TableIsReady, NEW c \in AllCorners, vertexHoleID[cornerVertex[c]] # -1
  PROVE  /\ HoleVertices(c) \subseteq VertexIDs
         /\ \A v \in HoleVertices(c) : vertexHoleID[v] # -1
         /\ \A b \in BoundaryCorners :
              BoundaryVertexOf(b) = cornerVertex[c]
                => VertexBehind(b) \in HoleVertices(c) \cup {cornerVertex[c]}
<1> DEFINE B == BoundaryCorners
           v == cornerVertex[c]
           b0 == TurnToBoundary(PreviousCorner(c))
           Halts == {path \in Paths(B) : VertexBehind(path[Len(path)]) = v}
           walk == CHOOSE f : IsLoopFunction(f, TurnStep, B, Halts)
<1>1. TableIsManifold
  BY DEF TableIsReady
<1>2. /\ B \in SUBSET Nat /\ IsFiniteSet(B) /\ B \subseteq AllCorners
      /\ \A d \in B : BoundaryVertexOf(d) \in VertexIDs
      /\ \A d, e \in B : BoundaryVertexOf(d) = BoundaryVertexOf(e) => d = e
      /\ \A d \in B : NextBoundaryCorner(d) \in B
      /\ \A d \in B : BoundaryVertexOf(NextBoundaryCorner(d)) = VertexBehind(d)
      /\ TurnStep \in [B -> B] /\ IsStep(TurnStep, B)
      /\ \A d \in B : TurnStep[d] = NextBoundaryCorner(d)
  BY <1>1, ManifoldTurns, TurnsAreSteps DEF VertexBehind
<1>3. b0 \in B /\ BoundaryVertexOf(b0) = v
  <2>1. PreviousCorner(c) \in AllCorners /\ NextCorner(PreviousCorner(c)) = c
    BY <1>1, ManifoldCorners
  <2> QED
    BY <2>1, TurnIsToBoundary
<1> HIDE DEF b0, v
<1>4. PICK w : IsWalk(TurnStep, B, b0, w) /\ IsOver(TurnStep, b0, w)
  BY <1>2, <1>3, SomeWalkIsOver
<1>5. /\ w \in Seq(B) /\ Len(w) \in Nat /\ Len(w) >= 1 /\ w[1] = b0
      /\ \A i \in 1 .. Len(w) - 1 : w[i + 1] = TurnStep[w[i]]
      /\ \A i, j \in 1 .. Len(w) : w[i] = w[j] => i = j
      /\ TurnStep[w[Len(w)]] = b0
      /\ \A i \in 1 .. Len(w) : w[i] \in B
  <2>1. /\ w \in Seq(B) /\ Len(w) \in Nat /\ Len(w) >= 1 /\ w[1] = b0
        /\ \A i \in 1 .. Len(w) - 1 : w[i + 1] = TurnStep[w[i]]
    BY <1>4 DEF IsWalk
  <2>2. \A i, j \in 1 .. Len(w) : w[i] = w[j] => i = j
    BY <1>2, <1>3, <1>4, WalkMeetsCornersOnce
  <2>3. TurnStep[w[Len(w)]] = b0
    BY <1>2, <1>3, <1>4, WalkGoesRound
  <2>4. \A i \in 1 .. Len(w) : w[i] \in B
    BY <2>1
  <2> QED
    BY <2>1, <2>2, <2>3, <2>4
<1>6. \A i \in 1 .. Len(w) - 1 :
        VertexBehind(w[i]) = BoundaryVertexOf(w[i + 1]) /\ VertexBehind(w[i]) # v
  <2> SUFFICES ASSUME NEW i \in 1 .. Len(w) - 1
               PROVE  VertexBehind(w[i]) = BoundaryVertexOf(w[i + 1]) /\ VertexBehind(w[i]) # v
    OBVIOUS
  <2>1. i \in 1 .. Len(w) /\ i + 1 \in 1 .. Len(w) /\ 1 \in 1 .. Len(w) /\ i + 1 # 1
    BY <1>5
  <2>2. w[i] \in B /\ w[i + 1] \in B /\ w[i + 1] = TurnStep[w[i]] /\ w[i + 1] # b0
    BY <1>5, <2>1
  <2>3. VertexBehind(w[i]) = BoundaryVertexOf(w[i + 1])
    BY <1>2, <2>2
  <2> QED
    BY <1>2, <1>3, <2>2, <2>3
<1>7. VertexBehind(w[Len(w)]) = v
  <2>1. w[Len(w)] \in B
    BY <1>5
  <2> QED
    BY <1>2, <1>3, <1>5, <2>1
<1>8. HaltsAtItsEnd(w, Halts)
  <2>1. w \in Halts
    BY <1>5, <1>7 DEF Paths
  <2>2. ASSUME NEW k \in 1 .. Len(w) - 1 PROVE SubSeq(w, 1, k) \notin Halts
    <3> DEFINE part == SubSeq(w, 1, k)
    <3>1. k \in Nat /\ k >= 1 /\ k \in 1 .. Len(w) /\ k \in 1 .. k
      BY <1>5
    <3>2. Len(part) = k /\ part[k] = w[k]
      <4>1. \A i \in 1 .. k : w[i] \in B
        BY <1>5, <3>1
      <4>2. 1 \in Int /\ k \in Int /\ 1 <= k /\ k - 1 + 1 = k /\ 1 + k - 1 = k
        BY <3>1
      <4>3. Len(part) = k /\ \A i \in 1 .. k : part[i] = w[1 + i - 1]
        BY <4>1, <4>2, SubSeqProperties
      <4> QED
        BY <3>1, <4>2, <4>3
    <3> HIDE DEF part
    <3>3. VertexBehind(part[Len(part)]) # v
      BY <1>6, <3>2
    <3>4. part \notin Halts
      BY <3>3
    <3> QED
      BY <3>4 DEF part
  <2> QED
    BY <2>1, <2>2 DEF HaltsAtItsEnd
<1>9. IsLoopFunction(walk, TurnStep, B, Halts)
  <2> HIDE DEF Halts
  <2>1. \E f : IsLoopFunction(f, TurnStep, B, Halts)
    BY <1>2, LoopFunctionExists
  <2> QED
    BY <2>1
<1>10. HoleVertices(c) = {VertexBehind(walk[<<b0>>][i]) : i \in 1 .. Len(walk[<<b0>>]) - 1}
  <2> DEFINE Found(f) ==
        f = [path \in Seq(BoundaryCorners) \ {<<>>} |->
               IF VertexBehind(LastOf(path)) = cornerVertex[c]
               THEN path ELSE f[Append(path, NextBoundaryCorner(LastOf(path)))]]
  <2>1. ASSUME NEW f
        PROVE  IsLoopFunction(f, TurnStep, B, Halts) <=> Found(f)
    <3> DEFINE g == [path \in Paths(B) |->
                       IF path \in Halts THEN path
                       ELSE f[Append(path, TurnStep[path[Len(path)]])]]
               h == [path \in Paths(B) |->
                       IF VertexBehind(LastOf(path)) = cornerVertex[c]
                       THEN path ELSE f[Append(path, NextBoundaryCorner(LastOf(path)))]]
    <3>1. ASSUME NEW path \in Paths(B) PROVE g[path] = h[path]
      <4>1. path[Len(path)] \in B
        BY PathsInHand
      <4>2. TurnStep[path[Len(path)]] = NextBoundaryCorner(LastOf(path))
        BY <1>2, <4>1 DEF LastOf
      <4>3. path \in Halts <=> VertexBehind(LastOf(path)) = cornerVertex[c]
        BY DEF LastOf, v
      <4> HIDE DEF Halts
      <4> QED
        BY <4>2, <4>3
    <3>2. g = h
      <4>1. g = [path \in Paths(B) |-> g[path]] /\ h = [path \in Paths(B) |-> h[path]]
        OBVIOUS
      <4> HIDE DEF g, h
      <4> QED
        BY <3>1, <4>1
    <3>3. IsLoopFunction(f, TurnStep, B, Halts) <=> f = g
      BY DEF IsLoopFunction
    <3>4. Found(f) <=> f = h
      BY DEF Paths
    <3> HIDE DEF g, h
    <3> QED
      BY <3>2, <3>3, <3>4
  <2>2. HoleVertices(c)
          = LET hole == (CHOOSE f : Found(f))[<<b0>>]
            IN  {VertexBehind(hole[i]) : i \in 1 .. Len(hole) - 1}
    BY DEF HoleVertices, b0
  <2> HIDE DEF Found, Halts
  <2>3. (CHOOSE f : Found(f)) = walk
    BY <2>1
  <2> HIDE DEF walk
  <2> QED
    BY <2>2, <2>3
<1> HIDE DEF walk, Halts
<1>11. walk[<<b0>>] = w
  <2>1. B \in SUBSET Nat /\ b0 \in B
    BY <1>2, <1>3
  <2> QED
    BY <1>4, <1>8, <1>9, <2>1, LoopFunctionWalks
<1>12. HoleVertices(c) = {VertexBehind(w[i]) : i \in 1 .. Len(w) - 1}
  BY <1>10, <1>11
<1>13. HoleVertices(c) \subseteq VertexIDs /\ \A u \in HoleVertices(c) : vertexHoleID[u] # -1
  <2>1. ASSUME NEW i \in 1 .. Len(w) - 1
        PROVE  VertexBehind(w[i]) \in VertexIDs /\ vertexHoleID[VertexBehind(w[i])] # -1
    <3>1. i + 1 \in 1 .. Len(w)
      BY <1>5
    <3>2. w[i + 1] \in B
      BY <1>5, <3>1
    <3>3. VertexBehind(w[i]) = BoundaryVertexOf(w[i + 1]) /\ VertexBehind(w[i]) \in VertexIDs
      BY <1>2, <1>6, <3>2
    <3> QED
      BY <3>2, <3>3 DEF TableIsReady
  <2> QED
    BY <1>12, <2>1
<1>14. ASSUME NEW b \in B, BoundaryVertexOf(b) = v
       PROVE  VertexBehind(b) \in HoleVertices(c) \cup {v}
  <2>1. b = w[1]
    BY <1>2, <1>3, <1>5, <1>14
  <2>2. CASE Len(w) = 1
    BY <1>7, <2>1, <2>2
  <2>3. CASE Len(w) # 1
    <3>1. 1 \in 1 .. Len(w) - 1
      <4>1. Len(w) \in Nat /\ Len(w) >= 1
        BY <1>5
      <4> QED
        BY <2>3, <4>1
    <3> QED
      BY <1>12, <2>1, <3>1
  <2> QED
    BY <2>2, <2>3
<1> QED
  BY <1>13, <1>14 DEF v

LEMMA CornersOfAFace ==
  ASSUME TableIsManifold, NEW f \in AllFaces
  PROVE  /\ FaceCorners(f) \subseteq AllCorners
         /\ \A c \in AllCorners : Face(c) = f <=> c \in FaceCorners(f)
         /\ NextCorner(3 * f) = 3 * f + 1
         /\ 3 * f \in FaceCorners(f)
<1>1. mesh.numFaces \in Nat /\ AllCorners = Corners(mesh.numFaces)
  BY DEF TableIsManifold, AllCorners
<1>2. f \in Nat /\ f <= mesh.numFaces - 1
  BY <1>1 DEF AllFaces
<1>3. FaceCorners(f) \subseteq AllCorners /\ 3 * f \in FaceCorners(f)
  BY <1>1, <1>2 DEF FaceCorners, Corners
<1>4. \A c \in AllCorners : Face(c) = f <=> c \in FaceCorners(f)
  BY <1>1, <1>2 DEF FaceCorners, Face, Corners
<1>5. NextCorner(3 * f) = 3 * f + 1
  BY <1>2 DEF NextCorner
<1> QED
  BY <1>3, <1>4, <1>5

(* A start at the boundary faces a boundary edge that ends in a vertex of  *)
(* the seed face.                                                          *)
LEMMA StartFacesTheBoundary ==
  ASSUME TableIsReady, NEW f \in AllFaces, ~ InteriorStart(f)
  PROVE  /\ StartCorner(f) \in BoundaryCorners
         /\ \E d \in FaceCorners(f) : cornerVertex[NextCorner(StartCorner(f))] = cornerVertex[d]
<1> DEFINE T == {d \in FaceCorners(f) : TouchesBoundary(d)}
           Least(d) == /\ TouchesBoundary(d)
                       /\ \A e \in FaceCorners(f) : TouchesBoundary(e) => d <= e
           c == CHOOSE d \in FaceCorners(f) : Least(d)
<1>1. TableIsManifold
  BY DEF TableIsReady
<1>2. /\ mesh.numFaces \in Nat /\ AllCorners = Corners(mesh.numFaces)
      /\ IsTable(opposite, AllCorners)
      /\ \A x, y \in AllCorners :
           cornerVertex[y] = cornerVertex[x] <=> y \in FanCorners(opposite, x)
  BY <1>1 DEF TableIsManifold, AllCorners
<1>3. FaceCorners(f) \subseteq AllCorners /\ AllCorners \subseteq Nat
  BY <1>1, <1>2, CornersOfAFace, CornersAreFinite
<1>4. \E d \in FaceCorners(f) : Least(d)
  <2>1. T \in SUBSET Nat /\ T # {}
    BY <1>3 DEF InteriorStart
  <2>2. PICK n \in T : \A m \in T : n <= m
    <3> HIDE DEF T
    <3> QED
      BY <2>1, LeastNumber
  <2> QED
    BY <2>2
<1>5. c \in FaceCorners(f) /\ TouchesBoundary(c)
  BY <1>4
<1>6. StartCorner(f) = IF opposite[c] < 0 THEN c
                       ELSE PreviousCorner(LastOf(RightFan(opposite, c)))
  BY DEF StartCorner
<1> HIDE DEF c, T, Least
<1>7. c \in AllCorners
  BY <1>3, <1>5
<1>8. CASE opposite[c] < 0
  <2>1. opposite[c] = NoCorner
    BY <1>1, <1>7, <1>8, ManifoldCorners
  <2>2. NextCorner(c) \in FaceCorners(f)
    BY <1>1, <1>5, <1>7, ManifoldCorners, CornersOfAFace
  <2> QED
    BY <1>6, <1>7, <1>8, <2>1, <2>2 DEF BoundaryCorners
<1>9. CASE ~ (opposite[c] < 0)
  <2>1. vertexHoleID[cornerVertex[c]] # -1 /\ cornerVertex[c] \in VertexIDs
    BY <1>1, <1>5, <1>7, <1>9, ManifoldCorners DEF TouchesBoundary
  <2>2. PICK b \in BoundaryCorners : BoundaryVertexOf(b) = cornerVertex[c]
    BY <2>1 DEF TableIsReady
  <2>3. b \in AllCorners /\ opposite[b] = NoCorner
    BY <2>2 DEF BoundaryCorners
  <2>4. NextCorner(b) \in AllCorners /\ PreviousCorner(NextCorner(b)) = b
    BY <1>1, <2>3, ManifoldCorners
  <2>5. NextCorner(b) \in FanCorners(opposite, c)
    BY <1>2, <1>7, <2>2, <2>4 DEF BoundaryVertexOf
  <2>6. SwingRight(opposite, NextCorner(b)) < 0
    <3>1. SwingRight(opposite, NextCorner(b)) = NoCorner
      BY <1>2, <2>3, SwingsCrossEdges
    <3> QED
      BY <3>1 DEF NoCorner
  <2>7. LastOf(RightFan(opposite, c)) = NextCorner(b)
    BY <1>2, <1>7, <2>5, <2>6, RightmostOfFan
  <2> QED
    BY <1>5, <1>6, <1>9, <2>2, <2>4, <2>7 DEF BoundaryVertexOf
<1> QED
  BY <1>8, <1>9

(* The ends of the edge through which the walk enters corner c's face.     *)
Gate(c) == {cornerVertex[NextCorner(c)], cornerVertex[PreviousCorner(c)]}

(* What a start at the boundary visits.                                    *)
LEMMA BoundaryStartVisits ==
  ASSUME TableIsReady, NEW f \in AllFaces, ~ InteriorStart(f)
  PROVE  LET start == StartCorner(f)
             hole == NextCorner(start)
         IN  /\ start \in AllCorners /\ hole \in AllCorners
             /\ HoleVertices(hole) \subseteq VertexIDs
             /\ cornerVertex[hole] \in VertexIDs
             /\ Gate(start) \subseteq {cornerVertex[hole]} \cup HoleVertices(hole)
             /\ HoleOf(hole) \subseteq 0 .. numHoles - 1
<1> DEFINE start == StartCorner(f)
           hole == NextCorner(start)
<1>1. TableIsManifold
  BY DEF TableIsReady
<1>2. start \in BoundaryCorners
  BY StartFacesTheBoundary
<1> HIDE DEF start
<1>3. start \in AllCorners /\ hole \in AllCorners /\ cornerVertex[hole] \in VertexIDs
  <2>1. start \in AllCorners
    BY <1>2 DEF BoundaryCorners
  <2>2. hole \in AllCorners
    BY <1>1, <2>1, ManifoldCorners
  <2> QED
    BY <1>1, <2>1, <2>2, ManifoldCorners
<1>4. BoundaryVertexOf(start) = cornerVertex[hole] /\ vertexHoleID[cornerVertex[hole]] # -1
  BY <1>2, <1>3 DEF BoundaryVertexOf, TableIsReady
<1> HIDE DEF hole
<1>5. /\ HoleVertices(hole) \subseteq VertexIDs
      /\ VertexBehind(start) \in HoleVertices(hole) \cup {cornerVertex[hole]}
  BY <1>2, <1>3, <1>4, HoleIsWalked
<1>6. Gate(start) \subseteq {cornerVertex[hole]} \cup HoleVertices(hole)
  BY <1>5 DEF Gate, VertexBehind, hole
<1>7. HoleOf(hole) \subseteq 0 .. numHoles - 1
  BY <1>3 DEF HoleOf, TableIsReady
<1> QED
  BY <1>3, <1>5, <1>6, <1>7 DEF start, hole

-----------------------------------------------------------------------------
(* The inductive invariant.                                                *)

BasePhases == {"faces", "opposites", "vertices", "holes"}
Walking == phase \in {"ready", "branch", "walk"}

(* The walk starts when the table is made, and the table is kept.          *)
TableIsKept ==
  /\ phase \in BasePhases => HoleInv
  /\ phase \in {"ready", "branch", "walk", "written"} => TableIsReady

NothingWalkedYet ==
  phase \in BasePhases \cup {"rejected"} =>
    /\ visitedFaces = {} /\ visitedVertices = {} /\ visitedHoles = {}
    /\ processedCorners = <<>> /\ initFaceCorners = <<>> /\ cornerTraversalStack = <<>>

TraversalTypes ==
  /\ phase \in Phases \cup {"branch", "walk", "written"}
  /\ mesh.numFaces \in Nat /\ mesh.numVertices \in Nat
  /\ visitedFaces \subseteq AllFaces
  /\ visitedVertices \subseteq VertexIDs
  /\ visitedHoles \subseteq 0 .. numHoles - 1
  /\ current \in AllCorners \cup {NoCorner}
  /\ cornerTraversalStack \in Seq(AllCorners \cup {NoCorner})
  /\ lastEncodedSymbolID \in Nat \cup {-1}
  /\ faceToSplitSymbol \in [AllFaces -> -1 .. lastEncodedSymbolID]
  /\ processedCorners \in Seq(AllCorners)
  /\ initFaceCorners \in Seq(AllCorners)
  /\ WireTypeOK

(* A split event names a split that came before its source; the sources    *)
(* come in the order of the walk.                                          *)
EventsFollowTheWalk ==
  /\ \A i \in DOMAIN splitEvents : splitEvents[i].source <= lastEncodedSymbolID
  /\ EncodableSplitEvents(splitEvents)

(* No face is met twice, by the symbols and the interior starts together.  *)
FacesOf(corners) == {Face(corners[i]) : i \in DOMAIN corners}
OncePerFace(corners) ==
  \A i, j \in DOMAIN corners : Face(corners[i]) = Face(corners[j]) => i = j

FacesAreWalkedOnce ==
  IF phase = "written"
  THEN /\ OncePerFace(processedCorners)
       /\ FacesOf(processedCorners) = visitedFaces
       /\ numEncodedFaces = mesh.numFaces
       /\ NumSymbols <= numEncodedFaces
  ELSE /\ OncePerFace(processedCorners) /\ OncePerFace(initFaceCorners)
       /\ FacesOf(processedCorners) \cap FacesOf(initFaceCorners) = {}
       /\ FacesOf(processedCorners) \cup FacesOf(initFaceCorners) = visitedFaces
       /\ NumSymbols = Len(processedCorners)

(* All vertices of a visited face are visited.                             *)
VerticesOfVisitedFaces ==
  Walking => \A c \in AllCorners : Face(c) \in visitedFaces => cornerVertex[c] \in visitedVertices

(* The ends of the edge through which a face will be entered are visited.  *)
GatesAreVisited ==
  /\ Walking => \A i \in DOMAIN cornerTraversalStack :
       cornerTraversalStack[i] # NoCorner => Gate(cornerTraversalStack[i]) \subseteq visitedVertices
  /\ phase = "walk" =>
       /\ CurrentFaceIsFresh
       /\ cornerTraversalStack # <<>>
       /\ Gate(current) \subseteq visitedVertices

(* The reader reads what is written; what it holds on to stays in the      *)
(* table, even after an error.                                             *)
HeldCornersAreDecoded ==
  /\ activeCorners \in Seq(0 .. 3 * NumSymbols - 1)
  /\ activeCorners # <<>> => DecodedCorners = Corners(numEncodedFaces)
  /\ \A v \in DecodedVertexIDs : dVertexCorners[v] \in DecodedCorners \cup {NoCorner}

ReadsWhatIsWritten ==
  IF phase = "written" THEN ReaderInv /\ HeldCornersAreDecoded ELSE DecoderInit

WalkInv ==
  /\ TableIsKept /\ NothingWalkedYet /\ TraversalTypes /\ EventsFollowTheWalk
  /\ FacesAreWalkedOnce /\ VerticesOfVisitedFaces /\ GatesAreVisited

RoundTripInv == WalkInv /\ ReadsWhatIsWritten

-----------------------------------------------------------------------------
(* Sequences of corners that name each face once.                          *)

LEMMA OneFaceMore ==
  ASSUME NEW s \in Seq(AllCorners), NEW c \in AllCorners
  PROVE  /\ Append(s, c) \in Seq(AllCorners) /\ Len(Append(s, c)) = Len(s) + 1
         /\ FacesOf(Append(s, c)) = FacesOf(s) \cup {Face(c)}
         /\ OncePerFace(s) /\ Face(c) \notin FacesOf(s) => OncePerFace(Append(s, c))
<1> DEFINE t == Append(s, c)
           n == Len(s)
<1>1. /\ t \in Seq(AllCorners) /\ n \in Nat /\ Len(t) = n + 1
      /\ \A i \in 1 .. n : t[i] = s[i]
      /\ t[n + 1] = c
      /\ DOMAIN s = 1 .. n /\ DOMAIN t = 1 .. n + 1
  OBVIOUS
<1> HIDE DEF t, n
<1>2. \A i : i \in 1 .. n + 1 <=> i \in 1 .. n \/ i = n + 1
  BY <1>1
<1>3. FacesOf(t) = FacesOf(s) \cup {Face(c)}
  BY <1>1, <1>2 DEF FacesOf
<1>4. ASSUME OncePerFace(s), Face(c) \notin FacesOf(s) PROVE OncePerFace(t)
  BY <1>1, <1>2, <1>4 DEF OncePerFace, FacesOf
<1> QED
  BY <1>1, <1>3, <1>4 DEF t, n

LEMMA FacesOfBoth ==
  ASSUME NEW s \in Seq(AllCorners), NEW t \in Seq(AllCorners)
  PROVE  /\ s \o t \in Seq(AllCorners) /\ Len(s \o t) = Len(s) + Len(t)
         /\ FacesOf(s \o t) = FacesOf(s) \cup FacesOf(t)
         /\ OncePerFace(s) /\ OncePerFace(t) /\ FacesOf(s) \cap FacesOf(t) = {}
              => OncePerFace(s \o t)
<1> DEFINE u == s \o t
           m == Len(s)
           n == Len(t)
<1>1. /\ u \in Seq(AllCorners) /\ m \in Nat /\ n \in Nat /\ Len(u) = m + n
      /\ \A i \in 1 .. m + n : u[i] = IF i <= m THEN s[i] ELSE t[i - m]
      /\ DOMAIN s = 1 .. m /\ DOMAIN t = 1 .. n /\ DOMAIN u = 1 .. m + n
  BY ConcatProperties, LenProperties
<1> HIDE DEF u, m, n
<1>2. \A i \in 1 .. m : i \in 1 .. m + n /\ u[i] = s[i]
  BY <1>1
<1>3. \A i \in 1 .. n : i + m \in 1 .. m + n /\ ~ (i + m <= m) /\ i + m - m = i
  BY <1>1
<1>4. \A i \in 1 .. n : u[i + m] = t[i]
  BY <1>1, <1>3
<1>5. \A i \in 1 .. m + n : i \in 1 .. m \/ (i - m \in 1 .. n /\ i - m + m = i /\ ~ (i <= m))
  BY <1>1
<1>6. FacesOf(u) \subseteq FacesOf(s) \cup FacesOf(t)
  <2> SUFFICES ASSUME NEW i \in 1 .. m + n PROVE Face(u[i]) \in FacesOf(s) \cup FacesOf(t)
    BY <1>1 DEF FacesOf
  <2>1. CASE i \in 1 .. m
    BY <1>1, <1>2, <2>1 DEF FacesOf
  <2>2. CASE i \notin 1 .. m
    <3>1. i - m \in DOMAIN t /\ u[i] = t[i - m]
      BY <1>1, <1>5, <2>2
    <3> QED
      BY <3>1 DEF FacesOf
  <2> QED
    BY <2>1, <2>2
<1>7. FacesOf(s) \subseteq FacesOf(u) /\ FacesOf(t) \subseteq FacesOf(u)
  <2>1. FacesOf(s) \subseteq FacesOf(u)
    BY <1>1, <1>2 DEF FacesOf
  <2>2. FacesOf(t) \subseteq FacesOf(u)
    <3> SUFFICES ASSUME NEW i \in 1 .. n PROVE Face(t[i]) \in FacesOf(u)
      BY <1>1 DEF FacesOf
    <3>1. i + m \in DOMAIN u /\ u[i + m] = t[i]
      BY <1>1, <1>3, <1>4
    <3> QED
      BY <3>1 DEF FacesOf
  <2> QED
    BY <2>1, <2>2
<1>8. ASSUME OncePerFace(s), OncePerFace(t), FacesOf(s) \cap FacesOf(t) = {},
             NEW i \in 1 .. m + n, NEW j \in 1 .. m + n, Face(u[i]) = Face(u[j])
      PROVE  i = j
  <2>1. CASE i \in 1 .. m /\ j \in 1 .. m
    BY <1>1, <1>2, <1>8, <2>1 DEF OncePerFace
  <2>2. CASE i \notin 1 .. m /\ j \notin 1 .. m
    <3>1. i - m \in DOMAIN t /\ j - m \in DOMAIN t /\ u[i] = t[i - m] /\ u[j] = t[j - m]
      BY <1>1, <1>5, <2>2
    <3>2. i - m = j - m
      BY <1>8, <3>1 DEF OncePerFace
    <3> QED
      BY <1>1, <3>2
  <2>3. ASSUME NEW x \in 1 .. m + n, NEW y \in 1 .. m + n, x \in 1 .. m, y \notin 1 .. m
        PROVE  Face(u[x]) # Face(u[y])
    <3>1. u[x] = s[x] /\ x \in DOMAIN s /\ y - m \in DOMAIN t /\ u[y] = t[y - m]
      BY <1>1, <1>2, <1>5, <2>3
    <3>2. Face(u[x]) \in FacesOf(s) /\ Face(u[y]) \in FacesOf(t)
      BY <3>1 DEF FacesOf
    <3> QED
      BY <1>8, <3>2
  <2> QED
    BY <1>8, <2>1, <2>2, <2>3
<1>9. OncePerFace(s) /\ OncePerFace(t) /\ FacesOf(s) \cap FacesOf(t) = {} => OncePerFace(u)
  BY <1>1, <1>8 DEF OncePerFace
<1> QED
  BY <1>1, <1>6, <1>7, <1>9 DEF u, m, n

LEMMA FacesReversed ==
  ASSUME NEW s \in Seq(AllCorners)
  PROVE  /\ Reverse(s) \in Seq(AllCorners) /\ FacesOf(Reverse(s)) = FacesOf(s)
         /\ OncePerFace(s) => OncePerFace(Reverse(s))
<1> DEFINE r == Reverse(s)
           n == Len(s)
<1>1. /\ n \in Nat /\ DOMAIN s = 1 .. n /\ \A i \in 1 .. n : s[i] \in AllCorners
      /\ r = [i \in 1 .. n |-> s[n - i + 1]]
  BY DEF Reverse
<1> HIDE DEF r, n
<1>2. \A i \in 1 .. n : n - i + 1 \in 1 .. n /\ n - (n - i + 1) + 1 = i
  BY <1>1
<1>3. /\ DOMAIN r = 1 .. n /\ \A i \in 1 .. n : r[i] = s[n - i + 1] /\ r[n - i + 1] = s[i]
  BY <1>1, <1>2
<1>4. r \in Seq(AllCorners)
  BY <1>1, <1>2
<1>5. FacesOf(r) = FacesOf(s)
  <2>1. FacesOf(r) \subseteq FacesOf(s)
    BY <1>1, <1>2, <1>3 DEF FacesOf
  <2>2. FacesOf(s) \subseteq FacesOf(r)
    <3> SUFFICES ASSUME NEW i \in 1 .. n PROVE Face(s[i]) \in FacesOf(r)
      BY <1>1 DEF FacesOf
    <3>1. n - i + 1 \in DOMAIN r /\ r[n - i + 1] = s[i]
      BY <1>2, <1>3
    <3> QED
      BY <3>1 DEF FacesOf
  <2> QED
    BY <2>1, <2>2
<1>6. ASSUME OncePerFace(s), NEW i \in 1 .. n, NEW j \in 1 .. n, Face(r[i]) = Face(r[j])
      PROVE  i = j
  <2>1. n - i + 1 = n - j + 1
    BY <1>1, <1>2, <1>3, <1>6 DEF OncePerFace
  <2> QED
    BY <1>1, <2>1
<1>7. OncePerFace(s) => OncePerFace(r)
  BY <1>3, <1>6 DEF OncePerFace
<1> QED
  BY <1>4, <1>5, <1>7 DEF r

LEMMA NoMoreThanAllFaces ==
  ASSUME mesh.numFaces \in Nat, NEW s \in Seq(AllCorners), OncePerFace(s)
  PROVE  Len(s) \in Nat /\ Len(s) <= mesh.numFaces
<1> DEFINE n == Len(s)
           f == [i \in 1 .. n |-> Face(s[i])]
<1>1. n \in Nat /\ DOMAIN s = 1 .. n /\ \A i \in 1 .. n : s[i] \in AllCorners
  OBVIOUS
<1>2. \A c \in AllCorners : Face(c) \in AllFaces
  BY CornerArithmetic DEF AllCorners, AllFaces
<1> HIDE DEF n
<1>3. f \in [1 .. n -> AllFaces]
  BY <1>1, <1>2
<1>4. f \in Injection(1 .. n, AllFaces)
  <2>1. \A i, j \in 1 .. n : f[i] = f[j] => i = j
    BY <1>1 DEF OncePerFace
  <2> HIDE DEF f
  <2> QED
    BY <1>3, <2>1 DEF Injection, IsInjective
<1> HIDE DEF f
<1>5. \A a, b \in Int : /\ Cardinality(a .. b) = IF a > b THEN 0 ELSE b - a + 1
                        /\ IsFiniteSet(a .. b)
  BY FS_Interval
<1>6. Cardinality(1 .. n) = n
  <2>1. 1 \in Int /\ n \in Int
    BY <1>1
  <2>2. Cardinality(1 .. n) = IF 1 > n THEN 0 ELSE n - 1 + 1
    BY <1>5, <2>1
  <2> QED
    BY <1>1, <2>2
<1>7. IsFiniteSet(AllFaces) /\ Cardinality(AllFaces) = mesh.numFaces
  <2>1. 0 \in Int /\ mesh.numFaces - 1 \in Int
    OBVIOUS
  <2>2. /\ IsFiniteSet(0 .. mesh.numFaces - 1)
        /\ Cardinality(0 .. mesh.numFaces - 1)
             = IF 0 > mesh.numFaces - 1 THEN 0 ELSE mesh.numFaces - 1 - 0 + 1
    BY <1>5, <2>1
  <2> QED
    BY <2>2 DEF AllFaces
<1>8. Cardinality(1 .. n) <= Cardinality(AllFaces)
  BY <1>4, <1>7, FS_Injection
<1> QED
  BY <1>1, <1>6, <1>7, <1>8 DEF n

-----------------------------------------------------------------------------
(* Split events.                                                           *)

EventsUpTo(events, id) ==
  /\ events \in Seq(SplitEvents)
  /\ \A i \in DOMAIN events : events[i].source <= id
  /\ EncodableSplitEvents(events)

LEMMA EventAdded ==
  ASSUME NEW events, NEW id \in Nat, EventsUpTo(events, id), NEW event \in SplitEvents,
         event.source = id, event.split <= id
  PROVE  EventsUpTo(events \o <<event>>, id)
<1> DEFINE more == events \o <<event>>
           n == Len(events)
<1>1. /\ events \in Seq(SplitEvents) /\ n \in Nat /\ DOMAIN events = 1 .. n
      /\ \A i \in 1 .. n : events[i] \in SplitEvents /\ events[i].source <= id
  BY DEF EventsUpTo
<1>2. /\ more \in Seq(SplitEvents) /\ DOMAIN more = 1 .. n + 1
      /\ \A i \in 1 .. n : more[i] = events[i]
      /\ more[n + 1] = event
  <2>1. <<event>> \in Seq(SplitEvents) /\ Len(<<event>>) = 1 /\ <<event>>[1] = event
    OBVIOUS
  <2>2. /\ more \in Seq(SplitEvents) /\ Len(more) = n + 1
        /\ \A i \in 1 .. n + 1 : more[i] = IF i <= n THEN events[i] ELSE <<event>>[i - n]
    BY <1>1, <2>1, ConcatProperties
  <2>3. \A i \in 1 .. n : i \in 1 .. n + 1 /\ i <= n
    BY <1>1
  <2>4. n + 1 \in 1 .. n + 1 /\ ~ (n + 1 <= n) /\ n + 1 - n = 1
    BY <1>1
  <2> HIDE DEF more
  <2> QED
    BY <2>1, <2>2, <2>3, <2>4
<1> HIDE DEF more, n
<1>3. \A i \in 1 .. n + 1 : i \in 1 .. n \/ i = n + 1
  BY <1>1
<1>4. \A i \in 1 .. n + 1 : more[i].source <= id
  BY <1>1, <1>2, <1>3
<1>5. ASSUME NEW i \in 1 .. n + 1
      PROVE  /\ more[i].split <= more[i].source
             /\ i > 1 => more[i - 1].source <= more[i].source
  <2>1. CASE i \in 1 .. n
    <3>1. i > 1 => i - 1 \in 1 .. n
      BY <1>1, <2>1
    <3> QED
      BY <1>1, <1>2, <2>1, <3>1 DEF EventsUpTo, EncodableSplitEvents
  <2>2. CASE i = n + 1
    <3>1. i > 1 => i - 1 \in 1 .. n
      BY <1>1, <2>2
    <3> QED
      BY <1>1, <1>2, <2>2, <3>1
  <2> QED
    BY <1>3, <2>1, <2>2
<1> QED
  BY <1>2, <1>4, <1>5 DEF EventsUpTo, EncodableSplitEvents, more

(* What checkAndStoreTopologySplitEvent adds to the events of the walk.    *)
LEMMA SplitEventAdded ==
  ASSUME TraversalTypes, NEW events, EventsUpTo(events, lastEncodedSymbolID + 1),
         NEW neighbour \in AllCorners \cup {NoCorner}, NEW edge \in {"left", "right"}
  PROVE  EventsUpTo(events \o SplitEventAt(neighbour, edge), lastEncodedSymbolID + 1)
<1> DEFINE id == lastEncodedSymbolID + 1
           split == faceToSplitSymbol[Face(neighbour)]
           event == [source |-> id, split |-> split, edge |-> edge]
<1>1. id \in Nat /\ lastEncodedSymbolID \in Int
  BY DEF TraversalTypes
<1>2. CASE neighbour >= 0 /\ split >= 0
  <2>1. neighbour \in AllCorners
    BY <1>2 DEF NoCorner
  <2>2. Face(neighbour) \in AllFaces
    BY <2>1, CornerArithmetic DEF TraversalTypes, AllCorners, AllFaces
  <2>3. split \in -1 .. lastEncodedSymbolID
    BY <2>2 DEF TraversalTypes
  <2>4. split \in Nat /\ split <= id
    BY <1>1, <1>2, <2>3
  <2>5. event \in SplitEvents /\ event.source = id /\ event.split <= id
    BY <1>1, <2>4 DEF SplitEvents
  <2>6. SplitEventAt(neighbour, edge) = <<event>>
    BY <1>2 DEF SplitEventAt
  <2> HIDE DEF event, id
  <2>7. EventsUpTo(events \o <<event>>, id)
    BY <1>1, <2>5, EventAdded DEF id
  <2> QED
    BY <2>6, <2>7 DEF id
<1>3. CASE ~ (neighbour >= 0 /\ split >= 0)
  <2>1. SplitEventAt(neighbour, edge) = <<>>
    BY <1>3 DEF SplitEventAt
  <2>2. events \o <<>> = events
    BY ConcatEmptySeq DEF EventsUpTo
  <2> QED
    BY <2>1, <2>2
<1> QED
  BY <1>2, <1>3

LEMMA EventsSoFar ==
  ASSUME TraversalTypes, EventsFollowTheWalk
  PROVE  EventsUpTo(splitEvents, lastEncodedSymbolID + 1)
<1>1. splitEvents \in Seq(SplitEvents) /\ lastEncodedSymbolID \in Int
  BY DEF TraversalTypes, WireTypeOK
<1>2. \A i \in DOMAIN splitEvents : splitEvents[i].source \in Nat
  <2>1. \A i \in DOMAIN splitEvents : splitEvents[i] \in SplitEvents
    BY <1>1
  <2> QED
    BY <2>1 DEF SplitEvents
<1> QED
  BY <1>1, <1>2 DEF EventsFollowTheWalk, EventsUpTo

-----------------------------------------------------------------------------
(* The steps of the walk.                                                  *)

WalkPhases == {"ready", "branch", "walk", "written"}

(* No step of the walk changes the table.                                  *)
LEMMA TableStaysReady ==
  ASSUME TableIsReady, UNCHANGED <<mesh, opposite, cornerVertex, vertexHoleID, numHoles>>
  PROVE  /\ TableIsReady'
         /\ AllCorners' = AllCorners /\ AllFaces' = AllFaces /\ VertexIDs' = VertexIDs
         /\ \A c : Gate(c)' = Gate(c)
<1>1. /\ AllCorners' = AllCorners /\ VertexIDs' = VertexIDs
      /\ BoundaryCorners' = BoundaryCorners
      /\ \A c : BoundaryVertexOf(c)' = BoundaryVertexOf(c)
  BY TurnsStay
<1>2. TableIsManifold'
  BY <1>1 DEF TableIsReady, TableIsManifold
<1>3. TableIsReady'
  BY <1>1, <1>2 DEF TableIsReady
<1> QED
  BY <1>1, <1>3 DEF AllFaces, Gate

(* The types, from those of what a step of the walk changes.               *)
LEMMA WalkKeepsTypes ==
  ASSUME TraversalTypes, mesh' = mesh, numHoles' = numHoles, WireTypeOK',
         phase' \in WalkPhases,
         visitedFaces' \subseteq AllFaces,
         visitedVertices' \subseteq VertexIDs,
         visitedHoles' \subseteq 0 .. numHoles - 1,
         current' \in AllCorners \cup {NoCorner},
         cornerTraversalStack' \in Seq(AllCorners \cup {NoCorner}),
         lastEncodedSymbolID' \in Nat \cup {-1},
         faceToSplitSymbol' \in [AllFaces -> -1 .. lastEncodedSymbolID'],
         processedCorners' \in Seq(AllCorners),
         initFaceCorners' \in Seq(AllCorners)
  PROVE  TraversalTypes'
<1>1. AllCorners' = AllCorners /\ AllFaces' = AllFaces /\ VertexIDs' = VertexIDs
  BY DEF AllCorners, AllFaces, VertexIDs, MaxVertices
<1>2. mesh.numFaces \in Nat /\ mesh.numVertices \in Nat
  BY DEF TraversalTypes
<1>3. phase' \in Phases \cup {"branch", "walk", "written"}
  BY DEF WalkPhases, Phases
<1> QED
  BY <1>1, <1>2, <1>3 DEF TraversalTypes

(* The faces across the edges next to a corner.                            *)
LEMMA RightGate ==
  ASSUME TableIsReady, NEW c \in AllCorners, NEW r, r = RightCorner(opposite, c), r # NoCorner
  PROVE  /\ r \in AllCorners /\ Face(r) # Face(c)
         /\ Gate(r) = {cornerVertex[c], cornerVertex[PreviousCorner(c)]}
         /\ cornerVertex[NextCorner(r)] = cornerVertex[c]
<1> DEFINE n == NextCorner(c)
<1>1. TableIsManifold
  BY DEF TableIsReady
<1>2. /\ n \in AllCorners /\ PreviousCorner(n) = c /\ NextCorner(n) = PreviousCorner(c)
      /\ Face(n) = Face(c) /\ r = opposite[n]
  BY <1>1, ManifoldCorners
<1> HIDE DEF n
<1>3. /\ r \in AllCorners
      /\ cornerVertex[NextCorner(r)] = cornerVertex[PreviousCorner(n)]
      /\ cornerVertex[PreviousCorner(r)] = cornerVertex[NextCorner(n)]
  BY <1>1, <1>2, ManifoldEdges
<1>4. Face(r) # Face(c)
  BY <1>2 DEF TableIsReady
<1> QED
  BY <1>2, <1>3, <1>4 DEF Gate

LEMMA LeftGate ==
  ASSUME TableIsReady, NEW c \in AllCorners, NEW l, l = LeftCorner(opposite, c), l # NoCorner
  PROVE  /\ l \in AllCorners
         /\ Gate(l) = {cornerVertex[c], cornerVertex[NextCorner(c)]}
<1> DEFINE p == PreviousCorner(c)
<1>1. TableIsManifold
  BY DEF TableIsReady
<1>2. /\ p \in AllCorners /\ NextCorner(p) = c /\ PreviousCorner(p) = NextCorner(c)
      /\ l = opposite[p]
  BY <1>1, ManifoldCorners
<1> HIDE DEF p
<1>3. /\ l \in AllCorners
      /\ cornerVertex[NextCorner(l)] = cornerVertex[PreviousCorner(p)]
      /\ cornerVertex[PreviousCorner(l)] = cornerVertex[NextCorner(p)]
  BY <1>1, <1>2, ManifoldEdges
<1> QED
  BY <1>2, <1>3 DEF Gate

GatesOf(corners, vertices) ==
  \A i \in DOMAIN corners : corners[i] # NoCorner => Gate(corners[i]) \subseteq vertices

(* Every symbol removes the face the walk stands on.                       *)
LEMMA SymbolKeepsWalk ==
  ASSUME WalkInv, NEW symbol \in TopologySymbols, ReachCorner(symbol),
         phase' \in {"branch", "walk"},
         visitedVertices \cup {TipVertex} \subseteq visitedVertices',
         visitedVertices' \subseteq VertexIDs,
         visitedHoles' \subseteq 0 .. numHoles - 1,
         faceToSplitSymbol' \in [AllFaces -> -1 .. lastEncodedSymbolID + 1],
         EventsUpTo(splitEvents', lastEncodedSymbolID + 1),
         numSplitSymbols' \in Nat,
         cornerTraversalStack' \in Seq(AllCorners \cup {NoCorner}),
         GatesOf(cornerTraversalStack', visitedVertices'),
         current' \in AllCorners \cup {NoCorner},
         phase' = "walk" =>
           /\ current' \in AllCorners /\ Face(current') \notin visitedFaces'
           /\ Gate(current') \subseteq visitedVertices'
           /\ cornerTraversalStack' # <<>>
  PROVE  WalkInv'
<1>1. /\ TraversalTypes /\ TableIsReady /\ FacesAreWalkedOnce /\ phase = "walk"
      /\ current \in AllCorners /\ Face(current) \notin visitedFaces
      /\ Gate(current) \subseteq visitedVertices
      /\ \A c \in AllCorners : Face(c) \in visitedFaces => cornerVertex[c] \in visitedVertices
  BY DEF WalkInv, TableIsKept, GatesAreVisited, VerticesOfVisitedFaces, Walking, ReachCorner,
         CurrentFaceIsFresh
<1>2. /\ UnchangedOutsideTraversal
      /\ UNCHANGED <<mesh, opposite, cornerVertex, vertexHoleID, numHoles, initFaceCorners>>
      /\ lastEncodedSymbolID' = lastEncodedSymbolID + 1
      /\ visitedFaces' = visitedFaces \cup {Face(current)}
      /\ processedCorners' = Append(processedCorners, current)
      /\ symbols' = Append(symbols, symbol)
  <2>1. UnchangedOutsideTraversal
    BY DEF ReachCorner
  <2>2. UNCHANGED <<mesh, opposite, cornerVertex, vertexHoleID, numHoles, initFaceCorners>>
    BY <2>1 DEF UnchangedOutsideTraversal, tableVars
  <2> QED
    BY <2>1, <2>2 DEF ReachCorner
<1>3. TableIsManifold
  BY <1>1 DEF TableIsReady
<1>4. /\ TableIsReady'
      /\ AllCorners' = AllCorners /\ AllFaces' = AllFaces /\ VertexIDs' = VertexIDs
      /\ \A c : Gate(c)' = Gate(c)
  BY <1>1, <1>2, TableStaysReady
<1>5. /\ processedCorners \in Seq(AllCorners) /\ symbols \in Seq(TopologySymbols)
      /\ lastEncodedSymbolID \in Nat \cup {-1} /\ visitedFaces \subseteq AllFaces
  BY <1>1 DEF TraversalTypes, WireTypeOK
<1>6. /\ processedCorners' \in Seq(AllCorners)
      /\ Len(processedCorners') = Len(processedCorners) + 1
      /\ FacesOf(processedCorners') = FacesOf(processedCorners) \cup {Face(current)}
      /\ OncePerFace(processedCorners) /\ Face(current) \notin FacesOf(processedCorners)
           => OncePerFace(processedCorners')
  BY <1>1, <1>2, <1>5, OneFaceMore
<1>7. symbols' \in Seq(TopologySymbols) /\ NumSymbols' = NumSymbols + 1
  BY <1>2, <1>5 DEF NumSymbols
<1>8. TraversalTypes'
  <2>1. Face(current) \in AllFaces
    BY <1>1, <1>3, ManifoldCorners
  <2>2. lastEncodedSymbolID' \in Nat \cup {-1} /\ visitedFaces' \subseteq AllFaces
    BY <1>2, <1>5, <2>1
  <2>3. splitEvents' \in Seq(SplitEvents) /\ phase' \in WalkPhases
    BY DEF EventsUpTo, WalkPhases
  <2>4. faceToSplitSymbol' \in [AllFaces -> -1 .. lastEncodedSymbolID']
    BY <1>2
  <2>5. WireTypeOK' /\ initFaceCorners' \in Seq(AllCorners)
    BY <1>1, <1>2, <1>7, <2>3 DEF UnchangedOutsideTraversal, TraversalTypes, WireTypeOK
  <2> QED
    BY <1>1, <1>2, <1>6, <2>2, <2>3, <2>4, <2>5, WalkKeepsTypes
<1>9. TableIsKept'
  BY <1>4 DEF TableIsKept, BasePhases
<1>10. NothingWalkedYet'
  BY DEF NothingWalkedYet, BasePhases
<1>11. EventsFollowTheWalk'
  BY <1>2 DEF EventsUpTo, EventsFollowTheWalk
<1>12. FacesAreWalkedOnce'
  <2>1. /\ OncePerFace(processedCorners) /\ OncePerFace(initFaceCorners)
        /\ FacesOf(processedCorners) \cap FacesOf(initFaceCorners) = {}
        /\ FacesOf(processedCorners) \cup FacesOf(initFaceCorners) = visitedFaces
        /\ NumSymbols = Len(processedCorners)
    BY <1>1 DEF FacesAreWalkedOnce
  <2>2. Face(current) \notin FacesOf(processedCorners) /\ Face(current) \notin FacesOf(initFaceCorners)
    BY <1>1, <2>1
  <2>3. /\ OncePerFace(processedCorners') /\ OncePerFace(initFaceCorners')
        /\ FacesOf(processedCorners') \cap FacesOf(initFaceCorners') = {}
        /\ FacesOf(processedCorners') \cup FacesOf(initFaceCorners') = visitedFaces'
        /\ NumSymbols' = Len(processedCorners')
    BY <1>2, <1>6, <1>7, <2>1, <2>2
  <2>4. phase' # "written"
    OBVIOUS
  <2> QED
    BY <2>3, <2>4 DEF FacesAreWalkedOnce, OncePerFace, FacesOf
<1>13. VerticesOfVisitedFaces'
  <2>1. ASSUME NEW c \in AllCorners, Face(c) \in visitedFaces'
        PROVE  cornerVertex[c] \in visitedVertices'
    <3>1. CASE Face(c) \in visitedFaces
      BY <1>1, <3>1
    <3>2. CASE Face(c) = Face(current)
      <4>1. mesh.numFaces \in Nat /\ AllCorners = Corners(mesh.numFaces)
        BY <1>3 DEF TableIsManifold, AllCorners
      <4>2. \/ c = current \/ c = NextCorner(current) \/ c = PreviousCorner(current)
        BY <1>1, <3>2, <4>1, CornersOfOneFace
      <4> QED
        BY <1>1, <4>2 DEF Gate, TipVertex
    <3> QED
      BY <1>2, <2>1, <3>1, <3>2
  <2>2. UNCHANGED <<AllCorners, cornerVertex>>
    BY <1>2, <1>4
  <2> QED
    BY <2>1, <2>2 DEF VerticesOfVisitedFaces
<1>14. GatesAreVisited'
  <2>1. phase' = "walk" => CurrentFaceIsFresh' /\ Gate(current)' \subseteq visitedVertices'
    <3>1. Gate(current)' = {cornerVertex'[NextCorner(current')], cornerVertex'[PreviousCorner(current')]}
      BY DEF Gate
    <3>2. Gate(current') = {cornerVertex[NextCorner(current')], cornerVertex[PreviousCorner(current')]}
      BY DEF Gate
    <3> QED
      BY <1>2, <1>4, <3>1, <3>2 DEF CurrentFaceIsFresh
  <2>2. GatesOf(cornerTraversalStack, visitedVertices)'
    BY <1>2 DEF GatesOf, Gate
  <2> QED
    BY <2>1, <2>2 DEF GatesAreVisited, GatesOf
<1> QED
  BY <1>8, <1>9, <1>10, <1>11, <1>12, <1>13, <1>14 DEF WalkInv

-----------------------------------------------------------------------------
(* The symbols.                                                            *)

(* The stack of branches.                                                  *)
LEMMA GatesOfFront ==
  ASSUME NEW s \in Seq(AllCorners \cup {NoCorner}), s # <<>>, NEW V, GatesOf(s, V)
  PROVE  Front(s) \in Seq(AllCorners \cup {NoCorner}) /\ GatesOf(Front(s), V)
<1>1. Front(s) \in Seq(AllCorners \cup {NoCorner})
  BY FrontAndLast
<1>2. Len(s) \in Nat \ {0} /\ DOMAIN s = 1 .. Len(s)
  BY LenProperties, EmptySeq
<1>3. /\ DOMAIN Front(s) = 1 .. Len(s) - 1
      /\ \A i \in 1 .. Len(s) - 1 : Front(s)[i] = s[i] /\ i \in DOMAIN s
  <2>1. /\ Len(SubSeq(s, 1, Len(s) - 1)) = Len(s) - 1
        /\ \A i \in 1 .. Len(s) - 1 : SubSeq(s, 1, Len(s) - 1)[i] = s[i]
        /\ SubSeq(s, 1, Len(s) - 1) \in Seq(AllCorners \cup {NoCorner})
    BY <1>2, SubSeqProperties
  <2> QED
    BY <1>2, <2>1, LenProperties DEF Front
<1> QED
  BY <1>1, <1>3 DEF GatesOf

LEMMA GatesOfMore ==
  ASSUME NEW s \in Seq(AllCorners \cup {NoCorner}), NEW V, GatesOf(s, V),
         NEW a \in AllCorners \cup {NoCorner}, NEW b \in AllCorners \cup {NoCorner},
         a # NoCorner => Gate(a) \subseteq V, b # NoCorner => Gate(b) \subseteq V
  PROVE  s \o <<a, b>> \in Seq(AllCorners \cup {NoCorner}) /\ GatesOf(s \o <<a, b>>, V)
<1> DEFINE t == s \o <<a, b>>
           n == Len(s)
<1>1. /\ <<a, b>> \in Seq(AllCorners \cup {NoCorner}) /\ Len(<<a, b>>) = 2
      /\ <<a, b>>[1] = a /\ <<a, b>>[2] = b
  OBVIOUS
<1>2. /\ t \in Seq(AllCorners \cup {NoCorner}) /\ Len(t) = n + 2 /\ n \in Nat
      /\ \A i \in 1 .. n + 2 : t[i] = IF i <= n THEN s[i] ELSE <<a, b>>[i - n]
      /\ DOMAIN t = 1 .. n + 2 /\ DOMAIN s = 1 .. n
  BY <1>1, ConcatProperties, LenProperties
<1> HIDE DEF t, n
<1>3. \A i \in 1 .. n + 2 :
        \/ i \in 1 .. n /\ i <= n
        \/ i - n = 1 /\ ~ (i <= n)
        \/ i - n = 2 /\ ~ (i <= n)
  BY <1>2
<1>4. \A i \in 1 .. n + 2 : (i \in 1 .. n /\ t[i] = s[i]) \/ t[i] = a \/ t[i] = b
  BY <1>1, <1>2, <1>3
<1>5. GatesOf(t, V)
  BY <1>2, <1>4 DEF GatesOf
<1> QED
  BY <1>2, <1>5 DEF t

(* What the walk knows of the corner it stands on.                         *)
LEMMA WalkStandsOn ==
  ASSUME WalkInv, phase = "walk"
  PROVE  /\ TableIsReady /\ TraversalTypes
         /\ current \in AllCorners /\ TipVertex \in VertexIDs /\ Face(current) \in AllFaces
         /\ visitedVertices \subseteq VertexIDs /\ visitedHoles \subseteq 0 .. numHoles - 1
         /\ lastEncodedSymbolID + 1 \in Nat
         /\ faceToSplitSymbol \in [AllFaces -> -1 .. lastEncodedSymbolID + 1]
         /\ numSplitSymbols \in Nat
         /\ EventsUpTo(splitEvents, lastEncodedSymbolID + 1)
         /\ cornerTraversalStack \in Seq(AllCorners \cup {NoCorner})
         /\ cornerTraversalStack # <<>>
         /\ GatesOf(cornerTraversalStack, visitedVertices)
<1>1. /\ TableIsReady /\ TraversalTypes /\ EventsFollowTheWalk /\ current \in AllCorners
      /\ cornerTraversalStack # <<>>
      /\ GatesOf(cornerTraversalStack, visitedVertices)
  BY DEF WalkInv, TableIsKept, GatesAreVisited, Walking, CurrentFaceIsFresh, GatesOf
<1>2. TipVertex \in VertexIDs /\ Face(current) \in AllFaces
  BY <1>1, ManifoldCorners DEF TableIsReady, TipVertex
<1>3. lastEncodedSymbolID + 1 \in Nat /\ numSplitSymbols \in Nat
  BY <1>1 DEF TraversalTypes, WireTypeOK
<1>4. faceToSplitSymbol \in [AllFaces -> -1 .. lastEncodedSymbolID + 1]
  <2>1. faceToSplitSymbol \in [AllFaces -> -1 .. lastEncodedSymbolID]
    BY <1>1 DEF TraversalTypes
  <2>2. lastEncodedSymbolID \in Int
    BY <1>1 DEF TraversalTypes
  <2>3. -1 .. lastEncodedSymbolID \subseteq -1 .. lastEncodedSymbolID + 1
    BY <2>2
  <2> QED
    BY <2>1, <2>3
<1>5. EventsUpTo(splitEvents, lastEncodedSymbolID + 1)
  BY <1>1, EventsSoFar
<1> QED
  BY <1>1, <1>2, <1>3, <1>4, <1>5 DEF TraversalTypes

(* The neighbours to go on to: entered through an edge at the tip.         *)
LEMMA NeighboursOfCurrent ==
  ASSUME WalkInv, phase = "walk"
  PROVE  /\ RightOfCurrent \in AllCorners \cup {NoCorner}
         /\ LeftOfCurrent \in AllCorners \cup {NoCorner}
         /\ RightOfCurrent # NoCorner => Gate(RightOfCurrent) \subseteq visitedVertices \cup {TipVertex}
         /\ LeftOfCurrent # NoCorner => Gate(LeftOfCurrent) \subseteq visitedVertices \cup {TipVertex}
         /\ ~ RightVisited => RightOfCurrent \in AllCorners
                              /\ Face(RightOfCurrent) \notin visitedFaces \cup {Face(current)}
         /\ ~ LeftVisited => LeftOfCurrent \in AllCorners
                             /\ Face(LeftOfCurrent) \notin visitedFaces \cup {Face(current)}
<1>1. TableIsReady /\ TableIsManifold /\ current \in AllCorners
  BY WalkStandsOn DEF TableIsReady
<1>2. Gate(current) \subseteq visitedVertices
  BY DEF WalkInv, GatesAreVisited
<1>3. /\ NextCorner(current) \in AllCorners /\ PreviousCorner(current) \in AllCorners
      /\ RightOfCurrent = opposite[NextCorner(current)]
      /\ LeftOfCurrent = opposite[PreviousCorner(current)]
  BY <1>1, ManifoldCorners DEF RightOfCurrent, LeftOfCurrent
<1>4. RightOfCurrent \in AllCorners \cup {NoCorner} /\ LeftOfCurrent \in AllCorners \cup {NoCorner}
  BY <1>1, <1>3, ManifoldCorners
<1>5. RightOfCurrent # NoCorner => Gate(RightOfCurrent) \subseteq visitedVertices \cup {TipVertex}
  <2>1. RightOfCurrent # NoCorner
          => Gate(RightOfCurrent) = {cornerVertex[current], cornerVertex[PreviousCorner(current)]}
    BY <1>1, RightGate DEF RightOfCurrent
  <2> QED
    BY <1>2, <2>1 DEF Gate, TipVertex
<1>6. LeftOfCurrent # NoCorner => Gate(LeftOfCurrent) \subseteq visitedVertices \cup {TipVertex}
  <2>1. LeftOfCurrent # NoCorner
          => Gate(LeftOfCurrent) = {cornerVertex[current], cornerVertex[NextCorner(current)]}
    BY <1>1, LeftGate DEF LeftOfCurrent
  <2> QED
    BY <1>2, <2>1 DEF Gate, TipVertex
<1>7. NoCorner < 0
  BY DEF NoCorner
<1> QED
  BY <1>4, <1>5, <1>6, <1>7 DEF RightVisited, LeftVisited, Gone

LEMMA WalkSymbolC ==
  ASSUME WalkInv, SymbolC
  PROVE  WalkInv'
<1>1. phase = "walk" /\ "C" \in TopologySymbols
  BY DEF SymbolC, ReachCorner, TopologySymbols
<1>2. /\ TableIsReady /\ TableIsManifold /\ current \in AllCorners
      /\ TipVertex \notin visitedVertices /\ vertexHoleID[TipVertex] = -1
  BY <1>1, WalkStandsOn DEF TableIsReady, SymbolC, NewInteriorTip, TipOnBoundary
<1>3. RightOfCurrent # NoCorner
  <2>1. RightOfCurrent = opposite[NextCorner(current)]
    BY <1>2, ManifoldCorners DEF RightOfCurrent
  <2> QED
    BY <1>2, <2>1, MissingFaceIsABoundary DEF TipVertex
<1>4. /\ RightOfCurrent \in AllCorners /\ Face(RightOfCurrent) # Face(current)
      /\ cornerVertex[NextCorner(RightOfCurrent)] = TipVertex
  BY <1>2, <1>3, RightGate DEF RightOfCurrent, TipVertex
<1>5. Face(RightOfCurrent) \notin visitedFaces
  <2>1. /\ NextCorner(RightOfCurrent) \in AllCorners
        /\ Face(NextCorner(RightOfCurrent)) = Face(RightOfCurrent)
    BY <1>2, <1>4, ManifoldCorners
  <2>2. \A c \in AllCorners : Face(c) \in visitedFaces => cornerVertex[c] \in visitedVertices
    BY <1>1 DEF WalkInv, VerticesOfVisitedFaces, Walking
  <2> QED
    BY <1>2, <1>4, <2>1, <2>2
<1>6. /\ ReachCorner("C") /\ visitedVertices' = visitedVertices \cup {TipVertex}
      /\ current' = RightOfCurrent
      /\ UNCHANGED <<phase, visitedHoles, cornerTraversalStack, faceToSplitSymbol,
                     splitEvents, numSplitSymbols>>
      /\ visitedFaces' = visitedFaces \cup {Face(current)}
  BY DEF SymbolC, ReachCorner
<1>7. GatesOf(cornerTraversalStack', visitedVertices')
  <2>1. GatesOf(cornerTraversalStack, visitedVertices)
    BY <1>1, WalkStandsOn
  <2> QED
    BY <1>6, <2>1 DEF GatesOf
<1>8. Gate(RightOfCurrent) \subseteq visitedVertices'
  BY <1>1, <1>3, <1>6, NeighboursOfCurrent
<1>9. visitedVertices' \subseteq VertexIDs
  BY <1>1, <1>6, WalkStandsOn
<1> QED
  BY <1>1, <1>4, <1>5, <1>6, <1>7, <1>8, <1>9, WalkStandsOn, SymbolKeepsWalk

LEMMA WalkSymbolR ==
  ASSUME WalkInv, SymbolR
  PROVE  WalkInv'
<1>1. phase = "walk" /\ "R" \in TopologySymbols /\ "right" \in {"left", "right"} /\ ~ LeftVisited
  BY DEF SymbolR, ReachCorner, TopologySymbols
<1>2. /\ ReachCorner("R") /\ visitedVertices' = visitedVertices \cup {TipVertex}
      /\ current' = LeftOfCurrent
      /\ splitEvents' = splitEvents \o SplitEventAt(RightOfCurrent, "right")
      /\ UNCHANGED <<phase, visitedHoles, cornerTraversalStack, faceToSplitSymbol,
                     numSplitSymbols>>
      /\ visitedFaces' = visitedFaces \cup {Face(current)}
  BY DEF SymbolR, ReachCorner
<1>3. EventsUpTo(splitEvents', lastEncodedSymbolID + 1)
  BY <1>1, <1>2, WalkStandsOn, NeighboursOfCurrent, SplitEventAdded
<1>4. GatesOf(cornerTraversalStack', visitedVertices')
  <2>1. GatesOf(cornerTraversalStack, visitedVertices)
    BY <1>1, WalkStandsOn
  <2> QED
    BY <1>2, <2>1 DEF GatesOf
<1>5. /\ LeftOfCurrent \in AllCorners /\ Face(LeftOfCurrent) \notin visitedFaces'
      /\ Gate(LeftOfCurrent) \subseteq visitedVertices'
  <2>1. \A c \in AllCorners : c # NoCorner
    BY <1>1, WalkStandsOn, ManifoldCorners DEF TableIsReady
  <2> QED
    BY <1>1, <1>2, <2>1, NeighboursOfCurrent
<1>6. visitedVertices' \subseteq VertexIDs
  BY <1>1, <1>2, WalkStandsOn
<1> QED
  BY <1>1, <1>2, <1>3, <1>4, <1>5, <1>6, WalkStandsOn, SymbolKeepsWalk

LEMMA WalkSymbolL ==
  ASSUME WalkInv, SymbolL
  PROVE  WalkInv'
<1>1. phase = "walk" /\ "L" \in TopologySymbols /\ "left" \in {"left", "right"} /\ ~ RightVisited
  BY DEF SymbolL, ReachCorner, TopologySymbols
<1>2. /\ ReachCorner("L") /\ visitedVertices' = visitedVertices \cup {TipVertex}
      /\ current' = RightOfCurrent
      /\ splitEvents' = splitEvents \o SplitEventAt(LeftOfCurrent, "left")
      /\ UNCHANGED <<phase, visitedHoles, cornerTraversalStack, faceToSplitSymbol,
                     numSplitSymbols>>
      /\ visitedFaces' = visitedFaces \cup {Face(current)}
  BY DEF SymbolL, ReachCorner
<1>3. EventsUpTo(splitEvents', lastEncodedSymbolID + 1)
  BY <1>1, <1>2, WalkStandsOn, NeighboursOfCurrent, SplitEventAdded
<1>4. GatesOf(cornerTraversalStack', visitedVertices')
  <2>1. GatesOf(cornerTraversalStack, visitedVertices)
    BY <1>1, WalkStandsOn
  <2> QED
    BY <1>2, <2>1 DEF GatesOf
<1>5. /\ RightOfCurrent \in AllCorners /\ Face(RightOfCurrent) \notin visitedFaces'
      /\ Gate(RightOfCurrent) \subseteq visitedVertices'
  <2>1. \A c \in AllCorners : c # NoCorner
    BY <1>1, WalkStandsOn, ManifoldCorners DEF TableIsReady
  <2> QED
    BY <1>1, <1>2, <2>1, NeighboursOfCurrent
<1>6. visitedVertices' \subseteq VertexIDs
  BY <1>1, <1>2, WalkStandsOn
<1> QED
  BY <1>1, <1>2, <1>3, <1>4, <1>5, <1>6, WalkStandsOn, SymbolKeepsWalk

LEMMA WalkSymbolE ==
  ASSUME WalkInv, SymbolE
  PROVE  WalkInv'
<1> DEFINE events == splitEvents \o SplitEventAt(RightOfCurrent, "right")
<1>1. /\ phase = "walk" /\ "E" \in TopologySymbols
      /\ "right" \in {"left", "right"} /\ "left" \in {"left", "right"}
  BY DEF SymbolE, ReachCorner, TopologySymbols
<1>2. /\ ReachCorner("E") /\ visitedVertices' = visitedVertices \cup {TipVertex}
      /\ current' = current /\ phase' = "branch"
      /\ splitEvents' = events \o SplitEventAt(LeftOfCurrent, "left")
      /\ cornerTraversalStack' = Front(cornerTraversalStack)
      /\ UNCHANGED <<visitedHoles, faceToSplitSymbol, numSplitSymbols>>
  BY DEF SymbolE
<1>3. EventsUpTo(events, lastEncodedSymbolID + 1)
  BY <1>1, WalkStandsOn, NeighboursOfCurrent, SplitEventAdded
<1> HIDE DEF events
<1>4. EventsUpTo(splitEvents', lastEncodedSymbolID + 1)
  BY <1>1, <1>2, <1>3, WalkStandsOn, NeighboursOfCurrent, SplitEventAdded
<1>5. /\ cornerTraversalStack' \in Seq(AllCorners \cup {NoCorner})
      /\ GatesOf(cornerTraversalStack', visitedVertices')
  <2>1. /\ Front(cornerTraversalStack) \in Seq(AllCorners \cup {NoCorner})
        /\ GatesOf(Front(cornerTraversalStack), visitedVertices)
    BY <1>1, WalkStandsOn, GatesOfFront
  <2> QED
    BY <1>2, <2>1 DEF GatesOf
<1>6. visitedVertices' \subseteq VertexIDs
  BY <1>1, <1>2, WalkStandsOn
<1> QED
  BY <1>1, <1>2, <1>4, <1>5, <1>6, WalkStandsOn, SymbolKeepsWalk

LEMMA WalkSymbolS ==
  ASSUME WalkInv, SymbolS
  PROVE  WalkInv'
<1> DEFINE rest == Front(cornerTraversalStack)
<1>1. phase = "walk" /\ "S" \in TopologySymbols
  BY DEF SymbolS, ReachCorner, TopologySymbols
<1>2. /\ ReachCorner("S") /\ current' = current /\ phase' = "branch"
      /\ numSplitSymbols' = numSplitSymbols + 1
      /\ faceToSplitSymbol' =
           [faceToSplitSymbol EXCEPT ![Face(current)] = lastEncodedSymbolID + 1]
      /\ cornerTraversalStack' = rest \o <<LeftOfCurrent, RightOfCurrent>>
      /\ splitEvents' = splitEvents
  BY DEF SymbolS
<1>3. /\ visitedVertices \cup {TipVertex} \subseteq visitedVertices'
      /\ visitedVertices' \subseteq VertexIDs
      /\ visitedHoles' \subseteq 0 .. numHoles - 1
  <2>1. CASE TipOnBoundary /\ vertexHoleID[TipVertex] \notin visitedHoles
    <3>1. /\ visitedVertices' = visitedVertices \cup {TipVertex} \cup HoleVertices(current)
          /\ visitedHoles' = visitedHoles \cup HoleOf(current)
      BY <2>1 DEF SymbolS
    <3>2. HoleVertices(current) \subseteq VertexIDs
      BY <1>1, <2>1, WalkStandsOn, HoleIsWalked DEF TipOnBoundary, TipVertex
    <3>3. HoleOf(current) \subseteq 0 .. numHoles - 1
      <4>1. vertexHoleID[cornerVertex[current]] \in -1 .. numHoles - 1 /\ numHoles \in Nat
        BY <1>1, WalkStandsOn DEF TableIsReady, TipVertex
      <4> QED
        BY <4>1 DEF HoleOf
    <3> QED
      BY <1>1, <3>1, <3>2, <3>3, WalkStandsOn
  <2>2. CASE ~ (TipOnBoundary /\ vertexHoleID[TipVertex] \notin visitedHoles)
    <3>1. visitedVertices' = visitedVertices \cup {TipVertex} /\ visitedHoles' = visitedHoles
      BY <2>2 DEF SymbolS
    <3> QED
      BY <1>1, <3>1, WalkStandsOn
  <2> QED
    BY <2>1, <2>2
<1>4. rest \in Seq(AllCorners \cup {NoCorner}) /\ GatesOf(rest, visitedVertices)
  BY <1>1, WalkStandsOn, GatesOfFront
<1> HIDE DEF rest
<1>5. GatesOf(rest, visitedVertices')
  BY <1>3, <1>4 DEF GatesOf
<1>6. /\ cornerTraversalStack' \in Seq(AllCorners \cup {NoCorner})
      /\ GatesOf(cornerTraversalStack', visitedVertices')
  <2>1. /\ LeftOfCurrent \in AllCorners \cup {NoCorner}
        /\ RightOfCurrent \in AllCorners \cup {NoCorner}
        /\ LeftOfCurrent # NoCorner => Gate(LeftOfCurrent) \subseteq visitedVertices'
        /\ RightOfCurrent # NoCorner => Gate(RightOfCurrent) \subseteq visitedVertices'
    BY <1>1, <1>3, NeighboursOfCurrent
  <2> QED
    BY <1>2, <1>4, <1>5, <2>1, GatesOfMore
<1>7. faceToSplitSymbol' \in [AllFaces -> -1 .. lastEncodedSymbolID + 1]
  <2>1. /\ faceToSplitSymbol \in [AllFaces -> -1 .. lastEncodedSymbolID + 1]
        /\ lastEncodedSymbolID + 1 \in Nat
    BY <1>1, WalkStandsOn
  <2>2. lastEncodedSymbolID + 1 \in -1 .. lastEncodedSymbolID + 1
    BY <2>1
  <2> QED
    BY <1>2, <2>1, <2>2
<1>8. EventsUpTo(splitEvents', lastEncodedSymbolID + 1) /\ numSplitSymbols' \in Nat
  BY <1>1, <1>2, WalkStandsOn
<1>9. current' \in AllCorners \cup {NoCorner} /\ phase' # "walk" /\ phase' \in {"branch", "walk"}
  BY <1>1, <1>2, WalkStandsOn
<1> QED
  BY <1>1, <1>2, <1>3, <1>6, <1>7, <1>8, <1>9, SymbolKeepsWalk

-----------------------------------------------------------------------------
(* The steps between two symbols: seeds and branches.                      *)

Between == {"ready", "branch"}

LEMMA WalkGoesOn ==
  ASSUME WalkInv, phase \in Between, phase' \in {"ready", "branch", "walk"},
         UNCHANGED <<mesh, opposite, cornerVertex, vertexHoleID, numHoles>>,
         UNCHANGED <<lastEncodedSymbolID, faceToSplitSymbol, processedCorners, symbols,
                     splitEvents, numSplitSymbols, numEncodedVertices, numEncodedFaces>>,
         visitedFaces' \subseteq AllFaces,
         visitedVertices' \subseteq VertexIDs,
         visitedHoles' \subseteq 0 .. numHoles - 1,
         startFaces' \in Seq(BOOLEAN),
         initFaceCorners' \in Seq(AllCorners),
         OncePerFace(initFaceCorners'),
         FacesOf(processedCorners) \cap FacesOf(initFaceCorners') = {},
         FacesOf(processedCorners) \cup FacesOf(initFaceCorners') = visitedFaces',
         \A c \in AllCorners : Face(c) \in visitedFaces' => cornerVertex[c] \in visitedVertices',
         cornerTraversalStack' \in Seq(AllCorners \cup {NoCorner}),
         GatesOf(cornerTraversalStack', visitedVertices'),
         current' \in AllCorners \cup {NoCorner},
         phase' = "walk" =>
           /\ current' \in AllCorners /\ Face(current') \notin visitedFaces'
           /\ Gate(current') \subseteq visitedVertices'
           /\ cornerTraversalStack' # <<>>
  PROVE  WalkInv'
<1>1. TableIsReady /\ TraversalTypes /\ FacesAreWalkedOnce /\ EventsFollowTheWalk
  BY DEF WalkInv, TableIsKept, Between
<1>2. /\ TableIsReady'
      /\ AllCorners' = AllCorners /\ AllFaces' = AllFaces /\ VertexIDs' = VertexIDs
      /\ \A c : Gate(c)' = Gate(c)
  BY <1>1, TableStaysReady
<1>3. TraversalTypes'
  <2>1. WireTypeOK'
    BY <1>1 DEF TraversalTypes, WireTypeOK
  <2>2. /\ lastEncodedSymbolID' \in Nat \cup {-1}
        /\ faceToSplitSymbol' \in [AllFaces -> -1 .. lastEncodedSymbolID']
        /\ processedCorners' \in Seq(AllCorners)
    BY <1>1 DEF TraversalTypes
  <2>3. phase' \in WalkPhases
    BY DEF WalkPhases
  <2> QED
    BY <1>1, <2>1, <2>2, <2>3, WalkKeepsTypes
<1>4. TableIsKept'
  BY <1>2 DEF TableIsKept, BasePhases
<1>5. NothingWalkedYet'
  BY DEF NothingWalkedYet, BasePhases
<1>6. EventsFollowTheWalk'
  BY <1>1 DEF EventsFollowTheWalk, EncodableSplitEvents
<1>7. FacesAreWalkedOnce'
  <2>1. OncePerFace(processedCorners) /\ NumSymbols = Len(processedCorners)
    BY <1>1 DEF FacesAreWalkedOnce, Between
  <2>2. NumSymbols' = Len(processedCorners') /\ phase' # "written"
    BY <2>1 DEF NumSymbols
  <2>3. /\ OncePerFace(processedCorners') /\ OncePerFace(initFaceCorners')
        /\ FacesOf(processedCorners') \cap FacesOf(initFaceCorners') = {}
        /\ FacesOf(processedCorners') \cup FacesOf(initFaceCorners') = visitedFaces'
    BY <2>1
  <2> QED
    BY <2>2, <2>3 DEF FacesAreWalkedOnce, OncePerFace, FacesOf
<1>8. VerticesOfVisitedFaces'
  BY <1>2 DEF VerticesOfVisitedFaces
<1>9. GatesAreVisited'
  <2>1. phase' = "walk" => CurrentFaceIsFresh' /\ Gate(current)' \subseteq visitedVertices'
    <3>1. Gate(current)' = {cornerVertex'[NextCorner(current')], cornerVertex'[PreviousCorner(current')]}
      BY DEF Gate
    <3>2. Gate(current') = {cornerVertex[NextCorner(current')], cornerVertex[PreviousCorner(current')]}
      BY DEF Gate
    <3> QED
      BY <1>2, <3>1, <3>2 DEF CurrentFaceIsFresh
  <2>2. GatesOf(cornerTraversalStack, visitedVertices)'
    BY DEF GatesOf, Gate
  <2> QED
    BY <2>1, <2>2 DEF GatesAreVisited, GatesOf
<1> QED
  BY <1>3, <1>4, <1>5, <1>6, <1>7, <1>8, <1>9 DEF WalkInv

(* What the walk knows between two symbols.                                *)
LEMMA WalkRests ==
  ASSUME WalkInv, phase \in Between
  PROVE  /\ TableIsReady /\ TableIsManifold /\ TraversalTypes
         /\ visitedFaces \subseteq AllFaces /\ visitedVertices \subseteq VertexIDs
         /\ visitedHoles \subseteq 0 .. numHoles - 1
         /\ startFaces \in Seq(BOOLEAN)
         /\ processedCorners \in Seq(AllCorners) /\ initFaceCorners \in Seq(AllCorners)
         /\ OncePerFace(processedCorners) /\ OncePerFace(initFaceCorners)
         /\ FacesOf(processedCorners) \cap FacesOf(initFaceCorners) = {}
         /\ FacesOf(processedCorners) \cup FacesOf(initFaceCorners) = visitedFaces
         /\ NumSymbols = Len(processedCorners)
         /\ \A c \in AllCorners : Face(c) \in visitedFaces => cornerVertex[c] \in visitedVertices
         /\ cornerTraversalStack \in Seq(AllCorners \cup {NoCorner})
         /\ GatesOf(cornerTraversalStack, visitedVertices)
         /\ current \in AllCorners \cup {NoCorner}
<1>1. TableIsReady /\ TraversalTypes /\ FacesAreWalkedOnce
  BY DEF WalkInv, TableIsKept, Between
<1>2. /\ \A c \in AllCorners : Face(c) \in visitedFaces => cornerVertex[c] \in visitedVertices
      /\ GatesOf(cornerTraversalStack, visitedVertices)
  BY DEF WalkInv, VerticesOfVisitedFaces, GatesAreVisited, Walking, Between, GatesOf
<1>3. /\ OncePerFace(processedCorners) /\ OncePerFace(initFaceCorners)
      /\ FacesOf(processedCorners) \cap FacesOf(initFaceCorners) = {}
      /\ FacesOf(processedCorners) \cup FacesOf(initFaceCorners) = visitedFaces
      /\ NumSymbols = Len(processedCorners)
  BY <1>1 DEF FacesAreWalkedOnce, Between
<1>4. startFaces \in Seq(BOOLEAN)
  BY <1>1 DEF TraversalTypes, WireTypeOK
<1> QED
  BY <1>1, <1>2, <1>3, <1>4 DEF TraversalTypes, TableIsReady

LEMMA WalkDropVisitedBranch ==
  ASSUME WalkInv, DropVisitedBranch
  PROVE  WalkInv'
<1>1. /\ phase = "branch" /\ phase \in Between /\ phase' = phase
      /\ cornerTraversalStack # <<>>
      /\ cornerTraversalStack' = Front(cornerTraversalStack)
      /\ UnchangedOutsideTraversal
      /\ UNCHANGED <<visitedFaces, visitedVertices, visitedHoles, current,
                     lastEncodedSymbolID, faceToSplitSymbol,
                     processedCorners, symbols, splitEvents, numSplitSymbols>>
  BY DEF DropVisitedBranch, Between
<1>2. UNCHANGED <<mesh, opposite, cornerVertex, vertexHoleID, numHoles, initFaceCorners,
                  startFaces, numEncodedVertices, numEncodedFaces>>
  BY <1>1 DEF UnchangedOutsideTraversal, tableVars
<1>3. /\ cornerTraversalStack' \in Seq(AllCorners \cup {NoCorner})
      /\ GatesOf(cornerTraversalStack', visitedVertices)
  BY <1>1, WalkRests, GatesOfFront
<1> QED
  BY <1>1, <1>2, <1>3, WalkRests, WalkGoesOn

LEMMA WalkEnterBranch ==
  ASSUME WalkInv, EnterBranch
  PROVE  WalkInv'
<1>1. /\ phase = "branch" /\ phase \in Between /\ phase' = "walk"
      /\ cornerTraversalStack # <<>>
      /\ ~ BranchIsOver
      /\ current' = Last(cornerTraversalStack)
      /\ UnchangedOutsideTraversal
      /\ UNCHANGED <<visitedFaces, visitedVertices, visitedHoles, cornerTraversalStack,
                     lastEncodedSymbolID, faceToSplitSymbol,
                     processedCorners, symbols, splitEvents, numSplitSymbols>>
  BY DEF EnterBranch, Between
<1>2. UNCHANGED <<mesh, opposite, cornerVertex, vertexHoleID, numHoles, initFaceCorners,
                  startFaces, numEncodedVertices, numEncodedFaces>>
  BY <1>1 DEF UnchangedOutsideTraversal, tableVars
<1>3. current' \in AllCorners /\ Face(current') \notin visitedFaces
  <2>1. current' \in AllCorners \cup {NoCorner}
    BY <1>1, WalkRests, FrontAndLast
  <2>2. ~ (current' < 0) /\ Face(current') \notin visitedFaces
    BY <1>1 DEF BranchIsOver, Gone
  <2> QED
    BY <2>1, <2>2 DEF NoCorner
<1>4. Gate(current') \subseteq visitedVertices
  <2>1. Len(cornerTraversalStack) \in DOMAIN cornerTraversalStack
    <3>1. cornerTraversalStack \in Seq(AllCorners \cup {NoCorner})
      BY <1>1, WalkRests
    <3>2. /\ Len(cornerTraversalStack) \in Nat \ {0}
          /\ DOMAIN cornerTraversalStack = 1 .. Len(cornerTraversalStack)
      BY <1>1, <3>1, LenProperties, EmptySeq
    <3> QED
      BY <3>2
  <2>2. current' = cornerTraversalStack[Len(cornerTraversalStack)] /\ current' # NoCorner
    BY <1>1, <1>3, WalkRests, ManifoldCorners DEF Last
  <2>3. GatesOf(cornerTraversalStack, visitedVertices)
    BY <1>1, WalkRests
  <2> QED
    BY <2>1, <2>2, <2>3 DEF GatesOf
<1> QED
  BY <1>1, <1>2, <1>3, <1>4, WalkRests, WalkGoesOn

LEMMA WalkComponentDone ==
  ASSUME WalkInv, ComponentDone
  PROVE  WalkInv'
<1>1. /\ phase = "branch" /\ phase \in Between /\ phase' = "ready"
      /\ UnchangedOutsideTraversal
      /\ UNCHANGED <<visitedFaces, visitedVertices, visitedHoles, current, cornerTraversalStack,
                     lastEncodedSymbolID, faceToSplitSymbol,
                     processedCorners, symbols, splitEvents, numSplitSymbols>>
  BY DEF ComponentDone, Between
<1>2. UNCHANGED <<mesh, opposite, cornerVertex, vertexHoleID, numHoles, initFaceCorners,
                  startFaces, numEncodedVertices, numEncodedFaces>>
  BY <1>1 DEF UnchangedOutsideTraversal, tableVars
<1> QED
  BY <1>1, <1>2, WalkRests, WalkGoesOn

(* A seed at the boundary visits the vertices of its hole, the ends of the *)
(* boundary edge it faces among them.                                      *)
LEMMA WalkSeedBoundaryFace ==
  ASSUME WalkInv, NEW f \in AllFaces, SeedBoundaryFace(f)
  PROVE  WalkInv'
<1> DEFINE start == StartCorner(f)
           hole == NextCorner(start)
<1>1. /\ phase = "ready" /\ phase \in Between /\ phase' = "branch"
      /\ ~ InteriorStart(f)
      /\ visitedVertices' = visitedVertices \cup {cornerVertex[hole]} \cup HoleVertices(hole)
      /\ visitedHoles' = visitedHoles \cup HoleOf(hole)
      /\ cornerTraversalStack' = <<start>>
      /\ startFaces' = Append(startFaces, FALSE)
      /\ UNCHANGED <<mesh, opposite, cornerVertex, vertexHoleID, numHoles,
                     visitedFaces, current, initFaceCorners>>
      /\ UNCHANGED <<lastEncodedSymbolID, faceToSplitSymbol, processedCorners, symbols,
                     splitEvents, numSplitSymbols, numEncodedVertices, numEncodedFaces>>
  BY DEF SeedBoundaryFace, EncodeConnectivityFrom, Between, tableVars
<1>2. /\ start \in AllCorners /\ hole \in AllCorners
      /\ HoleVertices(hole) \subseteq VertexIDs /\ cornerVertex[hole] \in VertexIDs
      /\ Gate(start) \subseteq {cornerVertex[hole]} \cup HoleVertices(hole)
      /\ HoleOf(hole) \subseteq 0 .. numHoles - 1
  BY <1>1, WalkRests, BoundaryStartVisits
<1> HIDE DEF start, hole
<1>3. /\ visitedVertices \subseteq visitedVertices' /\ visitedVertices' \subseteq VertexIDs
      /\ visitedHoles' \subseteq 0 .. numHoles - 1
      /\ Gate(start) \subseteq visitedVertices'
  BY <1>1, <1>2, WalkRests
<1>4. /\ cornerTraversalStack' \in Seq(AllCorners \cup {NoCorner})
      /\ GatesOf(cornerTraversalStack', visitedVertices')
  BY <1>1, <1>2, <1>3 DEF GatesOf
<1>5. startFaces' \in Seq(BOOLEAN)
  <2>1. startFaces \in Seq(BOOLEAN)
    BY <1>1, WalkRests
  <2> QED
    BY <1>1, <2>1
<1>6. \A c \in AllCorners : Face(c) \in visitedFaces' => cornerVertex[c] \in visitedVertices'
  BY <1>1, <1>3, WalkRests
<1> QED
  BY <1>1, <1>3, <1>4, <1>5, <1>6, WalkRests, WalkGoesOn

(* A seed inside visits its face, and the walk starts across an edge of    *)
(* it.                                                                     *)
LEMMA WalkSeedInteriorFace ==
  ASSUME WalkInv, NEW f \in AllFaces, SeedInteriorFace(f)
  PROVE  WalkInv'
<1> DEFINE start == 3 * f
           next == NextCorner(start)
           opp == opposite[next]
<1>1. /\ phase = "ready" /\ phase \in Between /\ f \notin visitedFaces
      /\ StartCorner(f) = start
      /\ visitedVertices' = visitedVertices \cup {cornerVertex[c] : c \in FaceCorners(f)}
      /\ visitedFaces' = visitedFaces \cup {f}
      /\ initFaceCorners' = Append(initFaceCorners, next)
      /\ IF opp >= 0 /\ Face(opp) \notin visitedFaces'
         THEN cornerTraversalStack' = <<opp>> /\ phase' = "branch"
         ELSE UNCHANGED <<cornerTraversalStack, phase>>
      /\ startFaces' = Append(startFaces, TRUE)
      /\ UNCHANGED <<mesh, opposite, cornerVertex, vertexHoleID, numHoles,
                     current, visitedHoles>>
      /\ UNCHANGED <<lastEncodedSymbolID, faceToSplitSymbol, processedCorners, symbols,
                     splitEvents, numSplitSymbols, numEncodedVertices, numEncodedFaces>>
  BY DEF SeedInteriorFace, EncodeConnectivityFrom, Between, tableVars, StartCorner, IsNextSeed
<1>2. /\ FaceCorners(f) \subseteq AllCorners
      /\ \A c \in AllCorners : Face(c) = f <=> c \in FaceCorners(f)
      /\ start \in FaceCorners(f)
  BY <1>1, WalkRests, CornersOfAFace
<1> HIDE DEF start
<1>3. /\ start \in AllCorners /\ next \in AllCorners /\ Face(start) = f /\ Face(next) = f
      /\ PreviousCorner(start) \in AllCorners /\ Face(PreviousCorner(start)) = f
      /\ opp \in AllCorners \cup {NoCorner}
      /\ RightCorner(opposite, start) = opp
  <2>1. start \in AllCorners /\ Face(start) = f
    BY <1>2
  <2>2. TableIsManifold
    BY <1>1, WalkRests
  <2>3. /\ next \in AllCorners /\ Face(next) = f
        /\ PreviousCorner(start) \in AllCorners /\ Face(PreviousCorner(start)) = f
        /\ RightCorner(opposite, start) = opp
    BY <2>1, <2>2, ManifoldCorners
  <2> QED
    BY <2>1, <2>2, <2>3, ManifoldCorners
<1> HIDE DEF next, opp
<1>4. \A c \in AllCorners : Face(c) = f => cornerVertex[c] \in visitedVertices'
  BY <1>1, <1>2
<1>5. visitedVertices \subseteq visitedVertices' /\ visitedVertices' \subseteq VertexIDs
  <2>1. \A c \in FaceCorners(f) : cornerVertex[c] \in VertexIDs
    BY <1>1, <1>2, WalkRests, ManifoldCorners
  <2> QED
    BY <1>1, <2>1, WalkRests
<1>6. \A c \in AllCorners : Face(c) \in visitedFaces' => cornerVertex[c] \in visitedVertices'
  BY <1>1, <1>4, <1>5, WalkRests
<1>7. /\ cornerTraversalStack' \in Seq(AllCorners \cup {NoCorner})
      /\ GatesOf(cornerTraversalStack', visitedVertices')
      /\ phase' \in Between
  <2>1. CASE opp >= 0 /\ Face(opp) \notin visitedFaces'
    <3>1. opp # NoCorner
      BY <2>1 DEF NoCorner
    <3>2. Gate(opp) = {cornerVertex[start], cornerVertex[PreviousCorner(start)]}
      BY <1>1, <1>3, <3>1, WalkRests, RightGate
    <3>3. Gate(opp) \subseteq visitedVertices'
      BY <1>3, <1>4, <3>2
    <3>4. cornerTraversalStack' = <<opp>> /\ phase' = "branch"
      BY <1>1, <2>1
    <3> QED
      BY <1>3, <3>3, <3>4 DEF GatesOf, Between
  <2>2. CASE ~ (opp >= 0 /\ Face(opp) \notin visitedFaces')
    <3>1. cornerTraversalStack' = cornerTraversalStack /\ phase' = phase
      BY <1>1, <2>2
    <3>2. GatesOf(cornerTraversalStack, visitedVertices)
      BY <1>1, WalkRests
    <3>3. GatesOf(cornerTraversalStack', visitedVertices')
      BY <1>5, <3>1, <3>2 DEF GatesOf
    <3> QED
      BY <1>1, <3>1, <3>3, WalkRests
  <2> QED
    BY <2>1, <2>2
<1>8. startFaces' \in Seq(BOOLEAN)
  <2>1. startFaces \in Seq(BOOLEAN)
    BY <1>1, WalkRests
  <2> QED
    BY <1>1, <2>1
<1>9. /\ initFaceCorners' \in Seq(AllCorners) /\ OncePerFace(initFaceCorners')
      /\ FacesOf(initFaceCorners') = FacesOf(initFaceCorners) \cup {f}
  <2>1. /\ initFaceCorners \in Seq(AllCorners) /\ OncePerFace(initFaceCorners)
        /\ f \notin FacesOf(initFaceCorners)
    BY <1>1, WalkRests
  <2> QED
    BY <1>1, <1>3, <2>1, OneFaceMore
<1>10. /\ FacesOf(processedCorners) \cap FacesOf(initFaceCorners') = {}
       /\ FacesOf(processedCorners) \cup FacesOf(initFaceCorners') = visitedFaces'
       /\ visitedFaces' \subseteq AllFaces
  BY <1>1, <1>9, WalkRests
<1>11. /\ phase' # "walk" /\ phase' \in {"ready", "branch", "walk"}
       /\ current' \in AllCorners \cup {NoCorner}
       /\ visitedHoles' \subseteq 0 .. numHoles - 1
  BY <1>1, <1>7, WalkRests DEF Between
<1> QED
  BY <1>1, <1>5, <1>6, <1>7, <1>8, <1>9, <1>10, <1>11, WalkRests, WalkGoesOn

(* The stream is written: the split events are encodable, the order names  *)
(* every face once, and there is no more than one symbol per face.         *)
LEMMA WalkWriteStream ==
  ASSUME WalkInv, WriteStream
  PROVE  WalkInv'
<1> DEFINE used == {v \in VertexIDs : vertexCorners[v] >= 0}
           back == Reverse(processedCorners)
           order == back \o initFaceCorners
<1>1. /\ phase = "ready" /\ phase \in Between
      /\ visitedFaces = AllFaces
      /\ processedCorners' = order
      /\ numEncodedVertices' = Cardinality(used)
      /\ numEncodedFaces' = mesh.numFaces
      /\ phase' = IF EncodableSplitEvents(splitEvents) THEN "written" ELSE "rejected"
      /\ UNCHANGED <<mesh, opposite, cornerVertex, vertexHoleID, numHoles>>
      /\ UNCHANGED <<visitedFaces, visitedVertices, visitedHoles, current,
                     cornerTraversalStack, lastEncodedSymbolID, faceToSplitSymbol,
                     initFaceCorners, symbols, startFaces, splitEvents, numSplitSymbols>>
  BY DEF WriteStream, Between, tableVars
<1>2. EncodableSplitEvents(splitEvents) /\ phase' = "written"
  BY <1>1 DEF WalkInv, EventsFollowTheWalk
<1>3. mesh.numFaces \in Nat
  BY <1>1, WalkRests DEF TraversalTypes
<1>4. Cardinality(used) \in Nat
  <2>1. IsFiniteSet(VertexIDs)
    <3>1. MaxVertices \in Int
      BY <1>1, WalkRests DEF TraversalTypes, MaxVertices
    <3> QED
      BY <3>1, FS_Interval DEF VertexIDs
  <2>2. IsFiniteSet(used)
    BY <2>1, FS_Subset
  <2> QED
    BY <2>2, FS_CardinalityType
<1> HIDE DEF used
<1>5. /\ back \in Seq(AllCorners) /\ FacesOf(back) = FacesOf(processedCorners) /\ OncePerFace(back)
  BY <1>1, WalkRests, FacesReversed
<1> HIDE DEF back
<1>6. /\ order \in Seq(AllCorners) /\ OncePerFace(order) /\ FacesOf(order) = visitedFaces
  BY <1>1, <1>5, WalkRests, FacesOfBoth
<1> HIDE DEF order
<1>7. NumSymbols <= mesh.numFaces
  BY <1>1, <1>3, WalkRests, NoMoreThanAllFaces
<1>8. /\ TableIsReady'
      /\ AllCorners' = AllCorners /\ AllFaces' = AllFaces /\ VertexIDs' = VertexIDs
  BY <1>1, WalkRests, TableStaysReady
<1>9. TraversalTypes'
  <2>1. TraversalTypes
    BY <1>1, WalkRests
  <2>2. WireTypeOK'
    BY <1>1, <1>3, <1>4, <2>1 DEF TraversalTypes, WireTypeOK
  <2>3. phase' \in WalkPhases
    BY <1>2 DEF WalkPhases
  <2>4. /\ lastEncodedSymbolID' \in Nat \cup {-1}
        /\ faceToSplitSymbol' \in [AllFaces -> -1 .. lastEncodedSymbolID']
        /\ visitedFaces' \subseteq AllFaces /\ visitedVertices' \subseteq VertexIDs
        /\ visitedHoles' \subseteq 0 .. numHoles - 1
        /\ current' \in AllCorners \cup {NoCorner}
        /\ cornerTraversalStack' \in Seq(AllCorners \cup {NoCorner})
        /\ initFaceCorners' \in Seq(AllCorners)
    BY <1>1, <2>1 DEF TraversalTypes
  <2> QED
    BY <1>1, <1>6, <2>1, <2>2, <2>3, <2>4, WalkKeepsTypes
<1>10. TableIsKept' /\ NothingWalkedYet'
  BY <1>2, <1>8 DEF TableIsKept, NothingWalkedYet, BasePhases
<1>11. EventsFollowTheWalk'
  BY <1>1 DEF WalkInv, EventsFollowTheWalk, EncodableSplitEvents
<1>12. FacesAreWalkedOnce'
  BY <1>1, <1>2, <1>6, <1>7 DEF FacesAreWalkedOnce, OncePerFace, FacesOf, NumSymbols
<1>13. VerticesOfVisitedFaces' /\ GatesAreVisited'
  BY <1>2 DEF VerticesOfVisitedFaces, GatesAreVisited, Walking
<1> QED
  BY <1>9, <1>10, <1>11, <1>12, <1>13 DEF WalkInv

-----------------------------------------------------------------------------
(* The invariant from the start of the base table to the written stream.   *)

LEMMA InitEstablishesWalkInv == EncoderInit => WalkInv
<1> SUFFICES ASSUME EncoderInit PROVE WalkInv
  OBVIOUS
<1>1. HoleInv /\ phase = "faces"
  BY InitEstablishesHoleInv DEF EncoderInit, BaseInit
<1>2. mesh.numFaces \in Nat /\ mesh.numVertices \in Nat
  BY MeshesAssumption DEF EncoderInit, BaseInit, IsMesh
<1>3. /\ visitedFaces = {} /\ visitedVertices = {} /\ visitedHoles = {}
      /\ current = NoCorner /\ cornerTraversalStack = <<>> /\ lastEncodedSymbolID = -1
      /\ faceToSplitSymbol = [f \in AllFaces |-> -1]
      /\ processedCorners = <<>> /\ initFaceCorners = <<>>
  BY DEF EncoderInit, TraversalInit
<1>4. /\ symbols = <<>> /\ startFaces = <<>> /\ splitEvents = <<>>
      /\ numSplitSymbols = 0 /\ numEncodedVertices = 0 /\ numEncodedFaces = 0
  BY DEF EncoderInit, WireInit
<1>5. TableIsKept
  BY <1>1 DEF TableIsKept, BasePhases
<1>6. NothingWalkedYet
  BY <1>3 DEF NothingWalkedYet
<1>7. TraversalTypes
  <2>1. WireTypeOK
    BY <1>4 DEF WireTypeOK
  <2>2. faceToSplitSymbol \in [AllFaces -> -1 .. lastEncodedSymbolID]
    BY <1>3
  <2> QED
    BY <1>1, <1>2, <1>3, <2>1, <2>2 DEF TraversalTypes, Phases
<1>8. EventsFollowTheWalk
  BY <1>4 DEF EventsFollowTheWalk, EncodableSplitEvents
<1>9. FacesAreWalkedOnce
  BY <1>1, <1>3, <1>4 DEF FacesAreWalkedOnce, OncePerFace, FacesOf, NumSymbols
<1>10. VerticesOfVisitedFaces /\ GatesAreVisited
  BY <1>1 DEF VerticesOfVisitedFaces, GatesAreVisited, Walking
<1> QED
  BY <1>5, <1>6, <1>7, <1>8, <1>9, <1>10 DEF WalkInv

LEMMA HolesMakeATableNext == (HoleInv /\ phase = "ready")' => TableIsReady'
<1>1. HoleInv /\ phase = "ready" => TableIsReady
  BY HolesMakeATable
<1> QED
  BY <1>1, PTL

(* While the table is made, nothing is walked.                             *)
LEMMA WalkWaitsForTheTable ==
  ASSUME WalkInv, BaseNext, UNCHANGED <<traversalVars, wireVars>>
  PROVE  WalkInv'
<1>1. phase \in BasePhases /\ mesh' = mesh
  BY DEF BaseNext, LoadFaces, MatchHalfEdge, OpenHalfEdge, OppositesDone, VisitFan,
         OutOfVertices, SkipVisitedCorner, VerticesDone, NumberHole, SkipHoleCorner, HolesDone,
         UnchangedByMatching, BasePhases
<1>2. HoleInv
  BY <1>1 DEF WalkInv, TableIsKept
<1>3. HoleInv'
  BY <1>2, NextKeepsHoleInv
<1>4. phase' \in BasePhases \cup {"ready", "rejected"}
  BY <1>3 DEF HoleInv, FanInv, MatchingInv, BaseTypeOK, Phases, BasePhases
<1>5. /\ visitedFaces = {} /\ visitedVertices = {} /\ visitedHoles = {}
      /\ processedCorners = <<>> /\ initFaceCorners = <<>> /\ cornerTraversalStack = <<>>
  BY <1>1 DEF WalkInv, NothingWalkedYet
<1>6. UNCHANGED <<visitedFaces, visitedVertices, visitedHoles, current, cornerTraversalStack,
                  lastEncodedSymbolID, faceToSplitSymbol, processedCorners, initFaceCorners,
                  symbols, startFaces, splitEvents, numSplitSymbols,
                  numEncodedVertices, numEncodedFaces>>
  BY DEF traversalVars, wireVars
<1>7. TableIsKept'
  <2>1. phase' = "ready" => TableIsReady'
    BY <1>3, HolesMakeATableNext
  <2> QED
    BY <1>3, <1>4, <2>1 DEF TableIsKept, BasePhases
<1>8. NothingWalkedYet'
  BY <1>5, <1>6 DEF NothingWalkedYet
<1>9. TraversalTypes'
  <2>1. AllCorners' = AllCorners /\ AllFaces' = AllFaces /\ VertexIDs' = VertexIDs
    BY <1>1 DEF AllCorners, AllFaces, VertexIDs, MaxVertices
  <2>2. TraversalTypes
    BY DEF WalkInv
  <2>3. WireTypeOK'
    BY <1>6, <2>2 DEF TraversalTypes, WireTypeOK
  <2>4. visitedHoles' \subseteq 0 .. numHoles' - 1
    BY <1>5, <1>6
  <2>5. phase' \in Phases \cup {"branch", "walk", "written"}
    BY <1>4 DEF BasePhases, Phases
  <2> QED
    BY <1>1, <1>6, <2>1, <2>2, <2>3, <2>4, <2>5 DEF TraversalTypes
<1>10. EventsFollowTheWalk'
  BY <1>6 DEF WalkInv, EventsFollowTheWalk, EncodableSplitEvents
<1>11. FacesAreWalkedOnce'
  <2>1. phase # "written" /\ phase' # "written"
    BY <1>1, <1>4 DEF BasePhases
  <2> QED
    BY <1>6, <2>1 DEF WalkInv, FacesAreWalkedOnce, OncePerFace, FacesOf, NumSymbols
<1>12. VerticesOfVisitedFaces' /\ GatesAreVisited'
  BY <1>4, <1>5, <1>6 DEF VerticesOfVisitedFaces, GatesAreVisited, BasePhases
<1> QED
  BY <1>7, <1>8, <1>9, <1>10, <1>11, <1>12 DEF WalkInv

LEMMA EncoderNextKeepsWalkInv ==
  ASSUME WalkInv, EncoderNext
  PROVE  WalkInv' /\ phase # "written"
<1>1. CASE BaseNext /\ UNCHANGED <<traversalVars, wireVars>>
  <2>1. phase # "written"
    BY <1>1 DEF BaseNext, LoadFaces, MatchHalfEdge, OpenHalfEdge, OppositesDone, VisitFan,
           OutOfVertices, SkipVisitedCorner, VerticesDone, NumberHole, SkipHoleCorner, HolesDone
  <2> QED
    BY <1>1, <2>1, WalkWaitsForTheTable
<1>2. CASE TraversalNext
  <2>1. ASSUME NEW f \in AllFaces, SeedInteriorFace(f)
        PROVE  WalkInv' /\ phase # "written"
    BY <2>1, WalkSeedInteriorFace DEF SeedInteriorFace
  <2>2. ASSUME NEW f \in AllFaces, SeedBoundaryFace(f)
        PROVE  WalkInv' /\ phase # "written"
    BY <2>2, WalkSeedBoundaryFace DEF SeedBoundaryFace
  <2>3. CASE DropVisitedBranch
    BY <2>3, WalkDropVisitedBranch DEF DropVisitedBranch
  <2>4. CASE EnterBranch
    BY <2>4, WalkEnterBranch DEF EnterBranch
  <2>5. CASE ComponentDone
    BY <2>5, WalkComponentDone DEF ComponentDone
  <2>6. CASE SymbolC
    BY <2>6, WalkSymbolC DEF SymbolC, ReachCorner
  <2>7. CASE SymbolR
    BY <2>7, WalkSymbolR DEF SymbolR, ReachCorner
  <2>8. CASE SymbolL
    BY <2>8, WalkSymbolL DEF SymbolL, ReachCorner
  <2>9. CASE SymbolE
    BY <2>9, WalkSymbolE DEF SymbolE, ReachCorner
  <2>10. CASE SymbolS
    BY <2>10, WalkSymbolS DEF SymbolS, ReachCorner
  <2>11. CASE WriteStream
    BY <2>11, WalkWriteStream DEF WriteStream
  <2> QED
    BY <1>2, <2>1, <2>2, <2>3, <2>4, <2>5, <2>6, <2>7, <2>8, <2>9, <2>10, <2>11
       DEF TraversalNext
<1> QED
  BY <1>1, <1>2 DEF EncoderNext

LEMMA WalkInvStays ==
  ASSUME WalkInv, UNCHANGED encoderVars
  PROVE  WalkInv'
<1>1. UNCHANGED baseVars /\ UNCHANGED traversalVars /\ UNCHANGED wireVars
  BY DEF encoderVars
<1>2. UNCHANGED <<mesh, phase, opposite, cornerVertex, vertexHoleID, numHoles>>
  BY <1>1 DEF baseVars, tableVars
<1>3. UNCHANGED <<visitedFaces, visitedVertices, visitedHoles, current, cornerTraversalStack,
                  lastEncodedSymbolID, faceToSplitSymbol, processedCorners, initFaceCorners,
                  symbols, startFaces, splitEvents, numSplitSymbols,
                  numEncodedVertices, numEncodedFaces>>
  BY <1>1 DEF traversalVars, wireVars
<1>4. AllCorners' = AllCorners /\ AllFaces' = AllFaces /\ VertexIDs' = VertexIDs
  BY <1>2 DEF AllCorners, AllFaces, VertexIDs, MaxVertices
<1>5. TableIsKept'
  <2>1. HoleInv => HoleInv'
    BY <1>1, NextKeepsHoleInv
  <2>2. TableIsReady => TableIsReady'
    BY <1>2, TableStaysReady
  <2> QED
    BY <1>2, <2>1, <2>2 DEF WalkInv, TableIsKept
<1>6. NothingWalkedYet'
  BY <1>2, <1>3 DEF WalkInv, NothingWalkedYet
<1>7. TraversalTypes'
  BY <1>2, <1>3, <1>4 DEF WalkInv, TraversalTypes, WireTypeOK
<1>8. EventsFollowTheWalk'
  BY <1>3 DEF WalkInv, EventsFollowTheWalk, EncodableSplitEvents
<1>9. FacesAreWalkedOnce'
  BY <1>2, <1>3 DEF WalkInv, FacesAreWalkedOnce, OncePerFace, FacesOf, NumSymbols
<1>10. VerticesOfVisitedFaces'
  BY <1>2, <1>3, <1>4 DEF WalkInv, VerticesOfVisitedFaces, Walking
<1>11. GatesAreVisited'
  BY <1>2, <1>3, <1>4 DEF WalkInv, GatesAreVisited, Walking, CurrentFaceIsFresh, Gate
<1> QED
  BY <1>5, <1>6, <1>7, <1>8, <1>9, <1>10, <1>11 DEF WalkInv

-----------------------------------------------------------------------------
(* The reader of the written stream.                                       *)

LEMMA NothingReadGivesInvNext == (WireTypeOK /\ DecoderInit)' => ReaderInv'
BY NothingReadGivesInv, PTL

(* The encoder's steps end with a stream of which nothing is read yet.     *)
LEMMA EncodeKeepsReader ==
  ASSUME RoundTripInv, Encode
  PROVE  ReadsWhatIsWritten'
<1>1. WalkInv' /\ phase # "written"
  BY EncoderNextKeepsWalkInv DEF RoundTripInv, Encode
<1>2. DecoderInit /\ UNCHANGED decoderVars
  BY <1>1 DEF RoundTripInv, ReadsWhatIsWritten, Encode
<1>3. DecoderInit'
  BY <1>2 DEF DecoderInit, decoderVars, decodedTable
<1>4. WireTypeOK'
  BY <1>1 DEF WalkInv, TraversalTypes
<1>5. ReaderInv'
  BY <1>3, <1>4, NothingReadGivesInvNext
<1>6. HeldCornersAreDecoded'
  <2>1. activeCorners' = <<>> /\ DOMAIN dVertexCorners' = {}
    BY <1>3 DEF DecoderInit
  <2> QED
    BY <2>1 DEF HeldCornersAreDecoded, DecodedVertexIDs
<1> QED
  BY <1>3, <1>5, <1>6 DEF ReadsWhatIsWritten

(* The stack of parts: what a symbol leaves is in a decoded face, and the  *)
(* steps after the symbols only take from it.                              *)
LEMMA DecodeKeepsHeldCorners ==
  ASSUME RoundTripInv, phase = "written", DecoderNext, UNCHANGED encoderVars, ReaderInv'
  PROVE  HeldCornersAreDecoded'
<1> DEFINE K == 3 * NumSymbols - 1
<1>1. /\ WireTypeOK /\ HeldCornersAreDecoded
      /\ NumSymbols \in Nat /\ numEncodedFaces \in Nat /\ NumSymbols <= numEncodedFaces
  <2>1. WireTypeOK
    BY DEF RoundTripInv, WalkInv, TraversalTypes
  <2>2. HeldCornersAreDecoded
    BY DEF RoundTripInv, ReadsWhatIsWritten
  <2>3. NumSymbols <= numEncodedFaces
    BY DEF RoundTripInv, WalkInv, FacesAreWalkedOnce
  <2> QED
    BY <2>1, <2>2, <2>3, LenProperties DEF WireTypeOK, NumSymbols
<1>2. NumSymbols' = NumSymbols /\ numEncodedFaces' = numEncodedFaces
  BY DEF encoderVars, wireVars, NumSymbols
<1>3. /\ activeCorners \in Seq(0 .. K)
      /\ activeCorners # <<>> => DecodedCorners = Corners(numEncodedFaces)
      /\ \A v \in DecodedVertexIDs : dVertexCorners[v] \in DecodedCorners \cup {NoCorner}
  BY <1>1 DEF HeldCornersAreDecoded
<1>4. \A n \in 0 .. NumSymbols : 0 .. 3 * n - 1 \subseteq 0 .. K
                                 /\ 0 .. 3 * n - 1 \subseteq Corners(numEncodedFaces)
  BY <1>1 DEF Corners
<1> HIDE DEF K
<1>5. symbolID' \in 0 .. NumSymbols
  BY <1>2 DEF ReaderInv, ReaderTypeOK
<1>6. CASE decoderPhase' \in {"idle", "failed"}
  <2>1. UNCHANGED <<activeCorners, dOpposite, dVertexCorners>>
    <3>1. CASE StartDecoding
      BY <1>6, <3>1 DEF StartDecoding, decodedTable
    <3>2. CASE Fail
      BY <3>2 DEF Fail, decodedTable
    <3>3. ~ StartDecoding => Fail
      BY <1>6 DEF DecoderNext, DecodeC, DecodeR, DecodeL, DecodeSide, DecodeS, DecodeE, ReadingSymbol,
         SymbolsDone, DecodeBoundaryStart, DecodeInteriorStart, TruncatedStartFaces,
         FinishConnectivity, UpdateHoleCorners
    <3> QED
      BY <3>1, <3>2, <3>3
  <2> QED
    BY <1>2, <1>3, <2>1 DEF HeldCornersAreDecoded, DecodedCorners, DecodedVertexIDs, K
<1>7. CASE decoderPhase' \notin {"idle", "failed"}
  <2>1. DecodedCorners' = Corners(numEncodedFaces)
    BY <1>2, <1>7 DEF ReaderInv, TableHasItsSize
  <2>2. activeCorners' \in Seq(0 .. K)
    <3>1. CASE decoderPhase' = "symbols"
      <4>1. activeCorners' \in Seq(0 .. 3 * symbolID' - 1)
        BY <3>1 DEF ReaderInv, CornersAreOfDecodedFaces, TopIsTheLastFace, Building, NewCorner
      <4> QED
        BY <1>4, <1>5, <4>1, SeqMonotonic
    <3>2. CASE decoderPhase' # "symbols"
      <4>1. \/ activeCorners' = activeCorners
            \/ activeCorners # <<>> /\ activeCorners' = Front(activeCorners)
        BY <1>7, <3>2 DEF DecoderNext, StartDecoding, DecodeC, DecodeR, DecodeL, DecodeSide, DecodeS,
           DecodeE, ReadingSymbol, Fail,
           SymbolsDone, DecodeBoundaryStart, DecodeInteriorStart, TruncatedStartFaces,
           FinishConnectivity, UpdateHoleCorners
      <4> QED
        BY <1>3, <4>1, FrontAndLast
    <3> QED
      BY <3>1, <3>2
  <2>3. \A v \in DecodedVertexIDs' : dVertexCorners'[v] \in DecodedCorners' \cup {NoCorner}
    <3>1. CASE decoderPhase' \in {"symbols", "startFaces"}
      <4>1. \A v \in DecodedVertexIDs' : dVertexCorners'[v] \in {NoCorner} \cup 0 .. 3 * symbolID' - 1
        BY <3>1 DEF ReaderInv, CornersAreOfDecodedFaces, Building
      <4> QED
        BY <1>4, <1>5, <2>1, <4>1
    <3>2. CASE decoderPhase' \in {"connected", "decoded"}
      BY <3>2 DEF ReaderInv, CornersAreOfDecodedFaces
    <3> QED
      BY <1>7, <3>1, <3>2 DEF ReaderInv, ReaderTypeOK
  <2> QED
    BY <1>2, <2>1, <2>2, <2>3 DEF HeldCornersAreDecoded, K
<1> QED
  BY <1>6, <1>7

LEMMA NextKeepsRoundTripInv == RoundTripInv /\ [Next]_vars => RoundTripInv'
<1> SUFFICES ASSUME RoundTripInv, [Next]_vars PROVE RoundTripInv'
  OBVIOUS
<1>1. CASE Encode
  BY <1>1, EncodeKeepsReader, EncoderNextKeepsWalkInv DEF RoundTripInv, Encode
<1>2. CASE Decode
  <2>1. phase = "written" /\ DecoderNext /\ UNCHANGED encoderVars
    BY <1>2 DEF Decode
  <2>2. WalkInv' /\ phase' = "written"
    BY <2>1, WalkInvStays DEF RoundTripInv, encoderVars, baseVars
  <2>3. ReaderInv'
    <3>1. ReaderInv
      BY <2>1 DEF RoundTripInv, ReadsWhatIsWritten
    <3>2. ReaderNext
      BY <2>1 DEF ReaderNext, encoderVars
    <3> QED
      BY <3>1, <3>2, ReaderInvIsInductive
  <2>4. HeldCornersAreDecoded'
    BY <2>1, <2>3, DecodeKeepsHeldCorners
  <2> QED
    BY <2>2, <2>3, <2>4 DEF RoundTripInv, ReadsWhatIsWritten
<1>3. CASE UNCHANGED vars
  <2>1. UNCHANGED encoderVars /\ UNCHANGED decoderVars
    BY <1>3 DEF vars
  <2>2. WalkInv' /\ phase' = phase
    BY <2>1, WalkInvStays DEF RoundTripInv, encoderVars, baseVars
  <2>3. ReadsWhatIsWritten'
    <3>1. CASE phase = "written"
      <4>1. UNCHANGED ReaderVars
        BY <2>1 DEF ReaderVars, encoderVars
      <4>2. ReaderInv'
        BY <3>1, <4>1, ReaderInvIsInductive DEF RoundTripInv, ReadsWhatIsWritten
      <4>3. HeldCornersAreDecoded'
        BY <3>1, <4>1 DEF RoundTripInv, ReadsWhatIsWritten, HeldCornersAreDecoded, ReaderVars,
           decoderVars, decodedTable, wireVars, NumSymbols, DecodedCorners, DecodedVertexIDs
      <4> QED
        BY <2>2, <3>1, <4>2, <4>3 DEF ReadsWhatIsWritten
    <3>2. CASE phase # "written"
      BY <2>1, <2>2, <3>2 DEF RoundTripInv, ReadsWhatIsWritten, DecoderInit, decoderVars, decodedTable
    <3> QED
      BY <3>1, <3>2
  <2> QED
    BY <2>2, <2>3 DEF RoundTripInv
<1> QED
  BY <1>1, <1>2, <1>3 DEF Next

LEMMA RoundTripInvariant == Spec => []RoundTripInv
<1>1. Init => RoundTripInv
  <2>1. EncoderInit => phase # "written"
    BY DEF EncoderInit, BaseInit
  <2> QED
    BY <2>1, InitEstablishesWalkInv DEF Init, RoundTripInv, ReadsWhatIsWritten
<1> QED
  BY <1>1, NextKeepsRoundTripInv, PTL DEF Spec

-----------------------------------------------------------------------------
(* What follows from the invariant.                                        *)

LEMMA TypesFollow == RoundTripInv => TypeOK
<1> SUFFICES ASSUME RoundTripInv PROVE TypeOK
  OBVIOUS
<1>1. TraversalTypes /\ WireTypeOK
  BY DEF RoundTripInv, WalkInv, TraversalTypes
<1>2. /\ decoderPhase \in {"idle", "symbols", "startFaces", "connected", "decoded", "failed"}
      /\ activeCorners \in Seq(DecodedCorners)
      /\ \A v \in DecodedVertexIDs : dVertexCorners[v] \in DecodedCorners \cup {NoCorner}
  <2>1. CASE phase = "written"
    <3>1. ReaderInv /\ HeldCornersAreDecoded
      BY <2>1 DEF RoundTripInv, ReadsWhatIsWritten
    <3>2. NumSymbols \in Nat /\ numEncodedFaces \in Nat /\ NumSymbols <= numEncodedFaces
      BY <1>1, <2>1, LenProperties
         DEF RoundTripInv, WalkInv, FacesAreWalkedOnce, WireTypeOK, NumSymbols
    <3>3. activeCorners \in Seq(DecodedCorners)
      <4>1. CASE activeCorners = <<>>
        BY <4>1
      <4>2. CASE activeCorners # <<>>
        <5>1. /\ DecodedCorners = Corners(numEncodedFaces)
              /\ activeCorners \in Seq(0 .. 3 * NumSymbols - 1)
          BY <3>1, <4>2 DEF HeldCornersAreDecoded
        <5>2. 0 .. 3 * NumSymbols - 1 \subseteq Corners(numEncodedFaces)
          BY <3>2 DEF Corners
        <5> QED
          BY <5>1, <5>2, SeqMonotonic
      <4> QED
        BY <4>1, <4>2
    <3> QED
      BY <3>1, <3>3 DEF HeldCornersAreDecoded, ReaderInv, ReaderTypeOK
  <2>2. CASE phase # "written"
    <3>1. DecoderInit
      BY <2>2 DEF RoundTripInv, ReadsWhatIsWritten
    <3> QED
      BY <3>1 DEF DecoderInit, DecodedVertexIDs
  <2> QED
    BY <2>1, <2>2
<1> QED
  BY <1>1, <1>2 DEF TypeOK, TraversalTypes, WireTypeOK

LEMMA FacesFollow == RoundTripInv => EachFaceIsWalkedOnce
<1> SUFFICES ASSUME RoundTripInv PROVE EachFaceIsWalkedOnce
  OBVIOUS
<1> DEFINE rest == IF phase = "written" THEN <<>> ELSE initFaceCorners
           walked == processedCorners \o rest
<1>1. /\ processedCorners \in Seq(AllCorners) /\ initFaceCorners \in Seq(AllCorners)
      /\ FacesAreWalkedOnce
  BY DEF RoundTripInv, WalkInv, TraversalTypes
<1>2. rest \in Seq(AllCorners)
  BY <1>1
<1>3. OncePerFace(processedCorners) /\ OncePerFace(rest)
      /\ FacesOf(processedCorners) \cap FacesOf(rest) = {}
      /\ FacesOf(processedCorners) \cup FacesOf(rest) = visitedFaces
  <2>1. OncePerFace(<<>>) /\ FacesOf(<<>>) = {}
    BY DEF OncePerFace, FacesOf
  <2> QED
    BY <1>1, <2>1 DEF FacesAreWalkedOnce
<1> HIDE DEF rest
<1>4. OncePerFace(walked) /\ FacesOf(walked) = visitedFaces
  BY <1>1, <1>2, <1>3, FacesOfBoth
<1> QED
  BY <1>4 DEF OncePerFace, FacesOf, EachFaceIsWalkedOnce, rest

(* For every mesh the walk stays on the mesh and meets every face once:    *)
(* the corner the inner loop stands on is one of a face not yet removed,   *)
(* so no neighbour that is not there is ever followed, and what both sides *)
(* hold is of the right types to the end of decoding.                      *)
THEOREM WalkIsAlwaysSound == Spec => []WalkIsSound
<1>1. RoundTripInv => CurrentFaceIsFresh
  BY DEF RoundTripInv, WalkInv, GatesAreVisited, CurrentFaceIsFresh
<1>2. RoundTripInv => WalkIsSound
  BY <1>1, TypesFollow, FacesFollow DEF WalkIsSound
<1> QED
  BY <1>2, RoundTripInvariant, PTL

(* For every mesh the split events come out in an order in which their     *)
(* differences can be written: the first half of StreamIsAccepted.         *)
THEOREM SplitEventsAreAlwaysEncodable == Spec => []SplitEventsAreEncodable
<1>1. RoundTripInv => SplitEventsAreEncodable
  BY DEF RoundTripInv, WalkInv, EventsFollowTheWalk, SplitEventsAreEncodable
<1> QED
  BY <1>1, RoundTripInvariant, PTL


-----------------------------------------------------------------------------
(* What the trace needs of the table besides: faces have three vertices,   *)
(* and the vertices that are stored are those in use.                      *)
StoredVertices == {v \in VertexIDs : vertexCorners[v] >= 0}

TableIsFull ==
  /\ \A c \in AllCorners : cornerVertex[c] # cornerVertex[NextCorner(c)]
  /\ StoredVertices = {cornerVertex[c] : c \in AllCorners}

StoredWhenVisited ==
  phase \in BasePhases \cup {"ready"} =>
    /\ phase # "faces" => \A f \in 0 .. mesh.numFaces - 1 : ~ DegenerateFace(f)
    /\ \A v \in VertexIDs : vertexCorners[v] >= 0 => v \in baseVisitedVertices

(* Before the table is built no vertex is stored.                          *)
LEMMA BaseInitStores == BaseInit => StoredWhenVisited
<1> SUFFICES ASSUME BaseInit PROVE StoredWhenVisited
  OBVIOUS
<1>1. phase = "faces" /\ vertexCorners = [v \in VertexIDs |-> NoCorner]
  BY DEF BaseInit
<1>2. \A v \in VertexIDs : ~ (vertexCorners[v] >= 0)
  BY <1>1 DEF NoCorner
<1> QED
  BY <1>1, <1>2 DEF StoredWhenVisited

(* Every step of the three passes keeps it so.                             *)
LEMMA BaseStepStores ==
  ASSUME HoleInv, StoredWhenVisited, BaseNext
  PROVE  StoredWhenVisited'
<1>1. UNCHANGED mesh
  BY DEF BaseNext, LoadFaces, MatchHalfEdge, OpenHalfEdge, OppositesDone, VisitFan,
         OutOfVertices, SkipVisitedCorner, VerticesDone, NumberHole, SkipHoleCorner, HolesDone,
         UnchangedByMatching
<1>2. /\ VertexIDs' = VertexIDs /\ mesh'.numFaces = mesh.numFaces
      /\ \A f : DegenerateFace(f)' <=> DegenerateFace(f)
  BY <1>1 DEF VertexIDs, MaxVertices, DegenerateFace
<1>3. CASE LoadFaces
  <2>1. phase = "faces" /\ UNCHANGED <<vertexCorners, baseVisitedVertices>>
    BY <1>3 DEF LoadFaces
  <2>2. phase' \in BasePhases \cup {"ready"} => \A f \in 0 .. mesh.numFaces - 1 : ~ DegenerateFace(f)
    BY <1>3 DEF LoadFaces, BasePhases
  <2> QED
    BY <1>2, <2>1, <2>2 DEF StoredWhenVisited, BasePhases
<1>4. CASE VisitFan
  <2> DEFINE v == FanVertex(cursor)
  <2>1. /\ phase = "vertices" /\ phase' = phase
        /\ baseVisitedVertices' = baseVisitedVertices \cup {v}
        /\ vertexCorners' = [vertexCorners EXCEPT ![v] = FanCorner(cursor)]
    BY <1>4 DEF VisitFan
  <2>2. DOMAIN vertexCorners = VertexIDs
    BY DEF HoleInv, FanInv, MatchingInv, BaseTypeOK
  <2> HIDE DEF v
  <2>3. \A w \in VertexIDs : w # v => vertexCorners'[w] = vertexCorners[w]
    BY <2>1, <2>2
  <2> QED
    BY <1>2, <2>1, <2>3 DEF StoredWhenVisited, BasePhases
<1>5. CASE \/ MatchHalfEdge \/ OpenHalfEdge \/ OppositesDone
           \/ OutOfVertices \/ SkipVisitedCorner \/ VerticesDone
           \/ NumberHole \/ SkipHoleCorner \/ HolesDone
  <2>1. /\ phase \in BasePhases \ {"faces"}
        /\ UNCHANGED <<vertexCorners, baseVisitedVertices>>
    BY <1>5 DEF MatchHalfEdge, OpenHalfEdge, OppositesDone, OutOfVertices, SkipVisitedCorner,
                VerticesDone, NumberHole, SkipHoleCorner, HolesDone, UnchangedByMatching,
                tableVars, BasePhases
  <2>2. phase' # "faces"
    BY <1>5 DEF MatchHalfEdge, OpenHalfEdge, OppositesDone, OutOfVertices, SkipVisitedCorner,
                VerticesDone, NumberHole, SkipHoleCorner, HolesDone
  <2> QED
    BY <1>2, <2>1, <2>2 DEF StoredWhenVisited, BasePhases
<1> QED
  BY <1>3, <1>4, <1>5 DEF BaseNext

(* A vertex of the table lies in one place of the mesh, so a face that has *)
(* three vertices there has three here.                                    *)
LEMMA ReadyTableIsFull ==
  ASSUME HoleInv, phase = "ready", StoredWhenVisited
  PROVE  TableIsFull
<1>1. TableIsManifold
  BY FansMakeAManifold DEF HoleInv
<1>2. /\ mesh.numFaces \in Nat /\ AllCorners = Corners(mesh.numFaces)
      /\ IsTable(opposite, AllCorners)
      /\ \A x, y \in AllCorners :
           cornerVertex[y] = cornerVertex[x] <=> y \in FanCorners(opposite, x)
  BY <1>1 DEF TableIsManifold, AllCorners
<1>3. \A c \in AllCorners : opposite[c] # NoCorner => FacesSameEdge(mesh.vertexAt, c, opposite[c])
  BY DEF HoleInv, FanInv, MatchingInv, PairedTable, PairsFaceOneEdge
<1>4. ASSUME NEW c \in AllCorners PROVE cornerVertex[c] # cornerVertex[NextCorner(c)]
  <2> DEFINE n == NextCorner(c)
  <2>1. /\ n \in AllCorners /\ c # n /\ Face(c) \in 0 .. mesh.numFaces - 1
        /\ c \in {3 * Face(c), 3 * Face(c) + 1, 3 * Face(c) + 2}
        /\ n \in {3 * Face(c), 3 * Face(c) + 1, 3 * Face(c) + 2}
    BY <1>2, CornerArithmetic
  <2> HIDE DEF n
  <2>2. ASSUME cornerVertex[n] = cornerVertex[c] PROVE FALSE
    <3>1. n \in FanCorners(opposite, c)
      BY <1>2, <2>1, <2>2
    <3>2. mesh.vertexAt[n] = mesh.vertexAt[c]
      BY <1>2, <1>3, <3>1, FanHasOneVertex
    <3>3. DegenerateFace(Face(c))
      BY <2>1, <3>2 DEF DegenerateFace
    <3> QED
      BY <2>1, <3>3 DEF StoredWhenVisited
  <2> QED
    BY <2>2 DEF n
<1>5. ASSUME NEW c \in AllCorners PROVE cornerVertex[c] \in StoredVertices
  <2>1. /\ c \in baseVisitedCorners /\ baseVisitedCorners = AllCorners
        /\ cornerVertex[c] \in baseVisitedVertices
    BY DEF HoleInv, FanInv, VisitedFans, VisitedInOrder
  <2>2. vertexCorners[cornerVertex[c]] \in AllCorners
    BY <2>1 DEF HoleInv, FanInv, VisitedVerticesAreStored
  <2>3. cornerVertex[c] \in VertexIDs /\ vertexCorners[cornerVertex[c]] >= 0
    BY <1>1, <2>2, ManifoldCorners
  <2> QED
    BY <2>3 DEF StoredVertices
<1>6. ASSUME NEW v \in StoredVertices PROVE \E c \in AllCorners : cornerVertex[c] = v
  <2>1. v \in baseVisitedVertices
    BY DEF StoredVertices, StoredWhenVisited
  <2>2. vertexCorners[v] \in baseVisitedCorners /\ cornerVertex[vertexCorners[v]] = v
    BY <2>1 DEF HoleInv, FanInv, VisitedVerticesAreStored
  <2>3. baseVisitedCorners \subseteq AllCorners
    BY DEF HoleInv, FanInv, VisitedFans
  <2> QED
    BY <2>2, <2>3
<1> QED
  BY <1>4, <1>5, <1>6 DEF TableIsFull

-----------------------------------------------------------------------------
(* Around a vertex.                                                        *)

LEMMA TableInUse ==
  ASSUME TableIsReady
  PROVE  /\ TableIsManifold
         /\ mesh.numFaces \in Nat /\ AllCorners = Corners(mesh.numFaces)
         /\ AllCorners \in SUBSET Nat /\ IsFiniteSet(AllCorners)
         /\ IsTable(opposite, AllCorners)
         /\ NoCorner \notin AllCorners /\ NoCorner < 0 /\ ~ (NoCorner >= 0)
         /\ \A c \in AllCorners : c >= 0 /\ ~ (c < 0)
         /\ \A x, y \in AllCorners :
              cornerVertex[y] = cornerVertex[x] <=> y \in FanCorners(opposite, x)
         /\ \A x, y \in AllCorners : opposite[x] = y => opposite[y] = x
<1>1. /\ TableIsManifold /\ mesh.numFaces \in Nat /\ AllCorners = Corners(mesh.numFaces)
      /\ IsTable(opposite, AllCorners)
      /\ \A x, y \in AllCorners :
           cornerVertex[y] = cornerVertex[x] <=> y \in FanCorners(opposite, x)
  BY DEF TableIsReady, TableIsManifold, AllCorners
<1>2. AllCorners \in SUBSET Nat /\ IsFiniteSet(AllCorners)
  BY <1>1, CornersAreFinite
<1>3. \A x, y \in AllCorners : opposite[x] = y => opposite[y] = x
  BY <1>1, <1>2 DEF IsTable, IsPairing, NoCorner
<1> QED
  BY <1>1, <1>2, <1>3 DEF NoCorner

(* Swinging left crosses the edge against the next corner, into another    *)
(* face, and back by swinging right.                                       *)
LEMMA LeftOfACorner ==
  ASSUME TableIsReady, NEW c \in AllCorners
  PROVE  LET e == opposite[NextCorner(c)]
             s == SwingLeft(opposite, c)
         IN  /\ e = NoCorner => s = NoCorner
             /\ e # NoCorner =>
                  /\ e \in AllCorners /\ s = NextCorner(e) /\ s \in AllCorners
                  /\ Face(s) = Face(e) /\ Face(e) # Face(c)
                  /\ cornerVertex[s] = cornerVertex[c]
                  /\ SwingRight(opposite, s) = c
<1> DEFINE n == NextCorner(c)
           e == opposite[n]
           s == SwingLeft(opposite, c)
<1>1. n \in AllCorners /\ PreviousCorner(n) = c /\ Face(n) = Face(c)
  BY TableInUse, ManifoldCorners
<1> HIDE DEF n
<1>2. /\ e = NoCorner => s = NoCorner
      /\ e # NoCorner => e \in AllCorners /\ s = NextCorner(e)
  BY <1>1, TableInUse, SwingsCrossEdges
<1>3. e # NoCorner => Face(e) # Face(c)
  BY <1>1 DEF TableIsReady
<1>4. e # NoCorner => s \in AllCorners /\ Face(s) = Face(e)
  BY <1>2, TableInUse, ManifoldCorners
<1>5. e # NoCorner => SwingRight(opposite, s) = c
  BY <1>4, TableInUse, SwingsAreInverse
<1>6. e # NoCorner => cornerVertex[s] = cornerVertex[c]
  BY <1>1, <1>2, TableInUse, ManifoldEdges
<1> QED
  BY <1>2, <1>3, <1>4, <1>5, <1>6 DEF n

(* Swinging right crosses the edge against the previous corner.            *)
LEMMA RightOfACorner ==
  ASSUME TableIsReady, NEW c \in AllCorners
  PROVE  LET e == opposite[PreviousCorner(c)]
             s == SwingRight(opposite, c)
         IN  /\ e = NoCorner => s = NoCorner
             /\ e # NoCorner =>
                  /\ e \in AllCorners /\ s = PreviousCorner(e) /\ s \in AllCorners
                  /\ Face(s) = Face(e) /\ Face(e) # Face(c)
                  /\ cornerVertex[s] = cornerVertex[c]
                  /\ SwingLeft(opposite, s) = c
<1> DEFINE p == PreviousCorner(c)
           e == opposite[p]
           s == SwingRight(opposite, c)
<1>1. p \in AllCorners /\ NextCorner(p) = c /\ Face(p) = Face(c)
  BY TableInUse, ManifoldCorners
<1> HIDE DEF p
<1>2. /\ e = NoCorner => s = NoCorner
      /\ e # NoCorner => e \in AllCorners /\ s = PreviousCorner(e)
  BY <1>1, TableInUse, SwingsCrossEdges
<1>3. e # NoCorner => Face(e) # Face(c)
  BY <1>1 DEF TableIsReady
<1>4. e # NoCorner => s \in AllCorners /\ Face(s) = Face(e)
  BY <1>2, TableInUse, ManifoldCorners
<1>5. e # NoCorner => SwingLeft(opposite, s) = c
  BY <1>4, TableInUse, SwingsAreInverse
<1>6. e # NoCorner => cornerVertex[s] = cornerVertex[c]
  BY <1>1, <1>2, TableInUse, ManifoldEdges
<1> QED
  BY <1>2, <1>3, <1>4, <1>5, <1>6 DEF p

(* A vertex without a hole has a face on both sides of each of its corners.*)
LEMMA InteriorVertex ==
  ASSUME TableIsReady, NEW c \in AllCorners, vertexHoleID[cornerVertex[c]] = -1
  PROVE  opposite[NextCorner(c)] # NoCorner /\ opposite[PreviousCorner(c)] # NoCorner
<1>1. opposite[NextCorner(c)] # NoCorner
  BY MissingFaceIsABoundary
<1>2. opposite[PreviousCorner(c)] # NoCorner
  <2> DEFINE p == PreviousCorner(c)
  <2>1. p \in AllCorners /\ NextCorner(p) = c /\ cornerVertex[c] \in VertexIDs
    BY TableInUse, ManifoldCorners
  <2> HIDE DEF p
  <2>2. opposite[p] = NoCorner => p \in BoundaryCorners /\ BoundaryVertexOf(p) = cornerVertex[c]
    BY <2>1 DEF BoundaryCorners, BoundaryVertexOf
  <2>3. opposite[p] # NoCorner
    BY <2>1, <2>2 DEF TableIsReady
  <2> QED
    BY <2>3 DEF p
<1> QED
  BY <1>1, <1>2

(* and one with a hole has a corner that has none on its right.            *)
LEMMA BoundaryVertex ==
  ASSUME TableIsReady, NEW v \in VertexIDs, vertexHoleID[v] # -1
  PROVE  \E c \in AllCorners : cornerVertex[c] = v /\ opposite[PreviousCorner(c)] = NoCorner
<1>1. PICK b \in BoundaryCorners : BoundaryVertexOf(b) = v
  BY DEF TableIsReady
<1>2. b \in AllCorners /\ opposite[b] = NoCorner
  BY <1>1 DEF BoundaryCorners
<1>3. NextCorner(b) \in AllCorners /\ PreviousCorner(NextCorner(b)) = b
  BY <1>2, TableInUse, ManifoldCorners
<1> QED
  BY <1>1, <1>2, <1>3 DEF BoundaryVertexOf

(* A face has one corner at a vertex.                                      *)
LEMMA OneCornerOfAFace ==
  ASSUME TableIsReady, TableIsFull, NEW c \in AllCorners, NEW d \in AllCorners,
         Face(c) = Face(d), cornerVertex[c] = cornerVertex[d]
  PROVE  c = d
<1>1. /\ NextCorner(c) \in AllCorners /\ PreviousCorner(c) \in AllCorners
      /\ NextCorner(PreviousCorner(c)) = c
  BY TableInUse, ManifoldCorners
<1>2. cornerVertex[c] # cornerVertex[NextCorner(c)] /\ cornerVertex[PreviousCorner(c)] # cornerVertex[c]
  BY <1>1 DEF TableIsFull
<1> QED
  BY <1>2, TableInUse, CornersOfOneFace

(* What is closed on one side of every corner is closed on the other.      *)
LEMMA RightClosedIsLeftClosed ==
  ASSUME NEW F \in Nat, NEW o, IsTable(o, Corners(F)), NEW S \in SUBSET Corners(F),
         \A d \in S : SwingRight(o, d) \in S,
         NEW c \in S
  PROVE  SwingLeft(o, c) \in S
<1> DEFINE step == [d \in S |-> SwingRight(o, d)]
<1>1. S \in SUBSET Nat /\ IsFiniteSet(S)
  BY CornersAreFinite, FS_Subset
<1>2. step \in [S -> S] /\ IsStep(step, S)
  <2>1. ASSUME NEW d \in S, NEW e \in S, step[d] = step[e] PROVE d = e
    <3>1. SwingRight(o, d) = SwingRight(o, e) /\ SwingRight(o, d) \in S
      BY <2>1
    <3>2. SwingLeft(o, SwingRight(o, d)) = d /\ SwingLeft(o, SwingRight(o, e)) = e
      <4>1. \A x \in S : x >= 0
        BY <1>1
      <4> QED
        BY <3>1, <4>1, SwingsAreInverse
    <3> QED
      BY <3>1, <3>2
  <2>2. step \in [S -> S] /\ step \in [S -> S \cup {-1}]
    OBVIOUS
  <2> HIDE DEF step
  <2> QED
    BY <2>1, <2>2 DEF IsStep
<1> HIDE DEF step
<1>3. PICK w : IsWalk(step, S, c, w) /\ IsOver(step, c, w)
  BY <1>1, <1>2, SomeWalkIsOver
<1>4. step[w[Len(w)]] = c /\ Len(w) \in Nat /\ Len(w) >= 1 /\ w \in Seq(S)
  BY <1>1, <1>2, <1>3, WalkGoesRound DEF IsWalk
<1> DEFINE e == w[Len(w)]
<1>5. e \in S /\ step[e] = c
  BY <1>4
<1> HIDE DEF e
<1>6. SwingRight(o, e) = c /\ c >= 0
  BY <1>1, <1>5 DEF step
<1>7. SwingLeft(o, c) = e
  BY <1>5, <1>6, SwingsAreInverse
<1> QED
  BY <1>5, <1>7

(* A set of corners that swinging left does not leave is not left by       *)
(* swinging right: swings are one for one.                                 *)
LEMMA LeftClosedIsRightClosed ==
  ASSUME NEW F \in Nat, NEW o, IsTable(o, Corners(F)), NEW S \in SUBSET Corners(F),
         \A d \in S : SwingLeft(o, d) \in S,
         NEW c \in S
  PROVE  SwingRight(o, c) \in S
<1> DEFINE step == [d \in S |-> SwingLeft(o, d)]
<1>1. S \in SUBSET Nat /\ IsFiniteSet(S)
  BY CornersAreFinite, FS_Subset
<1>2. step \in [S -> S] /\ IsStep(step, S)
  <2>1. ASSUME NEW d \in S, NEW e \in S, step[d] = step[e] PROVE d = e
    <3>1. SwingLeft(o, d) = SwingLeft(o, e) /\ SwingLeft(o, d) \in S
      BY <2>1
    <3>2. SwingRight(o, SwingLeft(o, d)) = d /\ SwingRight(o, SwingLeft(o, e)) = e
      <4>1. \A x \in S : x >= 0
        BY <1>1
      <4> QED
        BY <3>1, <4>1, SwingsAreInverse
    <3> QED
      BY <3>1, <3>2
  <2>2. step \in [S -> S] /\ step \in [S -> S \cup {-1}]
    OBVIOUS
  <2> HIDE DEF step
  <2> QED
    BY <2>1, <2>2 DEF IsStep
<1> HIDE DEF step
<1>3. PICK w : IsWalk(step, S, c, w) /\ IsOver(step, c, w)
  BY <1>1, <1>2, SomeWalkIsOver
<1>4. step[w[Len(w)]] = c /\ Len(w) \in Nat /\ Len(w) >= 1 /\ w \in Seq(S)
  BY <1>1, <1>2, <1>3, WalkGoesRound DEF IsWalk
<1> DEFINE e == w[Len(w)]
<1>5. e \in S /\ step[e] = c
  BY <1>4
<1> HIDE DEF e
<1>6. SwingLeft(o, e) = c /\ c >= 0
  BY <1>1, <1>5 DEF step
<1>7. SwingRight(o, c) = e
  BY <1>5, <1>6, SwingsAreInverse
<1> QED
  BY <1>5, <1>7

(* Faces that share every edge they have with one another hold the whole   *)
(* fan of each of their vertices.                                          *)
SpreadsOver(V) ==
  \A c \in AllCorners : Face(c) \in V /\ opposite[c] # NoCorner => Face(opposite[c]) \in V

(* Faces that share their edges hold the fans of their vertices.           *)
LEMMA FanStaysWithin ==
  ASSUME TableIsReady, NEW V, SpreadsOver(V),
         NEW c \in AllCorners, NEW d \in AllCorners, cornerVertex[c] = cornerVertex[d],
         Face(c) \in V
  PROVE  Face(d) \in V
<1> DEFINE S == {e \in AllCorners : Face(e) \in V}
<1>1. ASSUME NEW e \in S
      PROVE  /\ SwingLeft(opposite, e) >= 0 => SwingLeft(opposite, e) \in S
             /\ SwingRight(opposite, e) >= 0 => SwingRight(opposite, e) \in S
  <2>1. /\ NextCorner(e) \in AllCorners /\ PreviousCorner(e) \in AllCorners
        /\ Face(NextCorner(e)) \in V /\ Face(PreviousCorner(e)) \in V
    BY TableInUse, ManifoldCorners
  <2>2. /\ opposite[NextCorner(e)] # NoCorner => Face(opposite[NextCorner(e)]) \in V
        /\ opposite[PreviousCorner(e)] # NoCorner => Face(opposite[PreviousCorner(e)]) \in V
    BY <2>1 DEF SpreadsOver
  <2> QED
    BY <2>2, LeftOfACorner, RightOfACorner, TableInUse
<1>2. c \in S /\ KeepsSwings(opposite, S)
  BY <1>1 DEF KeepsSwings
<1> HIDE DEF S
<1>3. FanCorners(opposite, c) \subseteq S
  BY <1>2, TableInUse, FanIsLeast
<1>4. d \in S
  BY <1>3, TableInUse
<1> QED
  BY <1>4 DEF S

(* What is left over shares its edges as well.                             *)
LEMMA RestSpreads ==
  ASSUME TableIsReady, NEW V, SpreadsOver(V)
  PROVE  SpreadsOver(AllFaces \ V)
<1> SUFFICES ASSUME NEW c \in AllCorners, Face(c) \in AllFaces \ V, opposite[c] # NoCorner
             PROVE  Face(opposite[c]) \in AllFaces \ V
  BY DEF SpreadsOver
<1> DEFINE d == opposite[c]
<1>1. d \in AllCorners
  BY TableInUse, ManifoldEdges
<1>2. opposite[d] = c /\ opposite[d] # NoCorner
  BY <1>1, TableInUse
<1> HIDE DEF d
<1>3. Face(d) \in AllFaces
  BY <1>1, TableInUse, ManifoldCorners
<1>4. Face(d) \notin V
  BY <1>1, <1>2 DEF SpreadsOver
<1> QED
  BY <1>3, <1>4 DEF d

(* Faces X around an interior vertex that end nowhere but at the face of c *)
(* lie on both sides of c or on none.                                      *)
LEMMA FanLeadsRound ==
  ASSUME TableIsReady, TableIsFull, NEW c \in AllCorners, NEW X, Face(c) \notin X,
         vertexHoleID[cornerVertex[c]] = -1,
         \A d \in AllCorners : cornerVertex[d] = cornerVertex[c] /\ Face(d) \in X =>
            /\ Face(opposite[NextCorner(d)]) \in X \cup {Face(c)}
            /\ Face(opposite[PreviousCorner(d)]) \in X \cup {Face(c)}
  PROVE  Face(opposite[NextCorner(c)]) \in X <=> Face(opposite[PreviousCorner(c)]) \in X
<1> DEFINE S == {d \in AllCorners : cornerVertex[d] = cornerVertex[c] /\ Face(d) \in X}
           l == SwingLeft(opposite, c)
           r == SwingRight(opposite, c)
<1>1. ASSUME NEW d \in AllCorners, cornerVertex[d] = cornerVertex[c]
      PROVE  /\ SwingLeft(opposite, d) \in AllCorners
             /\ Face(SwingLeft(opposite, d)) = Face(opposite[NextCorner(d)])
             /\ cornerVertex[SwingLeft(opposite, d)] = cornerVertex[c]
             /\ SwingRight(opposite, SwingLeft(opposite, d)) = d
             /\ SwingRight(opposite, d) \in AllCorners
             /\ Face(SwingRight(opposite, d)) = Face(opposite[PreviousCorner(d)])
             /\ cornerVertex[SwingRight(opposite, d)] = cornerVertex[c]
             /\ SwingLeft(opposite, SwingRight(opposite, d)) = d
  BY <1>1, InteriorVertex, LeftOfACorner, RightOfACorner
<1>2. ASSUME NEW d \in S
      PROVE  /\ SwingLeft(opposite, d) \in S \/ d = r
             /\ SwingRight(opposite, d) \in S \/ d = l
  <2>1. /\ SwingLeft(opposite, d) \in S \/ Face(SwingLeft(opposite, d)) = Face(c)
        /\ SwingRight(opposite, d) \in S \/ Face(SwingRight(opposite, d)) = Face(c)
    BY <1>1
  <2>2. Face(SwingLeft(opposite, d)) = Face(c) => SwingLeft(opposite, d) = c
    BY <1>1, OneCornerOfAFace
  <2>3. Face(SwingRight(opposite, d)) = Face(c) => SwingRight(opposite, d) = c
    BY <1>1, OneCornerOfAFace
  <2> QED
    BY <1>1, <2>1, <2>2, <2>3
<1>3. l \in S <=> Face(opposite[NextCorner(c)]) \in X
  BY <1>1
<1>4. r \in S <=> Face(opposite[PreviousCorner(c)]) \in X
  BY <1>1
<1>5. c \notin S /\ S \in SUBSET AllCorners /\ SwingLeft(opposite, r) = c /\ SwingRight(opposite, l) = c
  BY <1>1
<1> HIDE DEF S, l, r
<1>6. ASSUME r \in S, l \notin S PROVE FALSE
  <2>1. \A d \in S : SwingRight(opposite, d) \in S
    BY <1>2, <1>6
  <2> QED
    BY <1>5, <1>6, <2>1, TableInUse, RightClosedIsLeftClosed
<1>7. ASSUME l \in S, r \notin S PROVE FALSE
  <2>1. \A d \in S : SwingLeft(opposite, d) \in S
    BY <1>2, <1>7
  <2> QED
    BY <1>5, <1>7, <2>1, TableInUse, LeftClosedIsRightClosed
<1> QED
  BY <1>3, <1>4, <1>6, <1>7

-----------------------------------------------------------------------------
(* The walk as the reader will have to undo it.                            *)
(*                                                                         *)
(* Step i of the walk removed the face of Walked(i) and wrote symbols[i].  *)
(* Old(i) are the faces that were gone when it was done, interior start    *)
(* faces counted as gone from the start: no step is taken next to one that *)
(* is still to come.                                                       *)
Steps == 1 .. NumSymbols

Walked(i) ==
  IF phase = "written" THEN processedCorners[NumSymbols - i + 1] ELSE processedCorners[i]

RightOf(i) == opposite[NextCorner(Walked(i))]
LeftOf(i) == opposite[PreviousCorner(Walked(i))]

Old(i) == {Face(Walked(j)) : j \in 1 .. i} \cup FacesOf(initFaceCorners)

LeadsNowhere(c, faces) == c = NoCorner \/ Face(c) \in faces

Around(c) == {d \in AllCorners : cornerVertex[d] = cornerVertex[c] /\ Face(d) # Face(c)}

IsFresh(c, faces) ==
  vertexHoleID[cornerVertex[c]] = -1 /\ \A d \in Around(c) : Face(d) \notin faces

(* What a symbol says of the face it removes, once that face is gone.      *)
Fits(symbol, c, faces) ==
  /\ LeadsNowhere(opposite[c], faces)
  /\ LeadsNowhere(opposite[NextCorner(c)], faces) <=> symbol \in {"R", "E"}
  /\ LeadsNowhere(opposite[PreviousCorner(c)], faces) <=> symbol \in {"L", "E"}
  /\ symbol = "C" => IsFresh(c, faces)
  /\ symbol = "S" => ~ IsFresh(c, faces)

(* Where a symbol other than E goes on.                                    *)
NextStep(i) == IF symbols[i] = "R" THEN LeftOf(i) ELSE RightOf(i)

SymbolsFit ==
  /\ \A i \in Steps : Fits(symbols[i], Walked(i), Old(i))
  /\ \A i \in Steps : i < NumSymbols /\ symbols[i] # "E" => Walked(i + 1) = NextStep(i)

(* A branch begins where an E was written before it: at the left side of   *)
(* an S, or as the root of a component.                                    *)
IsBranch(j) == j \in Steps /\ (j = 1 \/ symbols[j - 1] = "E")
IsChild(j, i) == symbols[i] = "S" /\ Walked(j) = LeftOf(i)
IsRoot(j) == IsBranch(j) /\ LeadsNowhere(opposite[Walked(j)], FacesOf(initFaceCorners))

(* Between S i and step k every branch belongs to a later S.               *)
NestedIn(i, k) ==
  \A b \in i + 2 .. k : IsBranch(b) => \E h \in i + 1 .. NumSymbols : IsChild(b, h)

BranchesNest ==
  \A j \in Steps : IsBranch(j) => IsRoot(j) \/ \E i \in 1 .. j - 2 : IsChild(j, i) /\ NestedIn(i, j - 1)

(* The roots, in order, are the components the start-face bits are for.    *)
Roots == {j \in Steps : IsRoot(j)}
RootsUpTo(j) == {i \in Roots : i <= j}
RankOf(j) == Cardinality(RootsUpTo(j))
InnerBits(k) == Cardinality({i \in 1 .. k : startFaces[i]})

BitsAreOfRoots ==
  /\ \A j \in Roots :
       /\ RankOf(j) \in DOMAIN startFaces
       /\ startFaces[RankOf(j)] <=> opposite[Walked(j)] # NoCorner
       /\ startFaces[RankOf(j)] =>
            /\ InnerBits(RankOf(j)) \in DOMAIN initFaceCorners
            /\ opposite[Walked(j)] = initFaceCorners[InnerBits(RankOf(j))]
  /\ InnerBits(Len(startFaces)) = Len(initFaceCorners)

(* The walk inside a branch, and the bit that is written before its root.  *)
MidBranch == NumSymbols > 0 /\ symbols[NumSymbols] # "E"
RootAhead == Cardinality(Roots) # Len(startFaces)

LeadsToRoot(c) ==
  /\ c \in AllCorners /\ Face(c) \notin visitedFaces
  /\ IF startFaces[Len(startFaces)]
     THEN initFaceCorners # <<>> /\ opposite[c] = initFaceCorners[Len(initFaceCorners)]
     ELSE opposite[c] = NoCorner

RootIsAhead ==
  RootAhead =>
    /\ phase \in {"branch", "walk"} /\ ~ MidBranch
    /\ Len(startFaces) = Cardinality(Roots) + 1
    /\ Len(cornerTraversalStack) = 1 /\ LeadsToRoot(cornerTraversalStack[1])

(* The corners on the stack, but for that of a branch being walked, are    *)
(* the left sides of S steps, the latest on top.                           *)
WaitsSince(c, i) ==
  i \in Steps /\ symbols[i] = "S" /\ c = LeftOf(i) /\ NestedIn(i, NumSymbols)

Waiting == IF MidBranch THEN Len(cornerTraversalStack) - 1 ELSE Len(cornerTraversalStack)

StackWaits ==
  phase \in {"branch", "walk"} =>
    /\ ~ RootAhead => \A a \in 1 .. Waiting : \E i \in Steps : WaitsSince(cornerTraversalStack[a], i)
    /\ \A a, b \in 1 .. Waiting : \A i, h \in Steps :
         a < b /\ WaitsSince(cornerTraversalStack[a], i) /\ WaitsSince(cornerTraversalStack[b], h)
           => i < h
    /\ MidBranch => cornerTraversalStack # <<>>

WhereItStands ==
  /\ phase = "ready" => ~ MidBranch /\ cornerTraversalStack = <<>>
  /\ phase = "branch" /\ MidBranch =>
       /\ symbols[NumSymbols] = "S"
       /\ cornerTraversalStack[Len(cornerTraversalStack)] = NextStep(NumSymbols)
  /\ phase = "walk" =>
       /\ current = IF MidBranch THEN NextStep(NumSymbols)
                    ELSE cornerTraversalStack[Len(cornerTraversalStack)]
       /\ Face(cornerTraversalStack[Len(cornerTraversalStack)])
            \in visitedFaces \cup {Face(current)}

(* Every gate opens from a visited face, and whatever part of the rest     *)
(* touches the visited faces has a gate.                                   *)
GateCorners ==
  {cornerTraversalStack[a] : a \in DOMAIN cornerTraversalStack}
    \cup (IF phase = "walk" THEN {current} ELSE {})

GatesLeadBack ==
  Walking => \A c \in GateCorners : c \in AllCorners /\ LeadsNowhere(opposite[c], visitedFaces)

KeepsWithin(X, faces) ==
  \A c \in AllCorners : Face(c) \in X => LeadsNowhere(opposite[c], X \cup faces)

Touches(X, faces) ==
  \E c \in AllCorners : Face(c) \in X /\ opposite[c] # NoCorner /\ Face(opposite[c]) \in faces

FrontierHasGates ==
  Walking =>
    \A X \in SUBSET (AllFaces \ visitedFaces) :
       KeepsWithin(X, visitedFaces) /\ Touches(X, visitedFaces)
         => \E c \in GateCorners : Face(c) \in X

InitFacesAreFree ==
  \A c \in AllCorners : Face(c) \in FacesOf(initFaceCorners) => IsFresh(c, FacesOf(initFaceCorners))

MetVertices ==
  Walking =>
    \A v \in visitedVertices :
       vertexHoleID[v] # -1 \/ \E c \in AllCorners : cornerVertex[c] = v /\ Face(c) \in visitedFaces

(* A split event for every edge that leads from a later face back to the   *)
(* face of an S, and for no other.                                         *)
BackTo(i, c) == symbols[i] = "S" /\ c # NoCorner /\ Face(c) = Face(Walked(i))

EventsAreWritten ==
  \A m \in Steps : \A i \in 1 .. m - 1 :
    /\ BackTo(i, RightOf(m)) => \E k \in DOMAIN splitEvents :
         splitEvents[k] = [source |-> m - 1, split |-> i - 1, edge |-> "right"]
    /\ BackTo(i, LeftOf(m)) => \E k \in DOMAIN splitEvents :
         splitEvents[k] = [source |-> m - 1, split |-> i - 1, edge |-> "left"]

IsTrueEvent(e) ==
  LET m == e.source + 1
      i == e.split + 1
  IN  /\ m \in Steps /\ i \in 1 .. m - 1
      /\ e.edge = "right" => BackTo(i, RightOf(m))
      /\ e.edge # "right" => BackTo(i, LeftOf(m))

EventsAreTrue == \A k \in DOMAIN splitEvents : IsTrueEvent(splitEvents[k])

SplitFaces ==
  Walking =>
    /\ lastEncodedSymbolID = NumSymbols - 1
    /\ \A i \in Steps :
         faceToSplitSymbol[Face(Walked(i))] = IF symbols[i] = "S" THEN i - 1 ELSE -1
    /\ \A f \in AllFaces : (\A i \in Steps : f # Face(Walked(i))) => faceToSplitSymbol[f] = -1

(* Vertices: an unvisited part has an open fan at every one of its heads   *)
(* and a closed one at every ring.  Together with the vertices the reader  *)
(* will have made for the faces that are gone, they are all the vertices   *)
(* there are, but for one that every S makes twice.                        *)
Places(s) == {i \in Steps : symbols[i] \in s}
Heads ==
  {c \in AllCorners : Face(c) \notin visitedFaces /\ LeadsNowhere(opposite[NextCorner(c)], visitedFaces)}
Rings ==
  {v \in VertexIDs : /\ vertexHoleID[v] = -1
                     /\ \E c \in AllCorners : cornerVertex[c] = v
                     /\ \A c \in AllCorners : cornerVertex[c] = v => Face(c) \notin visitedFaces}

VerticesAreCounted ==
  /\ Cardinality(Heads) + Cardinality(Rings)
       + Cardinality(Places({"R"})) + Cardinality(Places({"L"})) + 3 * Cardinality(Places({"E"}))
     = Cardinality(StoredVertices) + Cardinality(Places({"S"}))
  /\ numSplitSymbols = Cardinality(Places({"S"}))

OrderIsComplete ==
  phase = "written" =>
    /\ ~ MidBranch
    /\ visitedFaces = AllFaces
    /\ Len(processedCorners) = NumSymbols + Len(initFaceCorners)
    /\ \A q \in DOMAIN initFaceCorners : processedCorners[NumSymbols + q] = initFaceCorners[q]
    /\ numEncodedVertices = Cardinality(StoredVertices)

TraceInv ==
  phase \in WalkPhases =>
    /\ SymbolsFit /\ BranchesNest /\ BitsAreOfRoots
    /\ RootIsAhead /\ StackWaits /\ WhereItStands
    /\ GatesLeadBack /\ FrontierHasGates /\ InitFacesAreFree /\ MetVertices
    /\ EventsAreWritten /\ EventsAreTrue /\ SplitFaces
    /\ VerticesAreCounted /\ OrderIsComplete

-----------------------------------------------------------------------------
(* What a state of the walk is.                                            *)
LEMMA StepsInHand ==
  ASSUME WalkInv, Walking
  PROVE  /\ TableIsReady /\ NumSymbols \in Nat /\ Len(symbols) = NumSymbols
         /\ symbols \in Seq(TopologySymbols) /\ startFaces \in Seq(BOOLEAN)
         /\ processedCorners \in Seq(AllCorners) /\ initFaceCorners \in Seq(AllCorners)
         /\ cornerTraversalStack \in Seq(AllCorners \cup {NoCorner})
         /\ \A i \in Steps :
              /\ Walked(i) = processedCorners[i] /\ Walked(i) \in AllCorners
              /\ symbols[i] \in TopologySymbols
              /\ Face(Walked(i)) \in visitedFaces /\ Face(Walked(i)) \notin FacesOf(initFaceCorners)
              /\ RightOf(i) \in AllCorners \cup {NoCorner}
              /\ LeftOf(i) \in AllCorners \cup {NoCorner}
         /\ \A i, j \in Steps : Face(Walked(i)) = Face(Walked(j)) => i = j
         /\ FacesOf(initFaceCorners) \subseteq visitedFaces
         /\ visitedFaces \subseteq AllFaces
         /\ Old(NumSymbols) = visitedFaces
         /\ \A f \in visitedFaces \ FacesOf(initFaceCorners) : \E i \in Steps : f = Face(Walked(i))
         /\ \A i \in Steps : Old(i) \subseteq visitedFaces
<1>1. /\ TableIsReady /\ phase # "written"
      /\ symbols \in Seq(TopologySymbols) /\ startFaces \in Seq(BOOLEAN)
      /\ processedCorners \in Seq(AllCorners) /\ initFaceCorners \in Seq(AllCorners)
      /\ cornerTraversalStack \in Seq(AllCorners \cup {NoCorner})
  BY DEF WalkInv, TableIsKept, Walking, TraversalTypes, WireTypeOK
<1>2. /\ OncePerFace(processedCorners)
      /\ FacesOf(processedCorners) \cap FacesOf(initFaceCorners) = {}
      /\ FacesOf(processedCorners) \cup FacesOf(initFaceCorners) = visitedFaces
      /\ NumSymbols = Len(processedCorners)
      /\ visitedFaces \subseteq AllFaces
  BY <1>1 DEF WalkInv, FacesAreWalkedOnce, TraversalTypes
<1>3. NumSymbols \in Nat /\ Len(symbols) = NumSymbols /\ Steps = DOMAIN processedCorners /\ Steps = DOMAIN symbols
  BY <1>1, <1>2 DEF NumSymbols, Steps
<1>4. \A i \in Steps : Walked(i) = processedCorners[i]
  BY <1>1 DEF Walked
<1>5. \A i \in Steps :
        /\ Walked(i) \in AllCorners /\ symbols[i] \in TopologySymbols
        /\ Face(Walked(i)) \in FacesOf(processedCorners)
  <2> SUFFICES ASSUME NEW i \in Steps
               PROVE  /\ Walked(i) \in AllCorners /\ symbols[i] \in TopologySymbols
                      /\ Face(Walked(i)) \in FacesOf(processedCorners)
    OBVIOUS
  <2>1. i \in DOMAIN processedCorners /\ i \in DOMAIN symbols /\ Walked(i) = processedCorners[i]
    BY <1>3, <1>4
  <2>2. processedCorners[i] \in AllCorners /\ symbols[i] \in TopologySymbols
    BY <1>1, <2>1
  <2> QED
    BY <2>1, <2>2 DEF FacesOf
<1>6. \A i \in Steps :
        RightOf(i) \in AllCorners \cup {NoCorner} /\ LeftOf(i) \in AllCorners \cup {NoCorner}
  BY <1>1, <1>5, ManifoldCorners DEF RightOf, LeftOf, TableIsReady
<1>7. \A i, j \in Steps : Face(Walked(i)) = Face(Walked(j)) => i = j
  BY <1>2, <1>3, <1>4 DEF OncePerFace
<1>8. FacesOf(processedCorners) = {Face(Walked(j)) : j \in Steps}
  BY <1>3, <1>4 DEF FacesOf
<1>9. Old(NumSymbols) = visitedFaces
  BY <1>2, <1>8 DEF Old, Steps
<1>10. \A i \in Steps : Old(i) \subseteq visitedFaces
  <2> SUFFICES ASSUME NEW i \in Steps PROVE {Face(Walked(j)) : j \in 1 .. i} \subseteq FacesOf(processedCorners)
    BY <1>2 DEF Old
  <2>1. 1 .. i \subseteq Steps
    BY <1>3 DEF Steps
  <2> QED
    BY <1>5, <2>1
<1> QED
  BY <1>1, <1>2, <1>3, <1>4, <1>5, <1>6, <1>7, <1>8, <1>9, <1>10

(* The table does not change once the walk has begun.                      *)
SameTable ==
  /\ AllCorners' = AllCorners /\ AllFaces' = AllFaces /\ VertexIDs' = VertexIDs
  /\ opposite' = opposite /\ cornerVertex' = cornerVertex /\ vertexHoleID' = vertexHoleID
  /\ vertexCorners' = vertexCorners /\ mesh' = mesh
  /\ TableIsReady' /\ TableIsFull' /\ StoredVertices' = StoredVertices
  /\ \A c, F : LeadsNowhere(c, F)' <=> LeadsNowhere(c, F)
  /\ \A c, F : IsFresh(c, F)' <=> IsFresh(c, F)
  /\ \A x, c, F : Fits(x, c, F)' <=> Fits(x, c, F)

(* A step that leaves the base table alone leaves what is read off it      *)
(* alone.                                                                  *)
LEMMA TableIsTheSame ==
  ASSUME TableIsReady, TableIsFull,
         UNCHANGED <<mesh, opposite, cornerVertex, vertexCorners, vertexHoleID, numHoles>>
  PROVE  SameTable
<1>1. /\ TableIsReady' /\ AllCorners' = AllCorners /\ AllFaces' = AllFaces /\ VertexIDs' = VertexIDs
  BY TableStaysReady
<1>2. StoredVertices' = StoredVertices
  BY <1>1 DEF StoredVertices
<1>3. TableIsFull'
  BY <1>1, <1>2 DEF TableIsFull
<1>4. \A c, F : LeadsNowhere(c, F)' <=> LeadsNowhere(c, F)
  BY DEF LeadsNowhere
<1>5. \A c : Around(c)' = Around(c)
  BY <1>1 DEF Around
<1>6. \A c, F : IsFresh(c, F)' <=> IsFresh(c, F)
  BY <1>5 DEF IsFresh
<1>7. \A x, c, F : Fits(x, c, F)' <=> Fits(x, c, F)
  BY <1>4, <1>6 DEF Fits
<1> QED
  BY <1>1, <1>2, <1>3, <1>4, <1>6, <1>7 DEF SameTable

(* What one more symbol changes of the walk.                               *)
LEMMA StepTaken ==
  ASSUME WalkInv, WalkInv', TableIsFull, NEW x \in TopologySymbols, ReachCorner(x),
         NEW k, k = NumSymbols + 1, phase' \in {"branch", "walk"}
  PROVE  /\ SameTable /\ Walking /\ Walking'
         /\ NumSymbols \in Nat /\ NumSymbols' = k /\ k \notin Steps
         /\ Steps' = Steps \cup {k}
         /\ initFaceCorners' = initFaceCorners /\ startFaces' = startFaces
         /\ FacesOf(initFaceCorners)' = FacesOf(initFaceCorners)
         /\ visitedFaces' = visitedFaces \cup {Face(current)}
         /\ current \in AllCorners /\ Face(current) \notin visitedFaces
         /\ \A i \in Steps :
              /\ Walked(i)' = Walked(i) /\ symbols'[i] = symbols[i]
              /\ RightOf(i)' = RightOf(i) /\ LeftOf(i)' = LeftOf(i) /\ NextStep(i)' = NextStep(i)
              /\ Old(i)' = Old(i)
         /\ Walked(k)' = current /\ symbols'[k] = x
         /\ RightOf(k)' = RightOfCurrent /\ LeftOf(k)' = LeftOfCurrent
         /\ RightOfCurrent = opposite[NextCorner(current)]
         /\ LeftOfCurrent = opposite[PreviousCorner(current)]
         /\ Old(k)' = visitedFaces'
<1>1. /\ phase = "walk" /\ Walking /\ Walking' /\ phase' # "written" /\ phase # "written"
      /\ visitedFaces' = visitedFaces \cup {Face(current)}
      /\ processedCorners' = Append(processedCorners, current)
      /\ symbols' = Append(symbols, x)
      /\ UNCHANGED <<mesh, opposite, cornerVertex, vertexCorners, vertexHoleID, numHoles,
                     initFaceCorners, startFaces>>
  BY DEF ReachCorner, UnchangedOutsideTraversal, tableVars, Walking
<1>2. /\ SameTable /\ TableIsReady
  BY <1>1, StepsInHand, TableIsTheSame
<1>3. current \in AllCorners /\ Face(current) \notin visitedFaces
  BY <1>1 DEF WalkInv, GatesAreVisited, CurrentFaceIsFresh
<1>4. /\ NumSymbols \in Nat /\ Len(symbols) = NumSymbols /\ Len(processedCorners) = NumSymbols
      /\ symbols \in Seq(TopologySymbols) /\ processedCorners \in Seq(AllCorners)
  BY <1>1, StepsInHand DEF WalkInv, FacesAreWalkedOnce
<1>5. NumSymbols' = k /\ Steps' = Steps \cup {k} /\ k \notin Steps
  BY <1>1, <1>4 DEF NumSymbols, Steps
<1>6. \A i \in Steps : Walked(i)' = Walked(i) /\ symbols'[i] = symbols[i]
  <2> SUFFICES ASSUME NEW i \in Steps PROVE Walked(i)' = Walked(i) /\ symbols'[i] = symbols[i]
    OBVIOUS
  <2>1. i \in 1 .. Len(processedCorners) /\ i \in 1 .. Len(symbols)
    BY <1>4 DEF Steps
  <2>2. processedCorners'[i] = processedCorners[i] /\ symbols'[i] = symbols[i]
    BY <1>1, <1>4, <2>1
  <2> QED
    BY <1>1, <2>2 DEF Walked
<1>7. Walked(k)' = current /\ symbols'[k] = x
  <2>1. processedCorners'[k] = current /\ symbols'[k] = x
    BY <1>1, <1>4
  <2> QED
    BY <1>1, <2>1 DEF Walked
<1>8. /\ RightOfCurrent = opposite[NextCorner(current)]
      /\ LeftOfCurrent = opposite[PreviousCorner(current)]
  BY <1>2, <1>3, ManifoldCorners DEF RightOfCurrent, LeftOfCurrent, TableIsReady
<1>9. \A i \in Steps :
        RightOf(i)' = RightOf(i) /\ LeftOf(i)' = LeftOf(i) /\ NextStep(i)' = NextStep(i)
  BY <1>1, <1>6 DEF RightOf, LeftOf, NextStep
<1>11. \A i \in Steps : Old(i)' = Old(i)
  <2> SUFFICES ASSUME NEW i \in Steps PROVE Old(i)' = Old(i)
    OBVIOUS
  <2>1. \A j \in 1 .. i : j \in Steps
    BY <1>4 DEF Steps
  <2>2. \A j \in 1 .. i : Walked(j)' = Walked(j)
    BY <1>6, <2>1
  <2> QED
    BY <1>1, <2>2 DEF Old, FacesOf
<1>12. RightOf(k)' = RightOfCurrent /\ LeftOf(k)' = LeftOfCurrent
  BY <1>1, <1>7, <1>8 DEF RightOf, LeftOf
<1>13. Old(k)' = visitedFaces'
  <2>1. 1 .. k = Steps \cup {k} /\ 1 .. NumSymbols = Steps
    BY <1>4 DEF Steps
  <2>2. {Face(Walked(j))' : j \in 1 .. k} = {Face(Walked(j)) : j \in Steps} \cup {Face(current)}
    BY <1>6, <1>7, <2>1
  <2>3. FacesOf(initFaceCorners)' = FacesOf(initFaceCorners)
    BY <1>1 DEF FacesOf
  <2>4. visitedFaces = {Face(Walked(j)) : j \in Steps} \cup FacesOf(initFaceCorners)
    BY <1>1, <2>1, StepsInHand DEF Old
  <2> QED
    BY <1>1, <2>2, <2>3, <2>4 DEF Old
<1> QED
  BY <1>1, <1>2, <1>3, <1>4, <1>5, <1>6, <1>7, <1>8, <1>9, <1>11, <1>12, <1>13

(* A symbol x is written as step k, and says what it should of its face.   *)
Taken(x, k) ==
  /\ WalkInv /\ WalkInv' /\ TableIsFull /\ TraceInv
  /\ x \in TopologySymbols /\ k = NumSymbols + 1
  /\ ReachCorner(x) /\ phase' \in {"branch", "walk"}
  /\ Fits(x, current, visitedFaces')

(* What the trace says before a symbol is written.                         *)
LEMMA TraceAtStep ==
  ASSUME NEW x, NEW k, Taken(x, k)
  PROVE  /\ SymbolsFit /\ BranchesNest /\ BitsAreOfRoots
         /\ RootIsAhead /\ StackWaits /\ WhereItStands
         /\ GatesLeadBack /\ FrontierHasGates /\ InitFacesAreFree /\ MetVertices
         /\ EventsAreWritten /\ EventsAreTrue /\ SplitFaces
         /\ VerticesAreCounted
         /\ phase = "walk" /\ Walking /\ Walking' /\ phase' # "written" /\ phase' # "ready"
         /\ TableIsReady /\ TableIsFull /\ TableIsManifold
         /\ cornerTraversalStack \in Seq(AllCorners \cup {NoCorner}) /\ cornerTraversalStack # <<>>
         /\ Len(cornerTraversalStack) \in Nat /\ Len(cornerTraversalStack) >= 1
<1>1. phase = "walk" /\ Walking /\ Walking' /\ phase' # "written" /\ phase' # "ready"
  BY DEF Taken, ReachCorner, Walking
<1>2. cornerTraversalStack \in Seq(AllCorners \cup {NoCorner}) /\ cornerTraversalStack # <<>>
  BY <1>1 DEF Taken, WalkInv, GatesAreVisited, TraversalTypes
<1>3. TableIsReady /\ TableIsManifold
  BY <1>1, StepsInHand DEF Taken, TableIsReady
<1>4. Len(cornerTraversalStack) \in Nat /\ Len(cornerTraversalStack) >= 1
  BY <1>2
<1> QED
  BY <1>1, <1>2, <1>3, <1>4 DEF Taken, TraceInv, WalkPhases

(* Writing a symbol adds a step, and changes none that was there.          *)
LEMMA StepAdded ==
  ASSUME NEW x, NEW k, Taken(x, k)
  PROVE  /\ SameTable /\ NumSymbols \in Nat /\ k = NumSymbols + 1 /\ NumSymbols' = k
         /\ k \notin Steps /\ Steps' = Steps \cup {k} /\ Steps = 1 .. NumSymbols
         /\ initFaceCorners' = initFaceCorners /\ startFaces' = startFaces
         /\ FacesOf(initFaceCorners)' = FacesOf(initFaceCorners)
         /\ visitedFaces' = visitedFaces \cup {Face(current)}
         /\ current \in AllCorners /\ Face(current) \notin visitedFaces
         /\ \A i \in Steps :
              /\ Walked(i)' = Walked(i) /\ symbols'[i] = symbols[i]
              /\ RightOf(i)' = RightOf(i) /\ LeftOf(i)' = LeftOf(i) /\ NextStep(i)' = NextStep(i)
              /\ Old(i)' = Old(i) /\ Old(i) \subseteq visitedFaces
              /\ Walked(i) \in AllCorners /\ Face(Walked(i)) \in visitedFaces
              /\ Face(Walked(i)) \notin FacesOf(initFaceCorners) /\ i \in Nat /\ i <= NumSymbols
              /\ RightOf(i) \in AllCorners \cup {NoCorner} /\ LeftOf(i) \in AllCorners \cup {NoCorner}
         /\ \A i, j \in Steps : Face(Walked(i)) = Face(Walked(j)) => i = j
         /\ FacesOf(initFaceCorners) \subseteq visitedFaces
         /\ Walked(k)' = current /\ symbols'[k] = x
         /\ RightOf(k)' = RightOfCurrent /\ LeftOf(k)' = LeftOfCurrent
         /\ RightOfCurrent = opposite[NextCorner(current)]
         /\ LeftOfCurrent = opposite[PreviousCorner(current)]
         /\ Old(k)' = visitedFaces' /\ Old(NumSymbols) = visitedFaces
         /\ x \in {"R", "E"} <=> LeadsNowhere(RightOfCurrent, visitedFaces')
         /\ x \in {"L", "E"} <=> LeadsNowhere(LeftOfCurrent, visitedFaces')
<1>1. /\ WalkInv /\ WalkInv' /\ TableIsFull /\ x \in TopologySymbols /\ ReachCorner(x)
      /\ k = NumSymbols + 1 /\ phase' \in {"branch", "walk"} /\ Walking
      /\ Fits(x, current, visitedFaces')
  BY TraceAtStep DEF Taken
<1>2. Steps = 1 .. NumSymbols
  BY DEF Steps
<1>3. \A i \in Steps :
        /\ Old(i) \subseteq visitedFaces
        /\ Walked(i) \in AllCorners /\ Face(Walked(i)) \in visitedFaces
        /\ Face(Walked(i)) \notin FacesOf(initFaceCorners)
        /\ RightOf(i) \in AllCorners \cup {NoCorner} /\ LeftOf(i) \in AllCorners \cup {NoCorner}
  BY <1>1, StepsInHand
<1>4. NumSymbols \in Nat
  BY <1>1, StepsInHand
<1>5. \A i \in Steps : i \in Nat /\ i <= NumSymbols
  BY <1>2, <1>4
<1>6. /\ RightOfCurrent = opposite[NextCorner(current)]
      /\ LeftOfCurrent = opposite[PreviousCorner(current)]
  BY <1>1, StepTaken
<1>7. /\ x \in {"R", "E"} <=> LeadsNowhere(RightOfCurrent, visitedFaces')
      /\ x \in {"L", "E"} <=> LeadsNowhere(LeftOfCurrent, visitedFaces')
  BY <1>1, <1>6 DEF Fits
<1>8. \A i, j \in Steps : Face(Walked(i)) = Face(Walked(j)) => i = j
  BY <1>1, StepsInHand
<1>9. FacesOf(initFaceCorners) \subseteq visitedFaces /\ Old(NumSymbols) = visitedFaces
  BY <1>1, StepsInHand
<1> QED
  BY <1>1, <1>2, <1>3, <1>4, <1>5, <1>6, <1>7, <1>8, <1>9, StepTaken

(* Across an edge and back.                                                *)
LEMMA LeftAndBack ==
  ASSUME TableIsReady, NEW c \in AllCorners, NEW d \in AllCorners
  PROVE  /\ d = opposite[PreviousCorner(c)] => opposite[d] = PreviousCorner(c)
         /\ d = opposite[NextCorner(c)] => opposite[d] = NextCorner(c)
         /\ d = opposite[PreviousCorner(c)] =>
              \A e \in AllCorners : d = opposite[PreviousCorner(e)] => e = c
         /\ d = opposite[NextCorner(c)] =>
              \A e \in AllCorners : d = opposite[NextCorner(e)] => e = c
<1>1. ASSUME NEW e \in AllCorners
      PROVE  /\ PreviousCorner(e) \in AllCorners /\ NextCorner(e) \in AllCorners
             /\ NextCorner(PreviousCorner(e)) = e /\ PreviousCorner(NextCorner(e)) = e
  BY TableInUse, ManifoldCorners
<1>2. ASSUME NEW e \in AllCorners
      PROVE  /\ d = opposite[PreviousCorner(e)] => opposite[d] = PreviousCorner(e)
             /\ d = opposite[NextCorner(e)] => opposite[d] = NextCorner(e)
  BY <1>1, TableInUse
<1>3. ASSUME NEW e \in AllCorners
      PROVE  /\ PreviousCorner(e) = PreviousCorner(c) => e = c
             /\ NextCorner(e) = NextCorner(c) => e = c
  BY <1>1
<1> QED
  BY <1>2, <1>3

(* Which steps begin a branch: the new one does when the walk was not in   *)
(* the middle of one.                                                      *)
LEMMA BranchesAtStep ==
  ASSUME NEW x, NEW k, Taken(x, k)
  PROVE  /\ \A j \in Steps : IsBranch(j)' <=> IsBranch(j)
         /\ IsBranch(k)' <=> ~ MidBranch
         /\ \A j, i \in Steps : IsChild(j, i)' <=> IsChild(j, i)
         /\ \A i \in Steps : IsChild(k, i)' <=> symbols[i] = "S" /\ current = LeftOf(i)
         /\ \A j \in Steps : IsRoot(j)' <=> IsRoot(j)
         /\ IsRoot(k)' <=> ~ MidBranch /\ LeadsNowhere(opposite[current], FacesOf(initFaceCorners))
         /\ \A j \in Steps : ~ IsChild(j, k)'
<1>1. \A j \in Steps : j # 1 => j - 1 \in Steps
  BY StepAdded
<1>2. \A j \in Steps : IsBranch(j)' <=> IsBranch(j)
  BY <1>1, StepAdded DEF IsBranch
<1>3. IsBranch(k)' <=> ~ MidBranch
  <2>1. k \in Steps' /\ (k = 1 <=> ~ NumSymbols > 0) /\ k - 1 = NumSymbols
    BY StepAdded
  <2>2. NumSymbols > 0 => NumSymbols \in Steps
    BY StepAdded
  <2> QED
    BY <2>1, <2>2, StepAdded DEF IsBranch, MidBranch
<1>4. \A j, i \in Steps : IsChild(j, i)' <=> IsChild(j, i)
  BY StepAdded DEF IsChild
<1>5. \A i \in Steps : IsChild(k, i)' <=> symbols[i] = "S" /\ current = LeftOf(i)
  BY StepAdded DEF IsChild
<1>6. \A j \in Steps : IsRoot(j)' <=> IsRoot(j)
  BY <1>2, StepAdded DEF IsRoot, SameTable, LeadsNowhere
<1>7. IsRoot(k)' <=> ~ MidBranch /\ LeadsNowhere(opposite[current], FacesOf(initFaceCorners))
  BY <1>3, StepAdded DEF IsRoot, SameTable, LeadsNowhere
<1>8. ASSUME NEW j \in Steps, IsChild(j, k)' PROVE FALSE
  <2>1. x = "S" /\ Walked(j) = LeftOfCurrent
    BY <1>8, StepAdded DEF IsChild
  <2>2. ~ LeadsNowhere(LeftOfCurrent, visitedFaces')
    BY <2>1, StepAdded
  <2> QED
    BY <2>1, <2>2, StepAdded DEF LeadsNowhere
<1> QED
  BY <1>2, <1>3, <1>4, <1>5, <1>6, <1>7, <1>8

(* The symbol written says which sides of its face lead on.                *)
LEMMA StepFits ==
  ASSUME NEW x, NEW k, Taken(x, k)
  PROVE  SymbolsFit'
<1>1. ASSUME NEW i \in Steps' PROVE Fits(symbols[i], Walked(i), Old(i))'
  <2>1. CASE i \in Steps
    <3>1. Fits(symbols[i], Walked(i), Old(i))
      BY <2>1, TraceAtStep DEF SymbolsFit
    <3> QED
      BY <2>1, <3>1, StepAdded DEF SameTable, Fits, LeadsNowhere, IsFresh, Around
  <2>2. CASE i = k
    <3>1. Fits(x, current, visitedFaces')
      BY DEF Taken
    <3> QED
      BY <2>2, <3>1, StepAdded DEF SameTable, Fits, LeadsNowhere, IsFresh, Around
  <2> QED
    BY <2>1, <2>2, StepAdded
<1>2. ASSUME NEW i \in Steps', i < NumSymbols', symbols'[i] # "E"
      PROVE  Walked(i + 1)' = NextStep(i)'
  <2>1. i \in Steps /\ i <= NumSymbols
    BY <1>2, StepAdded
  <2>2. symbols[i] # "E" /\ NextStep(i)' = NextStep(i)
    BY <1>2, <2>1, StepAdded
  <2>3. CASE i < NumSymbols
    <3>1. i + 1 \in Steps
      BY <2>1, <2>3, StepAdded
    <3>2. Walked(i + 1) = NextStep(i)
      BY <2>1, <2>2, <2>3, TraceAtStep DEF SymbolsFit
    <3> QED
      BY <2>2, <3>1, <3>2, StepAdded
  <2>4. CASE i = NumSymbols
    <3>1. MidBranch /\ i + 1 = k
      BY <2>1, <2>2, <2>4, StepAdded DEF MidBranch
    <3>2. current = NextStep(NumSymbols)
      BY <3>1, TraceAtStep DEF WhereItStands
    <3> QED
      BY <2>2, <2>4, <3>1, <3>2, StepAdded
  <2> QED
    BY <2>1, <2>3, <2>4, StepAdded
<1> QED
  BY <1>1, <1>2 DEF SymbolsFit

(* The part of the stack that stays, and the branch the step may begin.    *)
LEMMA StackAtStep ==
  ASSUME NEW x, NEW k, Taken(x, k)
  PROVE  LET L == Len(cornerTraversalStack)
             st == cornerTraversalStack
         IN  /\ \A a \in 1 .. L - 1 : \E i \in Steps : WaitsSince(st[a], i)
             /\ \A a, b \in 1 .. L - 1 : \A i, h \in Steps :
                  a < b /\ WaitsSince(st[a], i) /\ WaitsSince(st[b], h) => i < h
             /\ ~ MidBranch => current = st[L]
             /\ ~ MidBranch /\ ~ RootAhead => \E i \in Steps : WaitsSince(current, i)
             /\ ~ MidBranch /\ ~ RootAhead => \A a \in 1 .. L - 1 : \A i, h \in Steps :
                  WaitsSince(st[a], i) /\ WaitsSince(current, h) => i < h
             /\ RootAhead => ~ MidBranch /\ L = 1 /\ LeadsToRoot(current)
                             /\ Len(startFaces) = Cardinality(Roots) + 1
<1> DEFINE L == Len(cornerTraversalStack)
<1>1. L \in Nat /\ L >= 1 /\ phase = "walk"
  BY TraceAtStep
<1>2. RootAhead => ~ MidBranch /\ L = 1 /\ LeadsToRoot(cornerTraversalStack[1])
                   /\ Len(startFaces) = Cardinality(Roots) + 1
  BY TraceAtStep DEF RootIsAhead
<1>3. ~ MidBranch => current = cornerTraversalStack[L]
  BY <1>1, TraceAtStep DEF WhereItStands
<1>4. Waiting = IF MidBranch THEN L - 1 ELSE L
  BY DEF Waiting
<1>5. /\ ~ RootAhead => \A a \in 1 .. Waiting : \E i \in Steps : WaitsSince(cornerTraversalStack[a], i)
      /\ \A a, b \in 1 .. Waiting : \A i, h \in Steps :
           a < b /\ WaitsSince(cornerTraversalStack[a], i) /\ WaitsSince(cornerTraversalStack[b], h)
             => i < h
  BY <1>1, TraceAtStep DEF StackWaits
<1> HIDE DEF L
<1>6. 1 .. L - 1 \subseteq 1 .. Waiting
  BY <1>1, <1>4
<1>7. ~ MidBranch => L \in 1 .. Waiting
  BY <1>1, <1>4
<1>8. L = 1 => 1 .. L - 1 = {}
  BY <1>1
<1>9. \A a \in 1 .. L - 1 : a < L
  BY <1>1
<1>10. \A a \in 1 .. L - 1 : \E i \in Steps : WaitsSince(cornerTraversalStack[a], i)
  BY <1>2, <1>5, <1>6, <1>8
<1>11. \A a, b \in 1 .. L - 1 : \A i, h \in Steps :
         a < b /\ WaitsSince(cornerTraversalStack[a], i) /\ WaitsSince(cornerTraversalStack[b], h) => i < h
  BY <1>5, <1>6
<1>12. ~ MidBranch /\ ~ RootAhead => \E i \in Steps : WaitsSince(current, i)
  BY <1>3, <1>5, <1>7
<1>13. ~ MidBranch => \A a \in 1 .. L - 1 : \A i, h \in Steps :
         WaitsSince(cornerTraversalStack[a], i) /\ WaitsSince(current, h) => i < h
  BY <1>3, <1>5, <1>6, <1>7, <1>9
<1> QED
  BY <1>2, <1>3, <1>10, <1>11, <1>12, <1>13 DEF L

(* The left side of an S is never at an interior start face.               *)
LEMMA NoRootIsLeft ==
  ASSUME NEW x, NEW k, Taken(x, k), NEW i \in Steps, WaitsSince(current, i)
  PROVE  ~ LeadsNowhere(opposite[current], FacesOf(initFaceCorners))
<1>1. current = LeftOf(i)
  BY DEF WaitsSince
<1>2. Walked(i) \in AllCorners /\ current \in AllCorners /\ Face(Walked(i)) \notin FacesOf(initFaceCorners)
  BY StepAdded
<1>3. opposite[current] = PreviousCorner(Walked(i))
  BY <1>1, <1>2, TraceAtStep, LeftAndBack DEF LeftOf
<1> QED
  BY <1>2, <1>3, TraceAtStep, ManifoldCorners DEF LeadsNowhere

(* The branches stay nested, as the stack opens and closes them.           *)
LEMMA StepNests ==
  ASSUME NEW x, NEW k, Taken(x, k)
  PROVE  BranchesNest'
<1>1. ASSUME NEW i \in Steps, NEW m \in 0 .. NumSymbols, NestedIn(i, m)
      PROVE  NestedIn(i, m)'
  <2>1. ASSUME NEW b \in i + 2 .. m, IsBranch(b)' PROVE \E h \in i + 1 .. k : IsChild(b, h)'
    <3>1. b \in Steps
      BY StepAdded
    <3>2. PICK h \in i + 1 .. NumSymbols : IsChild(b, h)
      BY <1>1, <2>1, <3>1, BranchesAtStep DEF NestedIn
    <3>3. h \in Steps /\ h \in i + 1 .. k
      BY StepAdded
    <3> QED
      BY <3>1, <3>2, <3>3, BranchesAtStep
  <2>2. NumSymbols' = k
    BY StepAdded
  <2> QED
    BY <2>1, <2>2 DEF NestedIn
<1>2. ASSUME NEW j \in Steps, IsBranch(j)', ~ IsRoot(j)'
      PROVE  \E i \in 1 .. j - 2 : IsChild(j, i)' /\ NestedIn(i, j - 1)'
  <2>1. PICK i \in 1 .. j - 2 : IsChild(j, i) /\ NestedIn(i, j - 1)
    BY <1>2, BranchesAtStep, TraceAtStep DEF BranchesNest
  <2>2. i \in Steps /\ j - 1 \in 0 .. NumSymbols
    BY StepAdded
  <2> QED
    BY <1>1, <2>1, <2>2, BranchesAtStep
<1>3. ASSUME IsBranch(k)', ~ IsRoot(k)'
      PROVE  \E i \in 1 .. k - 2 : IsChild(k, i)' /\ NestedIn(i, k - 1)'
  <2>1. ~ MidBranch /\ ~ LeadsNowhere(opposite[current], FacesOf(initFaceCorners))
    BY <1>3, BranchesAtStep
  <2>2. ~ RootAhead
    <3>1. ASSUME RootAhead PROVE LeadsNowhere(opposite[current], FacesOf(initFaceCorners))
      <4>1. LeadsToRoot(current)
        BY <3>1, StackAtStep
      <4>2. ASSUME initFaceCorners # <<>>
            PROVE  Face(initFaceCorners[Len(initFaceCorners)]) \in FacesOf(initFaceCorners)
        <5>1. initFaceCorners \in Seq(AllCorners)
          BY TraceAtStep, StepsInHand DEF Taken
        <5>2. Len(initFaceCorners) \in DOMAIN initFaceCorners
          BY <4>2, <5>1
        <5> QED
          BY <5>2 DEF FacesOf
      <4> QED
        BY <4>1, <4>2 DEF LeadsToRoot, LeadsNowhere
    <3> QED
      BY <2>1, <3>1
  <2>3. PICK i \in Steps : WaitsSince(current, i)
    BY <2>1, <2>2, StackAtStep
  <2>4. IsChild(k, i)' /\ NestedIn(i, NumSymbols) /\ symbols[i] = "S"
    BY <2>3, BranchesAtStep DEF WaitsSince
  <2>5. i # NumSymbols /\ i \in Nat /\ i >= 1 /\ i <= NumSymbols
    BY <2>1, <2>4, StepAdded DEF MidBranch
  <2>6. i \in 1 .. k - 2 /\ k - 1 = NumSymbols /\ NumSymbols \in 0 .. NumSymbols
    BY <2>5, StepAdded
  <2>7. NestedIn(i, k - 1)'
    <3>1. NestedIn(i, k - 1)
      BY <2>4, <2>6
    <3> QED
      BY <1>1, <2>6, <3>1
  <2> QED
    BY <2>4, <2>6, <2>7
<1> QED
  BY <1>2, <1>3, StepAdded DEF BranchesNest

(* A new root is ranked by the start bits written so far.                  *)
LEMMA RootsAtStep ==
  ASSUME NEW x, NEW k, Taken(x, k)
  PROVE  /\ Roots' = Roots \cup (IF RootAhead THEN {k} ELSE {})
         /\ Roots \subseteq Steps /\ IsFiniteSet(Roots) /\ Cardinality(Roots) \in Nat
         /\ Cardinality(Roots') = Len(startFaces)
         /\ \A j \in Roots : RankOf(j)' = RankOf(j)
         /\ RootAhead => RankOf(k)' = Len(startFaces)
<1>1. Roots \subseteq Steps
  BY DEF Roots
<1>2. IsFiniteSet(Steps) /\ IsFiniteSet(Roots) /\ Cardinality(Roots) \in Nat
  <2>1. IsFiniteSet(1 .. NumSymbols)
    BY StepAdded, FS_Interval
  <2>2. IsFiniteSet(Steps)
    BY <2>1 DEF Steps
  <2> QED
    BY <1>1, <2>2, FS_Subset, FS_CardinalityType
<1>3. IsRoot(k)' <=> RootAhead
  <2>1. ASSUME RootAhead PROVE ~ MidBranch /\ LeadsNowhere(opposite[current], FacesOf(initFaceCorners))
    <3>1. LeadsToRoot(current) /\ ~ MidBranch
      BY <2>1, StackAtStep
    <3>2. ASSUME initFaceCorners # <<>>
          PROVE  Face(initFaceCorners[Len(initFaceCorners)]) \in FacesOf(initFaceCorners)
      <4>1. initFaceCorners \in Seq(AllCorners)
        BY TraceAtStep, StepsInHand DEF Taken
      <4>2. Len(initFaceCorners) \in DOMAIN initFaceCorners
        BY <3>2, <4>1
      <4> QED
        BY <4>2 DEF FacesOf
    <3> QED
      BY <3>1, <3>2 DEF LeadsToRoot, LeadsNowhere
  <2>2. ASSUME ~ RootAhead, ~ MidBranch PROVE ~ LeadsNowhere(opposite[current], FacesOf(initFaceCorners))
    <3>1. PICK i \in Steps : WaitsSince(current, i)
      BY <2>2, StackAtStep
    <3> QED
      BY <3>1, NoRootIsLeft
  <2> QED
    BY <2>1, <2>2, BranchesAtStep
<1>4. Roots' = Roots \cup (IF RootAhead THEN {k} ELSE {})
  <2>1. Roots' = {j \in Steps' : IsRoot(j)'}
    BY DEF Roots
  <2>2. \A j \in Steps' : IsRoot(j)' <=> j \in Roots \/ (j = k /\ RootAhead)
    BY <1>3, StepAdded, BranchesAtStep DEF Roots
  <2>3. Roots \cup (IF RootAhead THEN {k} ELSE {}) \subseteq Steps'
    BY <1>1, StepAdded
  <2> QED
    BY <2>1, <2>2, <2>3
<1>5. Cardinality(Roots') = Len(startFaces)
  <2>1. CASE RootAhead
    <3>1. k \notin Roots /\ Len(startFaces) = Cardinality(Roots) + 1
      BY <1>1, <2>1, StepAdded, StackAtStep
    <3>2. Cardinality(Roots \cup {k}) = Cardinality(Roots) + 1
      BY <1>2, <3>1, FS_AddElement
    <3> QED
      BY <1>4, <2>1, <3>1, <3>2
  <2>2. CASE ~ RootAhead
    BY <1>4, <2>2 DEF RootAhead
  <2> QED
    BY <2>1, <2>2
<1>6. \A j \in Roots : RankOf(j)' = RankOf(j)
  <2> SUFFICES ASSUME NEW j \in Roots PROVE RankOf(j)' = RankOf(j)
    OBVIOUS
  <2>1. ~ (k <= j)
    BY <1>1, StepAdded
  <2>2. {i \in Roots' : i <= j} = {i \in Roots : i <= j}
    BY <1>4, <2>1
  <2> QED
    BY <2>2 DEF RankOf, RootsUpTo
<1>7. RootAhead => RankOf(k)' = Len(startFaces)
  <2>1. \A i \in Steps : i <= k
    BY StepAdded
  <2>2. k <= k
    BY StepAdded
  <2>3. RootAhead => {i \in Roots' : i <= k} = Roots'
    BY <1>1, <1>4, <2>1, <2>2
  <2> QED
    BY <1>5, <2>3 DEF RankOf, RootsUpTo
<1> QED
  BY <1>1, <1>2, <1>4, <1>5, <1>6, <1>7

(* The start bit of a component is that of its root.                       *)
LEMMA StepBits ==
  ASSUME NEW x, NEW k, Taken(x, k)
  PROVE  BitsAreOfRoots' /\ RootIsAhead' /\ ~ RootAhead'
<1>1. startFaces' = startFaces
  BY StepAdded
<1>2. ASSUME NEW j \in Roots
      PROVE  /\ RankOf(j)' \in DOMAIN startFaces'
             /\ startFaces'[RankOf(j)'] <=> opposite'[Walked(j)'] # NoCorner
             /\ startFaces'[RankOf(j)'] =>
                  /\ InnerBits(RankOf(j))' \in DOMAIN initFaceCorners'
                  /\ opposite'[Walked(j)'] = initFaceCorners'[InnerBits(RankOf(j))']
  <2>1. j \in Steps
    BY DEF Roots
  <2>2. RankOf(j)' = RankOf(j) /\ Walked(j)' = Walked(j)
    BY <2>1, StepAdded, RootsAtStep
  <2>3. InnerBits(RankOf(j))' = InnerBits(RankOf(j))
    BY <1>1, <2>2 DEF InnerBits
  <2>4. /\ RankOf(j) \in DOMAIN startFaces
        /\ startFaces[RankOf(j)] <=> opposite[Walked(j)] # NoCorner
        /\ startFaces[RankOf(j)] =>
             /\ InnerBits(RankOf(j)) \in DOMAIN initFaceCorners
             /\ opposite[Walked(j)] = initFaceCorners[InnerBits(RankOf(j))]
    BY TraceAtStep DEF BitsAreOfRoots
  <2>5. opposite' = opposite /\ startFaces' = startFaces /\ initFaceCorners' = initFaceCorners
    BY StepAdded DEF SameTable
  <2> QED
    BY <2>2, <2>3, <2>4, <2>5
<1>3. ASSUME RootAhead
      PROVE  /\ RankOf(k)' \in DOMAIN startFaces'
             /\ startFaces'[RankOf(k)'] <=> opposite'[Walked(k)'] # NoCorner
             /\ startFaces'[RankOf(k)'] =>
                  /\ InnerBits(RankOf(k))' \in DOMAIN initFaceCorners'
                  /\ opposite'[Walked(k)'] = initFaceCorners'[InnerBits(RankOf(k))']
  <2>1. RankOf(k)' = Len(startFaces) /\ Walked(k)' = current
    BY <1>3, StepAdded, RootsAtStep
  <2>2. LeadsToRoot(current) /\ Len(startFaces) = Cardinality(Roots) + 1
    BY <1>3, StackAtStep
  <2>3. startFaces \in Seq(BOOLEAN) /\ initFaceCorners \in Seq(AllCorners) /\ TableIsReady
    BY TraceAtStep, StepsInHand DEF Taken
  <2>4. Len(startFaces) \in DOMAIN startFaces
    BY <2>2, <2>3, RootsAtStep
  <2>5. InnerBits(RankOf(k))' = Len(initFaceCorners)
    BY <2>1, StepAdded, TraceAtStep DEF InnerBits, BitsAreOfRoots
  <2>6. initFaceCorners # <<>> =>
          /\ Len(initFaceCorners) \in DOMAIN initFaceCorners
          /\ initFaceCorners[Len(initFaceCorners)] # NoCorner
    <3>1. initFaceCorners # <<>> => Len(initFaceCorners) \in DOMAIN initFaceCorners
      BY <2>3
    <3> QED
      BY <2>3, <3>1, TableInUse
  <2>7. opposite' = opposite /\ startFaces' = startFaces /\ initFaceCorners' = initFaceCorners
    BY StepAdded DEF SameTable
  <2> QED
    BY <2>1, <2>2, <2>4, <2>5, <2>6, <2>7 DEF LeadsToRoot
<1>4. InnerBits(Len(startFaces))' = Len(initFaceCorners')
  BY StepAdded, TraceAtStep DEF InnerBits, BitsAreOfRoots
<1>5. BitsAreOfRoots'
  BY <1>2, <1>3, <1>4, RootsAtStep DEF BitsAreOfRoots
<1>6. ~ RootAhead'
  BY RootsAtStep, StepAdded DEF RootAhead
<1> QED
  BY <1>5, <1>6 DEF RootIsAhead

(* What waits on the stack keeps waiting, but for what is taken up now.    *)
LEMMA WaitingAtStep ==
  ASSUME NEW x, NEW k, Taken(x, k)
  PROVE  /\ \A c : \A i \in Steps : WaitsSince(c, i)' => WaitsSince(c, i)
         /\ \A c : \A i \in Steps :
              WaitsSince(c, i) /\ (MidBranch \/ \E h \in Steps : WaitsSince(current, h) /\ i < h)
                => WaitsSince(c, i)'
         /\ \A c : WaitsSince(c, k)' <=> x = "S" /\ c = LeftOfCurrent
         /\ \A c : \A i \in Steps : WaitsSince(c, i) => ~ WaitsSince(c, k)'
<1>1. ASSUME NEW c, NEW i \in Steps, WaitsSince(c, i)' PROVE WaitsSince(c, i)
  <2>1. symbols[i] = "S" /\ c = LeftOf(i) /\ NestedIn(i, k)'
    BY <1>1, StepAdded DEF WaitsSince, NestedIn
  <2>2. ASSUME NEW b \in i + 2 .. NumSymbols, IsBranch(b)
        PROVE  \E h \in i + 1 .. NumSymbols : IsChild(b, h)
    <3>1. b \in Steps /\ b \in i + 2 .. k
      BY StepAdded
    <3>2. PICK h \in i + 1 .. k : IsChild(b, h)'
      BY <2>1, <2>2, <3>1, BranchesAtStep, StepAdded DEF NestedIn
    <3>3. h # k
      BY <3>1, <3>2, BranchesAtStep
    <3>4. h \in i + 1 .. NumSymbols /\ h \in Steps
      BY <3>3, StepAdded
    <3> QED
      BY <3>1, <3>2, <3>4, BranchesAtStep
  <2> QED
    BY <2>1, <2>2 DEF WaitsSince, NestedIn
<1>2. ASSUME NEW c, NEW i \in Steps, WaitsSince(c, i),
             MidBranch \/ \E h \in Steps : WaitsSince(current, h) /\ i < h
      PROVE  WaitsSince(c, i)'
  <2>1. symbols[i] = "S" /\ c = LeftOf(i) /\ NestedIn(i, NumSymbols)
    BY <1>2 DEF WaitsSince
  <2>2. ASSUME NEW b \in i + 2 .. k, IsBranch(b)'
        PROVE  \E h \in i + 1 .. k : IsChild(b, h)'
    <3>1. CASE b = k
      <4>1. ~ MidBranch
        BY <2>2, <3>1, BranchesAtStep
      <4>2. PICK h \in Steps : WaitsSince(current, h) /\ i < h
        BY <1>2, <4>1
      <4>3. IsChild(k, h)' /\ h \in i + 1 .. k
        BY <4>2, StepAdded, BranchesAtStep DEF WaitsSince
      <4> QED
        BY <3>1, <4>3
    <3>2. CASE b # k
      <4>1. b \in Steps /\ b \in i + 2 .. NumSymbols
        BY <3>2, StepAdded
      <4>2. PICK h \in i + 1 .. NumSymbols : IsChild(b, h)
        BY <2>1, <2>2, <4>1, BranchesAtStep DEF NestedIn
      <4>3. h \in i + 1 .. k /\ h \in Steps
        BY StepAdded
      <4> QED
        BY <4>1, <4>2, <4>3, BranchesAtStep
    <3> QED
      BY <3>1, <3>2
  <2>3. NestedIn(i, k)'
    BY <2>2, StepAdded DEF NestedIn
  <2> QED
    BY <2>1, <2>3, StepAdded DEF WaitsSince, NestedIn
<1>3. ASSUME NEW c PROVE WaitsSince(c, k)' <=> x = "S" /\ c = LeftOfCurrent
  <2>1. k + 2 .. k = {}
    BY StepAdded
  <2>2. NestedIn(k, k)'
    BY <2>1 DEF NestedIn
  <2> QED
    BY <2>2, StepAdded DEF WaitsSince, NestedIn
<1>4. ASSUME NEW c, NEW i \in Steps, WaitsSince(c, i), WaitsSince(c, k)' PROVE FALSE
  <2>1. x = "S" /\ c = LeftOfCurrent /\ c = LeftOf(i)
    BY <1>3, <1>4 DEF WaitsSince
  <2>2. LeftOfCurrent # NoCorner
    BY <2>1, StepAdded DEF LeadsNowhere
  <2>3. LeftOf(i) = opposite[PreviousCorner(Walked(i))] /\ LeftOf(i) \in AllCorners
    BY <2>1, <2>2, StepAdded DEF LeftOf
  <2>4. Walked(i) = current
    BY <2>1, <2>3, StepAdded, TraceAtStep, LeftAndBack
  <2> QED
    BY <2>4, StepAdded
<1> QED
  BY <1>1, <1>2, <1>3, <1>4

(* Where the walk goes from a step.                                        *)
Onward(x) ==
  /\ cornerTraversalStack' =
       CASE x = "E" -> Front(cornerTraversalStack)
         [] x = "S" -> Front(cornerTraversalStack) \o <<LeftOfCurrent, RightOfCurrent>>
         [] OTHER -> cornerTraversalStack
  /\ phase' = IF x \in {"E", "S"} THEN "branch" ELSE "walk"
  /\ x = "R" => current' = LeftOfCurrent
  /\ x \in {"C", "L"} => current' = RightOfCurrent

(* What the symbols do to the stack of corners still to walk.              *)
LEMMA StackOnward ==
  ASSUME NEW x, NEW k, Taken(x, k), Onward(x)
  PROVE  LET L == Len(cornerTraversalStack)
             st == cornerTraversalStack
         IN  /\ L - 1 \in Nat /\ \A a \in 1 .. L - 1 : a \in DOMAIN st /\ st'[a] = st[a] /\ a \in Nat /\ a < L
             /\ x = "E" => Len(st') = L - 1
             /\ x = "S" => Len(st') = L + 1 /\ st'[L] = LeftOfCurrent /\ st'[L + 1] = RightOfCurrent
             /\ x \in {"C", "L", "R"} => Len(st') = L /\ st'[L] = st[L]
             /\ DOMAIN st' = 1 .. Len(st') /\ DOMAIN st = 1 .. L
             /\ MidBranch' <=> x # "E"
             /\ Waiting' = IF x = "S" THEN L ELSE L - 1
<1> DEFINE st == cornerTraversalStack
           L == Len(cornerTraversalStack)
<1>1. st \in Seq(AllCorners \cup {NoCorner}) /\ st # <<>> /\ L \in Nat /\ L >= 1 /\ DOMAIN st = 1 .. L
  BY TraceAtStep
<1>2. /\ Front(st) \in Seq(AllCorners \cup {NoCorner})
      /\ Len(Front(st)) = L - 1 /\ \A a \in 1 .. L - 1 : Front(st)[a] = st[a]
  <2>1. 1 \in 1 .. L + 1 /\ L - 1 \in 1 - 1 .. L
    BY <1>1
  <2>2. Front(st) = SubSeq(st, 1, L - 1)
    BY DEF Front
  <2> HIDE DEF st, L
  <2>3. /\ SubSeq(st, 1, L - 1) \in Seq(AllCorners \cup {NoCorner})
        /\ Len(SubSeq(st, 1, L - 1)) = L - 1
        /\ \A a \in 1 .. L - 1 : SubSeq(st, 1, L - 1)[a] = st[a]
    BY <1>1, <2>1, SubSeqProperties DEF st, L
  <2> QED
    BY <2>2, <2>3
<1>3. MidBranch' <=> x # "E"
  BY StepAdded DEF MidBranch
<1>4. L - 1 \in Nat /\ \A a \in 1 .. L - 1 : a \in DOMAIN st /\ a \in Nat /\ a < L
  BY <1>1
<1>8. LeftOfCurrent \in AllCorners \cup {NoCorner} /\ RightOfCurrent \in AllCorners \cup {NoCorner}
  <2>1. /\ current \in AllCorners /\ RightOfCurrent = opposite[NextCorner(current)]
        /\ LeftOfCurrent = opposite[PreviousCorner(current)]
    BY StepAdded
  <2>2. TableIsManifold
    BY TraceAtStep
  <2>3. NextCorner(current) \in AllCorners /\ PreviousCorner(current) \in AllCorners
    BY <2>1, <2>2, ManifoldCorners
  <2>4. \A c \in AllCorners : opposite[c] \in AllCorners \cup {NoCorner}
    BY <2>2, ManifoldCorners
  <2> QED
    BY <2>1, <2>3, <2>4
<1>9. x = "E" => Waiting' = Len(cornerTraversalStack')
  BY <1>3 DEF Waiting
<1>10. x # "E" => Waiting' = Len(cornerTraversalStack') - 1
  BY <1>3 DEF Waiting
<1> HIDE DEF L, st
<1>5. CASE x = "E"
  <2>1. cornerTraversalStack' = Front(st)
    BY <1>5 DEF Onward, st
  <2> QED
    <3>1. Len(Front(st)) = L - 1 /\ DOMAIN Front(st) = 1 .. L - 1
      BY <1>2
    <3> QED
      BY <1>1, <1>2, <1>3, <1>4, <1>5, <1>9, <2>1, <3>1 DEF L, st
<1>6. CASE x = "S"
  <2>1. cornerTraversalStack' = Front(st) \o <<LeftOfCurrent, RightOfCurrent>>
    BY <1>6 DEF Onward, st
  <2> DEFINE f == Front(st)
             p == <<LeftOfCurrent, RightOfCurrent>>
  <2>3. p \in Seq(AllCorners \cup {NoCorner}) /\ Len(p) = 2 /\ p[1] = LeftOfCurrent /\ p[2] = RightOfCurrent
    BY <1>8
  <2>4. f \in Seq(AllCorners \cup {NoCorner}) /\ Len(f) = L - 1
    BY <1>2
  <2> HIDE DEF f, p
  <2>5. /\ Len(f \o p) = L + 1 /\ DOMAIN (f \o p) = 1 .. L + 1
        /\ \A a \in 1 .. L - 1 : (f \o p)[a] = f[a]
        /\ (f \o p)[L] = p[1] /\ (f \o p)[L + 1] = p[2]
    <3>1. Len(f \o p) = L - 1 + 2 /\ DOMAIN (f \o p) = 1 .. Len(f \o p)
      <4>1. f \o p \in Seq(AllCorners \cup {NoCorner}) /\ Len(f \o p) = Len(f) + Len(p)
        BY <2>3, <2>4, ConcatProperties
      <4> DEFINE q == f \o p
      <4>2. q \in Seq(AllCorners \cup {NoCorner})
        BY <4>1
      <4> HIDE DEF q
      <4>3. DOMAIN q = 1 .. Len(q)
        BY <4>2
      <4> QED
        BY <2>3, <2>4, <4>1, <4>3 DEF q
    <3>2. \A i \in 1 .. Len(f) + Len(p) : (f \o p)[i] = IF i <= Len(f) THEN f[i] ELSE p[i - Len(f)]
      BY <2>3, <2>4, ConcatProperties
    <3>3. L - 1 + 2 = L + 1 /\ L \in 1 .. L - 1 + 2 /\ L + 1 \in 1 .. L - 1 + 2
          /\ ~ (L <= L - 1) /\ ~ (L + 1 <= L - 1) /\ L - (L - 1) = 1 /\ L + 1 - (L - 1) = 2
      BY <1>1
    <3>4. \A a \in 1 .. L - 1 : a \in 1 .. L - 1 + 2 /\ a <= L - 1
      BY <1>1
    <3>5. Len(f) + Len(p) = L - 1 + 2
      BY <2>3, <2>4
    <3> DEFINE q == f \o p
    <3> HIDE DEF q
    <3>6. \A i \in 1 .. L - 1 + 2 : q[i] = IF i <= L - 1 THEN f[i] ELSE p[i - (L - 1)]
      BY <2>4, <3>2, <3>5 DEF q
    <3>7. Len(q) = L - 1 + 2 /\ DOMAIN q = 1 .. Len(q)
      BY <3>1 DEF q
    <3>8. Len(q) = L + 1 /\ DOMAIN q = 1 .. L + 1
      BY <3>3, <3>7
    <3>9. \A a \in 1 .. L - 1 : q[a] = f[a]
      BY <3>4, <3>6
    <3>10. q[L] = p[1] /\ q[L + 1] = p[2]
      BY <3>3, <3>6
    <3> QED
      BY <3>8, <3>9, <3>10 DEF q
  <2>6. cornerTraversalStack' = f \o p
    BY <2>1 DEF f, p
  <2>7. \A a \in 1 .. L - 1 : f[a] = st[a]
    BY <1>2 DEF f
  <2> QED
    <3>1. L + 1 - 1 = L
      BY <1>1
    <3>2. Len(cornerTraversalStack') = L + 1 /\ DOMAIN cornerTraversalStack' = 1 .. L + 1
      BY <2>5, <2>6
    <3>3. \A a \in 1 .. L - 1 : cornerTraversalStack'[a] = st[a]
      BY <2>5, <2>6, <2>7
    <3>4. cornerTraversalStack'[L] = LeftOfCurrent /\ cornerTraversalStack'[L + 1] = RightOfCurrent
      BY <2>3, <2>5, <2>6
    <3> HIDE DEF f, p
    <3> QED
      BY <1>1, <1>3, <1>4, <1>6, <1>10, <3>1, <3>2, <3>3, <3>4 DEF L, st
<1>7. CASE x \notin {"E", "S"}
  <2>1. cornerTraversalStack' = st
    BY <1>7 DEF Onward, st
  <2> QED
    BY <1>1, <1>3, <1>4, <1>7, <1>10, <2>1 DEF L, st
<1> QED
  BY <1>5, <1>6, <1>7

(* The stack holds the left sides of the S that wait, the latest on top.   *)
LEMMA StepWaits ==
  ASSUME NEW x, NEW k, Taken(x, k), Onward(x)
  PROVE  StackWaits'
<1> DEFINE st == cornerTraversalStack
           L == Len(cornerTraversalStack)
<1>1. ASSUME NEW a \in 1 .. L - 1, NEW c, c = st[a]
      PROVE  \E i \in Steps : WaitsSince(c, i) /\ WaitsSince(c, i)'
  <2>1. PICK i \in Steps : WaitsSince(c, i)
    BY <1>1, StackAtStep
  <2>2. L # 1
    <3>1. L \in Nat
      BY TraceAtStep
    <3> HIDE DEF L
    <3> QED
      BY <1>1, <3>1
  <2>3. ~ RootAhead
    BY <2>2, StackAtStep
  <2>4. ASSUME ~ MidBranch PROVE \E h \in Steps : WaitsSince(current, h) /\ i < h
    <3>1. PICK h \in Steps : WaitsSince(current, h)
      BY <2>3, <2>4, StackAtStep
    <3> QED
      BY <1>1, <2>1, <2>3, <2>4, <3>1, StackAtStep
  <2> QED
    BY <2>1, <2>4, WaitingAtStep
<1>2. /\ L \in Nat /\ L - 1 \in Nat /\ L >= 1
      /\ \A a \in 1 .. L - 1 : st'[a] = st[a]
      /\ x = "S" => Len(st') = L + 1 /\ st'[L] = LeftOfCurrent
      /\ x \in {"C", "L", "R"} => Len(st') = L
      /\ MidBranch' <=> x # "E"
      /\ Waiting' = IF x = "S" THEN L ELSE L - 1
  BY TraceAtStep, StackOnward
<1> HIDE DEF L
<1>3. ASSUME NEW a \in 1 .. Waiting', NEW c, c = st'[a]
      PROVE  \E i \in Steps' : WaitsSince(c, i)'
  <2>1. CASE a \in 1 .. L - 1
    <3>1. c = st[a]
      BY <1>2, <1>3, <2>1
    <3> QED
      BY <1>1, <2>1, <3>1, StepAdded DEF L
  <2>2. CASE a \notin 1 .. L - 1
    <3>1. x = "S" /\ a = L
      BY <1>2, <2>2
    <3>2. c = LeftOfCurrent
      BY <1>2, <1>3, <3>1
    <3> QED
      BY <3>1, <3>2, StepAdded, WaitingAtStep
  <2> QED
    BY <2>1, <2>2
<1>4. ASSUME NEW a \in 1 .. Waiting', NEW b \in 1 .. Waiting', a < b,
             NEW c, c = st'[a], NEW d, d = st'[b], NEW i \in Steps', NEW h \in Steps',
             WaitsSince(c, i)', WaitsSince(d, h)'
      PROVE  i < h
  <2>1. a \in 1 .. L - 1 /\ (b \in 1 .. L - 1 \/ (x = "S" /\ b = L))
    BY <1>2, <1>4
  <2>2. c = st[a]
    BY <1>2, <1>4, <2>1
  <2>3. PICK j \in Steps : WaitsSince(c, j)
    BY <1>1, <2>1, <2>2 DEF L
  <2>4. i # k
    BY <1>4, <2>3, WaitingAtStep
  <2>5. i \in Steps /\ WaitsSince(c, i)
    BY <1>4, <2>4, StepAdded, WaitingAtStep
  <2>6. CASE b \in 1 .. L - 1
    <3>1. d = st[b]
      BY <1>2, <1>4, <2>6
    <3>2. PICK m \in Steps : WaitsSince(d, m)
      BY <1>1, <2>6, <3>1 DEF L
    <3>3. h # k
      BY <1>4, <3>2, WaitingAtStep
    <3>4. h \in Steps /\ WaitsSince(d, h)
      BY <1>4, <3>3, StepAdded, WaitingAtStep
    <3> QED
      BY <1>4, <2>1, <2>2, <2>5, <2>6, <3>1, <3>4, StackAtStep DEF L
  <2>7. CASE x = "S" /\ b = L
    <3>1. d = LeftOfCurrent
      BY <1>2, <1>4, <2>7
    <3>2. h \notin Steps
      BY <1>4, <2>7, <3>1, WaitingAtStep
    <3> QED
      BY <2>5, <3>2, StepAdded
  <2> QED
    BY <2>1, <2>6, <2>7
<1>5. \A a \in 1 .. Waiting' : \E i \in Steps' : WaitsSince(cornerTraversalStack[a], i)'
  BY <1>3 DEF WaitsSince
<1>6. \A a, b \in 1 .. Waiting' : \A i, h \in Steps' :
        a < b /\ WaitsSince(cornerTraversalStack[a], i)' /\ WaitsSince(cornerTraversalStack[b], h)' => i < h
  BY <1>4 DEF WaitsSince
<1>7. MidBranch' => cornerTraversalStack' # <<>>
  <2>1. ASSUME x # "E" PROVE Len(st') >= 1
    BY <1>2, <2>1 DEF Taken, TopologySymbols
  <2> QED
    BY <1>2, <2>1
<1> QED
  BY <1>5, <1>6, <1>7 DEF StackWaits

(* The walk stands where its last symbol sent it.                          *)
LEMMA StepStands ==
  ASSUME NEW x, NEW k, Taken(x, k), Onward(x)
  PROVE  WhereItStands'
<1>1. phase' # "ready"
  BY TraceAtStep
<1>2. ASSUME phase' = "branch", MidBranch'
      PROVE  /\ symbols'[NumSymbols'] = "S"
             /\ cornerTraversalStack'[Len(cornerTraversalStack')] = NextStep(NumSymbols)'
  <2>1. x = "S" /\ NumSymbols' = k /\ symbols'[k] = x
    BY <1>2, StackOnward, StepAdded DEF Onward, Taken, TopologySymbols
  <2>2. cornerTraversalStack'[Len(cornerTraversalStack')] = RightOfCurrent
    BY <2>1, StackOnward
  <2>3. RightOf(NumSymbols)' = RightOf(k)'
    BY <2>1 DEF RightOf, Walked
  <2> QED
    BY <2>1, <2>2, <2>3, StepAdded DEF NextStep
<1>3. ASSUME phase' = "walk"
      PROVE  /\ current' = IF MidBranch' THEN NextStep(NumSymbols)'
                           ELSE cornerTraversalStack'[Len(cornerTraversalStack')]
             /\ Face(cornerTraversalStack'[Len(cornerTraversalStack')])
                  \in visitedFaces' \cup {Face(current')}
  <2>1. x \in {"C", "L", "R"} /\ MidBranch' /\ NumSymbols' = k /\ symbols'[k] = x
    BY <1>3, StackOnward, StepAdded DEF Onward, Taken, TopologySymbols
  <2>2. RightOf(NumSymbols)' = RightOf(k)' /\ LeftOf(NumSymbols)' = LeftOf(k)'
    BY <2>1 DEF RightOf, LeftOf, Walked
  <2>3. current' = NextStep(NumSymbols)'
    BY <2>1, <2>2, StepAdded DEF NextStep, Onward
  <2>4. cornerTraversalStack'[Len(cornerTraversalStack')] = cornerTraversalStack[Len(cornerTraversalStack)]
    BY <2>1, StackOnward
  <2>5. Face(cornerTraversalStack[Len(cornerTraversalStack)]) \in visitedFaces \cup {Face(current)}
    BY TraceAtStep DEF WhereItStands
  <2> QED
    BY <2>1, <2>3, <2>4, <2>5, StepAdded
<1> QED
  BY <1>1, <1>2, <1>3 DEF WhereItStands

(* The gates after a step: those before it, but for the one a branch ended *)
(* at, and the sides the step leaves open.                                 *)
LEMMA GatesAtStep ==
  ASSUME NEW x, NEW k, Taken(x, k), Onward(x)
  PROVE  /\ GateCorners' \subseteq GateCorners
                \cup (IF x \in {"C", "L", "S"} THEN {RightOfCurrent} ELSE {})
                \cup (IF x \in {"R", "S"} THEN {LeftOfCurrent} ELSE {})
         /\ \A c \in GateCorners : Face(c) \in visitedFaces' \/ c \in GateCorners'
         /\ x \in {"C", "L", "S"} => RightOfCurrent \in GateCorners'
         /\ x \in {"R", "S"} => LeftOfCurrent \in GateCorners'
<1> DEFINE st == cornerTraversalStack
           L == Len(cornerTraversalStack)
<1>1. /\ L \in Nat /\ L - 1 \in Nat /\ L >= 1
      /\ \A a \in 1 .. L - 1 : a \in DOMAIN st /\ st'[a] = st[a]
      /\ x = "E" => Len(st') = L - 1
      /\ x = "S" => Len(st') = L + 1 /\ st'[L] = LeftOfCurrent /\ st'[L + 1] = RightOfCurrent
      /\ x \in {"C", "L", "R"} => Len(st') = L /\ st'[L] = st[L]
      /\ DOMAIN st' = 1 .. Len(st') /\ DOMAIN st = 1 .. L
  BY TraceAtStep, StackOnward
<1>10. \A a \in DOMAIN st : a \in 1 .. L - 1 \/ a = L
  <2>1. L \in Nat /\ DOMAIN st = 1 .. L
    BY <1>1
  <2> HIDE DEF L, st
  <2>2. \A a \in 1 .. L : a \in 1 .. L - 1 \/ a = L
    BY <2>1
  <2> QED
    BY <2>1, <2>2
<1>2. Face(st[L]) \in visitedFaces'
  <2>1. Face(cornerTraversalStack[Len(cornerTraversalStack)]) \in visitedFaces \cup {Face(current)}
    BY TraceAtStep DEF WhereItStands
  <2> QED
    BY <2>1, StepAdded
<1>3. /\ GateCorners = {st[a] : a \in DOMAIN st} \cup {current}
      /\ GateCorners' = {st'[a] : a \in DOMAIN st'} \cup (IF phase' = "walk" THEN {current'} ELSE {})
  BY TraceAtStep DEF GateCorners
<1>4. x \in {"C", "R", "L", "S", "E"}
  BY DEF Taken, TopologySymbols
<1>5. /\ phase' = IF x \in {"E", "S"} THEN "branch" ELSE "walk"
      /\ x = "R" => current' = LeftOfCurrent
      /\ x \in {"C", "L"} => current' = RightOfCurrent
  BY DEF Onward
<1>6. Face(current) \in visitedFaces'
  BY StepAdded
<1> HIDE DEF L, st
<1>7. CASE x = "E"
  <2>1. {st'[a] : a \in DOMAIN st'} = {st[a] : a \in 1 .. L - 1}
    BY <1>1, <1>7
  <2> QED
    BY <1>1, <1>2, <1>3, <1>5, <1>6, <1>7, <1>10, <2>1
<1>8. CASE x = "S"
  <2>1. 1 .. L + 1 = (1 .. L - 1) \cup {L, L + 1}
    BY <1>1
  <2>2. DOMAIN st' = (1 .. L - 1) \cup {L, L + 1}
    BY <1>1, <1>8, <2>1
  <2>3. {st'[a] : a \in DOMAIN st'} = {st[a] : a \in 1 .. L - 1} \cup {LeftOfCurrent, RightOfCurrent}
    <3>1. {st'[a] : a \in DOMAIN st'} = {st'[a] : a \in 1 .. L - 1} \cup {st'[L], st'[L + 1]}
      BY <2>2
    <3> QED
      BY <1>1, <1>8, <3>1
  <2> QED
    BY <1>1, <1>2, <1>3, <1>5, <1>6, <1>8, <1>10, <2>3
<1>9. CASE x \in {"C", "L", "R"}
  <2>2. DOMAIN st' = DOMAIN st /\ \A a \in DOMAIN st : st'[a] = st[a]
    BY <1>1, <1>9, <1>10
  <2>3. {st'[a] : a \in DOMAIN st'} = {st[a] : a \in DOMAIN st}
    BY <2>2
  <2> QED
    BY <1>3, <1>5, <1>6, <1>9, <2>3
<1> QED
  BY <1>4, <1>7, <1>8, <1>9

(* A side that leads on is glued back to the face just taken.              *)
LEMMA SidesLeadBack ==
  ASSUME NEW x, NEW k, Taken(x, k)
  PROVE  /\ x \in {"C", "L", "S"} =>
              RightOfCurrent \in AllCorners /\ opposite[RightOfCurrent] = NextCorner(current)
              /\ Face(RightOfCurrent) \notin visitedFaces'
         /\ x \in {"R", "S", "C"} =>
              LeftOfCurrent \in AllCorners /\ opposite[LeftOfCurrent] = PreviousCorner(current)
              /\ Face(LeftOfCurrent) \notin visitedFaces'
         /\ Face(NextCorner(current)) = Face(current) /\ Face(PreviousCorner(current)) = Face(current)
<1>1. /\ RightOfCurrent \in AllCorners \cup {NoCorner} /\ LeftOfCurrent \in AllCorners \cup {NoCorner}
      /\ Face(NextCorner(current)) = Face(current) /\ Face(PreviousCorner(current)) = Face(current)
      /\ current \in AllCorners
      /\ NextCorner(current) \in AllCorners /\ PreviousCorner(current) \in AllCorners
  BY StepAdded, TraceAtStep, ManifoldCorners
<1>2. x \in {"C", "L", "S"} => ~ LeadsNowhere(RightOfCurrent, visitedFaces')
  BY StepAdded
<1>3. x \in {"R", "S", "C"} => ~ LeadsNowhere(LeftOfCurrent, visitedFaces')
  BY StepAdded
<1> QED
  BY <1>1, <1>2, <1>3, StepAdded, TraceAtStep, LeftAndBack DEF LeadsNowhere

(* Every gate still leads back to a face that is gone.                     *)
LEMMA StepLeadsBack ==
  ASSUME NEW x, NEW k, Taken(x, k), Onward(x)
  PROVE  GatesLeadBack'
<1>1. ASSUME NEW c \in GateCorners' PROVE c \in AllCorners /\ LeadsNowhere(opposite[c], visitedFaces')
  <2>1. ASSUME c \in GateCorners PROVE c \in AllCorners /\ LeadsNowhere(opposite[c], visitedFaces')
    <3>1. c \in AllCorners /\ LeadsNowhere(opposite[c], visitedFaces)
      BY <2>1, TraceAtStep DEF GatesLeadBack
    <3> QED
      BY <3>1, StepAdded DEF LeadsNowhere
  <2> QED
    BY <1>1, <2>1, GatesAtStep, SidesLeadBack, StepAdded DEF LeadsNowhere
<1> QED
  BY <1>1, StepAdded DEF GatesLeadBack, SameTable, LeadsNowhere

(* An interior tip that is met for the first time: unvisited faces that    *)
(* end nowhere but at visited ones lie on both sides of it or on none.     *)
LEMMA BothSidesOfATip ==
  ASSUME NEW k, Taken("C", k), NEW X, X \cap visitedFaces' = {}, KeepsWithin(X, visitedFaces')
  PROVE  Face(RightOfCurrent) \in X <=> Face(LeftOfCurrent) \in X
<1>1. IsFresh(current, visitedFaces')
  BY DEF Taken, Fits
<1>2. TableIsReady /\ TableIsFull /\ current \in AllCorners /\ vertexHoleID[cornerVertex[current]] = -1
      /\ Face(current) \notin X
  BY <1>1, StepAdded, TraceAtStep DEF IsFresh
<1>3. ASSUME NEW d \in AllCorners, cornerVertex[d] = cornerVertex[current], Face(d) \in X
      PROVE  /\ Face(opposite[NextCorner(d)]) \in X \cup {Face(current)}
             /\ Face(opposite[PreviousCorner(d)]) \in X \cup {Face(current)}
  <2>1. /\ NextCorner(d) \in AllCorners /\ Face(NextCorner(d)) = Face(d)
        /\ PreviousCorner(d) \in AllCorners /\ Face(PreviousCorner(d)) = Face(d)
    BY TableInUse, ManifoldCorners, TraceAtStep
  <2>2. opposite[NextCorner(d)] # NoCorner /\ opposite[PreviousCorner(d)] # NoCorner
    BY <1>2, <1>3, InteriorVertex
  <2>3. /\ Face(opposite[NextCorner(d)]) \in X \cup visitedFaces'
        /\ Face(opposite[PreviousCorner(d)]) \in X \cup visitedFaces'
    BY <1>3, <2>1, <2>2 DEF KeepsWithin, LeadsNowhere
  <2>4. \E e \in AllCorners : cornerVertex[e] = cornerVertex[current] /\ Face(e) = Face(opposite[NextCorner(d)])
    BY <1>2, <1>3, <2>2, LeftOfACorner
  <2>5. \E e \in AllCorners : cornerVertex[e] = cornerVertex[current] /\ Face(e) = Face(opposite[PreviousCorner(d)])
    BY <1>2, <1>3, <2>2, RightOfACorner
  <2>6. \A e \in AllCorners : cornerVertex[e] = cornerVertex[current] /\ Face(e) \in visitedFaces' => Face(e) = Face(current)
    BY <1>1 DEF IsFresh, Around
  <2> QED
    BY <2>3, <2>4, <2>5, <2>6
<1>4. Face(opposite[NextCorner(current)]) \in X <=> Face(opposite[PreviousCorner(current)]) \in X
  BY <1>2, <1>3, FanLeadsRound
<1> QED
  BY <1>4, StepAdded

(* Every part of the mesh still to walk has one gate at least.             *)
LEMMA StepHasGates ==
  ASSUME NEW x, NEW k, Taken(x, k), Onward(x)
  PROVE  FrontierHasGates'
<1>1. ASSUME NEW X \in SUBSET (AllFaces \ visitedFaces'), KeepsWithin(X, visitedFaces'), Touches(X, visitedFaces')
      PROVE  \E c \in GateCorners' : Face(c) \in X
  <2>1. X \cap visitedFaces' = {} /\ visitedFaces' = visitedFaces \cup {Face(current)}
    BY StepAdded
  <2>2. PICK e \in AllCorners : Face(e) \in X /\ opposite[e] # NoCorner /\ Face(opposite[e]) \in visitedFaces'
    BY <1>1 DEF Touches
  <2>3. CASE \E d \in AllCorners : Face(d) \in X /\ opposite[d] # NoCorner /\ Face(opposite[d]) = Face(current)
    <3>1. PICK d \in AllCorners : Face(d) \in X /\ opposite[d] # NoCorner /\ Face(opposite[d]) = Face(current)
      BY <2>3
    <3>2. opposite[d] \in AllCorners /\ opposite[opposite[d]] = d
      BY <3>1, TraceAtStep, TableInUse, ManifoldEdges
    <3>3. opposite[d] \in {current, NextCorner(current), PreviousCorner(current)}
      <4>1. mesh.numFaces \in Nat /\ AllCorners = Corners(mesh.numFaces)
        BY TraceAtStep, TableInUse
      <4> QED
        BY <3>1, <3>2, <4>1, StepAdded, CornersOfOneFace
    <3>4. opposite[current] # d
      <4>1. LeadsNowhere(opposite[current], visitedFaces')
        BY DEF Taken, Fits
      <4>2. d # NoCorner
        BY TraceAtStep, TableInUse
      <4> QED
        BY <2>1, <3>1, <4>1, <4>2 DEF LeadsNowhere
    <3>5. d = RightOfCurrent \/ d = LeftOfCurrent
      BY <3>2, <3>3, <3>4, StepAdded
    <3>6. d # NoCorner /\ Face(d) \notin visitedFaces'
      BY <2>1, <3>1, TraceAtStep, TableInUse
    <3>7. CASE x = "C"
      <4>1. Face(RightOfCurrent) \in X
        BY <1>1, <2>1, <3>1, <3>5, <3>7, BothSidesOfATip
      <4> QED
        BY <3>7, <4>1, GatesAtStep
    <3>8. CASE x # "C"
      <4>1. d = RightOfCurrent => x \in {"L", "S"}
        BY <3>6, <3>8, StepAdded DEF Taken, TopologySymbols, LeadsNowhere
      <4>2. d = LeftOfCurrent => x \in {"R", "S"}
        BY <3>6, <3>8, StepAdded DEF Taken, TopologySymbols, LeadsNowhere
      <4> QED
        BY <3>1, <3>5, <4>1, <4>2, GatesAtStep
    <3> QED
      BY <3>7, <3>8
  <2>4. CASE \A d \in AllCorners : Face(d) \in X /\ opposite[d] # NoCorner => Face(opposite[d]) # Face(current)
    <3>1. KeepsWithin(X, visitedFaces)
      BY <1>1, <2>1, <2>4 DEF KeepsWithin, LeadsNowhere
    <3>2. Touches(X, visitedFaces)
      BY <2>1, <2>2, <2>4 DEF Touches
    <3>3. X \in SUBSET (AllFaces \ visitedFaces)
      BY <2>1
    <3>4. PICK c \in GateCorners : Face(c) \in X
      BY <3>1, <3>2, <3>3, TraceAtStep DEF FrontierHasGates
    <3> QED
      BY <2>1, <3>4, GatesAtStep
  <2> QED
    BY <2>3, <2>4
<1>2. AllFaces' = AllFaces /\ AllCorners' = AllCorners /\ opposite' = opposite
  BY StepAdded DEF SameTable
<1> QED
  BY <1>1, <1>2 DEF FrontierHasGates, KeepsWithin, Touches, LeadsNowhere

(* The vertices of interior start faces lie inside, and no two such faces  *)
(* share one.                                                              *)
LEMMA StepStaysFree ==
  ASSUME NEW x, NEW k, Taken(x, k)
  PROVE  InitFacesAreFree'
<1>1. InitFacesAreFree
  BY TraceAtStep
<1>2. AllCorners' = AllCorners /\ FacesOf(initFaceCorners)' = FacesOf(initFaceCorners)
      /\ cornerVertex' = cornerVertex /\ vertexHoleID' = vertexHoleID
  BY StepAdded DEF SameTable
<1> QED
  BY <1>1, <1>2 DEF InitFacesAreFree, IsFresh, Around

(* A vertex the walk has met lies on a boundary or on a face that is gone. *)
LEMMA StepMeets ==
  ASSUME NEW x, NEW k, Taken(x, k),
         \A v \in visitedVertices' : v \in visitedVertices \/ v = TipVertex \/ vertexHoleID[v] # -1
  PROVE  MetVertices'
<1>1. ASSUME NEW v \in visitedVertices'
      PROVE  vertexHoleID[v] # -1 \/ \E c \in AllCorners : cornerVertex[c] = v /\ Face(c) \in visitedFaces'
  <2>1. CASE v \in visitedVertices
    BY <2>1, TraceAtStep, StepAdded DEF MetVertices
  <2>2. CASE v = TipVertex
    BY <2>2, StepAdded DEF TipVertex
  <2> QED
    BY <2>1, <2>2
<1> QED
  BY <1>1, StepAdded DEF MetVertices, SameTable

-----------------------------------------------------------------------------
(* The split events a step writes.                                         *)
ElementsOf(s) == {s[i] : i \in DOMAIN s}

(* What two sequences hold one after the other.                            *)
LEMMA ElementsOfBoth ==
  ASSUME NEW S, NEW s \in Seq(S), NEW t \in Seq(S)
  PROVE  s \o t \in Seq(S) /\ ElementsOf(s \o t) = ElementsOf(s) \cup ElementsOf(t)
<1> DEFINE u == s \o t
<1>1. /\ u \in Seq(S) /\ Len(u) = Len(s) + Len(t)
      /\ \A i \in 1 .. Len(s) + Len(t) : u[i] = IF i <= Len(s) THEN s[i] ELSE t[i - Len(s)]
  BY ConcatProperties
<1> HIDE DEF u
<1>2. Len(s) \in Nat /\ Len(t) \in Nat /\ DOMAIN s = 1 .. Len(s) /\ DOMAIN t = 1 .. Len(t)
      /\ DOMAIN u = 1 .. Len(s) + Len(t)
  BY <1>1
<1>3. \A i \in DOMAIN u : u[i] \in ElementsOf(s) \cup ElementsOf(t)
  <2> SUFFICES ASSUME NEW i \in DOMAIN u PROVE u[i] \in ElementsOf(s) \cup ElementsOf(t)
    OBVIOUS
  <2>1. CASE i <= Len(s)
    BY <1>1, <1>2, <2>1 DEF ElementsOf
  <2>2. CASE ~ (i <= Len(s))
    <3>1. i - Len(s) \in DOMAIN t
      BY <1>2, <2>2
    <3> QED
      BY <1>1, <1>2, <2>2, <3>1 DEF ElementsOf
  <2> QED
    BY <2>1, <2>2
<1>4. \A i \in DOMAIN s : s[i] \in ElementsOf(u)
  <2> SUFFICES ASSUME NEW i \in DOMAIN s PROVE s[i] \in ElementsOf(u)
    OBVIOUS
  <2>1. i \in 1 .. Len(s) + Len(t) /\ i <= Len(s)
    BY <1>2
  <2> QED
    BY <1>1, <1>2, <2>1 DEF ElementsOf
<1>5. \A i \in DOMAIN t : t[i] \in ElementsOf(u)
  <2> SUFFICES ASSUME NEW i \in DOMAIN t PROVE t[i] \in ElementsOf(u)
    OBVIOUS
  <2>1. Len(s) + i \in 1 .. Len(s) + Len(t) /\ ~ (Len(s) + i <= Len(s)) /\ Len(s) + i - Len(s) = i
    BY <1>2
  <2>2. u[Len(s) + i] = t[i]
    BY <1>1, <2>1
  <2> QED
    BY <1>2, <2>1, <2>2 DEF ElementsOf
<1>6. ElementsOf(u) \subseteq ElementsOf(s) \cup ElementsOf(t)
  BY <1>3 DEF ElementsOf
<1>7. ElementsOf(s) \subseteq ElementsOf(u) /\ ElementsOf(t) \subseteq ElementsOf(u)
  BY <1>4, <1>5 DEF ElementsOf
<1> QED
  BY <1>1, <1>6, <1>7 DEF u

EventOf(k, i, edge) == [source |-> k - 1, split |-> i - 1, edge |-> edge]

(* Whether a side writes a split event, and which.                         *)
LEMMA EventAtStep ==
  ASSUME NEW x, NEW k, Taken(x, k), NEW n \in AllCorners \cup {NoCorner},
         NEW edge \in {"left", "right"},
         n # NoCorner => Face(n) # Face(current)
  PROVE  /\ \A i \in Steps : BackTo(i, n) => SplitEventAt(n, edge) = <<EventOf(k, i, edge)>>
         /\ \/ SplitEventAt(n, edge) = <<>>
            \/ \E i \in Steps : BackTo(i, n) /\ SplitEventAt(n, edge) = <<EventOf(k, i, edge)>>
         /\ SplitEventAt(n, edge) \in Seq(SplitEvents)
<1>1. lastEncodedSymbolID = NumSymbols - 1 /\ lastEncodedSymbolID + 1 = k - 1
  <2>1. lastEncodedSymbolID = NumSymbols - 1
    BY TraceAtStep DEF SplitFaces
  <2> QED
    BY <2>1, StepAdded
<1>2. \A i \in Steps :
        /\ faceToSplitSymbol[Face(Walked(i))] = IF symbols[i] = "S" THEN i - 1 ELSE -1
        /\ i \in Nat /\ i - 1 >= 0 /\ i - 1 \in Nat
  <2>1. \A i \in Steps : i \in Nat /\ i - 1 >= 0 /\ i - 1 \in Nat
    BY StepAdded
  <2> QED
    BY <2>1, TraceAtStep DEF SplitFaces
<1>3. n # NoCorner => n \in AllCorners /\ ~ (n < 0) /\ n >= 0 /\ Face(n) \in AllFaces
  BY TraceAtStep, ManifoldCorners, TableInUse
<1>4. ~ (NoCorner >= 0) /\ ~ (-1 >= 0)
  BY DEF NoCorner
<1>5. ASSUME NEW i \in Steps, BackTo(i, n) PROVE SplitEventAt(n, edge) = <<EventOf(k, i, edge)>>
  <2>1. n # NoCorner /\ faceToSplitSymbol[Face(n)] = i - 1
    BY <1>2, <1>5 DEF BackTo
  <2> QED
    BY <1>1, <1>2, <1>3, <2>1 DEF SplitEventAt, EventOf
<1>6. ASSUME SplitEventAt(n, edge) # <<>>
      PROVE  \E i \in Steps : BackTo(i, n) /\ SplitEventAt(n, edge) = <<EventOf(k, i, edge)>>
  <2>1. n >= 0 /\ faceToSplitSymbol[Face(n)] >= 0
    BY <1>6 DEF SplitEventAt
  <2>2. n # NoCorner
    BY <1>4, <2>1
  <2>3. PICK i \in Steps : Face(n) = Face(Walked(i))
    <3>1. \A f \in AllFaces : (\A i \in Steps : f # Face(Walked(i))) => faceToSplitSymbol[f] = -1
      BY TraceAtStep DEF SplitFaces
    <3>2. faceToSplitSymbol[Face(n)] # -1
      BY <1>4, <2>1
    <3> QED
      BY <1>3, <2>2, <3>1, <3>2
  <2>4. symbols[i] = "S"
    BY <1>2, <1>4, <2>1, <2>3
  <2>5. BackTo(i, n)
    BY <2>2, <2>3, <2>4 DEF BackTo
  <2> QED
    BY <1>5, <2>5
<1>7. \A i \in Steps : EventOf(k, i, edge) \in SplitEvents
  <2>1. k - 1 \in Nat
    BY StepAdded
  <2> QED
    BY <1>2, <2>1 DEF EventOf, SplitEvents
<1>8. SplitEventAt(n, edge) \in Seq(SplitEvents)
  <2>1. <<>> \in Seq(SplitEvents) /\ \A e \in SplitEvents : <<e>> \in Seq(SplitEvents)
    OBVIOUS
  <2> QED
    BY <1>6, <1>7, <2>1
<1> QED
  BY <1>5, <1>6, <1>8

(* The events a symbol adds.                                               *)
Records(x) ==
  splitEvents' = (splitEvents \o (IF x \in {"R", "E"} THEN SplitEventAt(RightOfCurrent, "right") ELSE <<>>))
                   \o (IF x \in {"L", "E"} THEN SplitEventAt(LeftOfCurrent, "left") ELSE <<>>)

(* The split events a symbol may write, on both of its sides.              *)
LEMMA EventsAtStep ==
  ASSUME NEW x, NEW k, Taken(x, k), Records(x)
  PROVE  /\ ElementsOf(splitEvents) \subseteq ElementsOf(splitEvents')
         /\ \A i \in Steps :
              /\ BackTo(i, RightOfCurrent) => EventOf(k, i, "right") \in ElementsOf(splitEvents')
              /\ BackTo(i, LeftOfCurrent) => EventOf(k, i, "left") \in ElementsOf(splitEvents')
         /\ \A e \in ElementsOf(splitEvents') :
              \/ e \in ElementsOf(splitEvents)
              \/ \E i \in Steps : BackTo(i, RightOfCurrent) /\ e = EventOf(k, i, "right")
              \/ \E i \in Steps : BackTo(i, LeftOfCurrent) /\ e = EventOf(k, i, "left")
<1> DEFINE A == IF x \in {"R", "E"} THEN SplitEventAt(RightOfCurrent, "right") ELSE <<>>
           B == IF x \in {"L", "E"} THEN SplitEventAt(LeftOfCurrent, "left") ELSE <<>>
<1>1. /\ RightOfCurrent \in AllCorners \cup {NoCorner} /\ LeftOfCurrent \in AllCorners \cup {NoCorner}
      /\ RightOfCurrent # NoCorner => Face(RightOfCurrent) # Face(current)
      /\ LeftOfCurrent # NoCorner => Face(LeftOfCurrent) # Face(current)
  <2>1. /\ NextCorner(current) \in AllCorners /\ PreviousCorner(current) \in AllCorners
        /\ Face(NextCorner(current)) = Face(current) /\ Face(PreviousCorner(current)) = Face(current)
        /\ opposite[NextCorner(current)] \in AllCorners \cup {NoCorner}
        /\ opposite[PreviousCorner(current)] \in AllCorners \cup {NoCorner}
    BY StepAdded, TraceAtStep, ManifoldCorners
  <2> QED
    BY <2>1, StepAdded, TraceAtStep DEF TableIsReady
<1>2. splitEvents \in Seq(SplitEvents)
  BY DEF Taken, WalkInv, TraversalTypes, WireTypeOK
<1>3. A \in Seq(SplitEvents) /\ B \in Seq(SplitEvents)
  BY <1>1, EventAtStep
<1>4. splitEvents' = (splitEvents \o A) \o B
  BY DEF Records
<1>5. ElementsOf(<<>>) = {} /\ \A e : ElementsOf(<<e>>) = {e}
  BY DEF ElementsOf
<1>6. \A e \in ElementsOf(A) : \E i \in Steps : BackTo(i, RightOfCurrent) /\ e = EventOf(k, i, "right")
  BY <1>1, <1>5, EventAtStep
<1>7. \A e \in ElementsOf(B) : \E i \in Steps : BackTo(i, LeftOfCurrent) /\ e = EventOf(k, i, "left")
  BY <1>1, <1>5, EventAtStep
<1>8. \A i \in Steps : BackTo(i, RightOfCurrent) => EventOf(k, i, "right") \in ElementsOf(A)
  <2> SUFFICES ASSUME NEW i \in Steps, BackTo(i, RightOfCurrent)
               PROVE  EventOf(k, i, "right") \in ElementsOf(A)
    OBVIOUS
  <2>1. x \in {"R", "E"}
    BY StepAdded DEF BackTo, LeadsNowhere
  <2>2. A = <<EventOf(k, i, "right")>>
    BY <1>1, <2>1, EventAtStep
  <2> QED
    BY <1>5, <2>2
<1>9. \A i \in Steps : BackTo(i, LeftOfCurrent) => EventOf(k, i, "left") \in ElementsOf(B)
  <2> SUFFICES ASSUME NEW i \in Steps, BackTo(i, LeftOfCurrent)
               PROVE  EventOf(k, i, "left") \in ElementsOf(B)
    OBVIOUS
  <2>1. x \in {"L", "E"}
    BY StepAdded DEF BackTo, LeadsNowhere
  <2>2. B = <<EventOf(k, i, "left")>>
    BY <1>1, <2>1, EventAtStep
  <2> QED
    BY <1>5, <2>2
<1> HIDE DEF A, B
<1>10. ElementsOf(splitEvents') = (ElementsOf(splitEvents) \cup ElementsOf(A)) \cup ElementsOf(B)
  <2>1. /\ splitEvents \o A \in Seq(SplitEvents)
        /\ ElementsOf(splitEvents \o A) = ElementsOf(splitEvents) \cup ElementsOf(A)
    BY <1>2, <1>3, ElementsOfBoth
  <2> DEFINE u == splitEvents \o A
  <2>2. ElementsOf(u \o B) = ElementsOf(u) \cup ElementsOf(B)
    <3>1. u \in Seq(SplitEvents)
      BY <2>1
    <3> HIDE DEF u
    <3> QED
      BY <1>3, <3>1, ElementsOfBoth
  <2> QED
    BY <1>4, <2>1, <2>2
<1> QED
  BY <1>6, <1>7, <1>8, <1>9, <1>10

(* The split events stay those the walk calls for.                         *)
LEMMA StepEvents ==
  ASSUME NEW x, NEW k, Taken(x, k), Records(x)
  PROVE  EventsAreWritten' /\ EventsAreTrue'
<1>1. \A i \in Steps : \A c : BackTo(i, c)' <=> BackTo(i, c)
  BY StepAdded DEF BackTo
<1>2. ASSUME NEW m \in Steps', NEW i \in 1 .. m - 1
      PROVE  /\ BackTo(i, RightOf(m))' => EventOf(m, i, "right") \in ElementsOf(splitEvents')
             /\ BackTo(i, LeftOf(m))' => EventOf(m, i, "left") \in ElementsOf(splitEvents')
  <2>1. i \in Steps
    BY StepAdded
  <2>2. CASE m \in Steps
    <3>1. BackTo(i, RightOf(m))' => BackTo(i, RightOf(m))
      BY <2>1, <2>2, StepAdded DEF BackTo
    <3>2. BackTo(i, LeftOf(m))' => BackTo(i, LeftOf(m))
      BY <2>1, <2>2, StepAdded DEF BackTo
    <3>3. BackTo(i, RightOf(m)) => EventOf(m, i, "right") \in ElementsOf(splitEvents)
      BY <2>2, TraceAtStep DEF EventsAreWritten, EventOf, ElementsOf
    <3>4. BackTo(i, LeftOf(m)) => EventOf(m, i, "left") \in ElementsOf(splitEvents)
      BY <2>2, TraceAtStep DEF EventsAreWritten, EventOf, ElementsOf
    <3> QED
      BY <3>1, <3>2, <3>3, <3>4, EventsAtStep
  <2>3. CASE m = k
    <3>1. BackTo(i, RightOf(m))' => BackTo(i, RightOfCurrent)
      BY <2>1, <2>3, StepAdded DEF BackTo
    <3>2. BackTo(i, LeftOf(m))' => BackTo(i, LeftOfCurrent)
      BY <2>1, <2>3, StepAdded DEF BackTo
    <3> QED
      BY <2>1, <2>3, <3>1, <3>2, EventsAtStep
  <2> QED
    BY <2>2, <2>3, StepAdded
<1>3. EventsAreWritten'
  BY <1>2 DEF EventsAreWritten, EventOf, ElementsOf
<1>4. ASSUME NEW e \in ElementsOf(splitEvents') PROVE IsTrueEvent(e)'
  <2>1. CASE e \in ElementsOf(splitEvents)
    <3> DEFINE m == e.source + 1
               i == e.split + 1
    <3>1. IsTrueEvent(e)
      BY <2>1, TraceAtStep DEF EventsAreTrue, ElementsOf
    <3>2. /\ m \in Steps /\ i \in 1 .. m - 1
          /\ e.edge = "right" => BackTo(i, RightOf(m))
          /\ e.edge # "right" => BackTo(i, LeftOf(m))
      BY <3>1 DEF IsTrueEvent
    <3>3. \A h \in 1 .. m - 1 : h \in Steps
      <4> HIDE DEF m
      <4> QED
        BY <3>2, StepAdded
    <3>4. i \in Steps
      BY <3>2, <3>3
    <3>5. BackTo(i, RightOf(m))' <=> BackTo(i, RightOf(m))
      BY <3>2, <3>4, StepAdded DEF BackTo
    <3>6. BackTo(i, LeftOf(m))' <=> BackTo(i, LeftOf(m))
      BY <3>2, <3>4, StepAdded DEF BackTo
    <3> QED
      BY <3>2, <3>5, <3>6, StepAdded DEF IsTrueEvent
  <2>2. ASSUME NEW i \in Steps, BackTo(i, RightOfCurrent), e = EventOf(k, i, "right")
        PROVE  IsTrueEvent(e)'
    <3>1. e.source + 1 = k /\ e.split + 1 = i /\ e.edge = "right"
      BY <2>2, StepAdded DEF EventOf
    <3>2. i \in 1 .. k - 1
      BY StepAdded
    <3>3. BackTo(i, RightOf(k))'
      BY <2>2, StepAdded DEF BackTo
    <3> QED
      BY <3>1, <3>2, <3>3, StepAdded DEF IsTrueEvent
  <2>3. ASSUME NEW i \in Steps, BackTo(i, LeftOfCurrent), e = EventOf(k, i, "left")
        PROVE  IsTrueEvent(e)'
    <3>1. e.source + 1 = k /\ e.split + 1 = i /\ e.edge = "left"
      BY <2>3, StepAdded DEF EventOf
    <3>2. i \in 1 .. k - 1
      BY StepAdded
    <3>3. BackTo(i, LeftOf(k))'
      BY <2>3, StepAdded DEF BackTo
    <3> QED
      BY <3>1, <3>2, <3>3, StepAdded DEF IsTrueEvent
  <2> QED
    BY <2>1, <2>2, <2>3, EventsAtStep
<1>5. EventsAreTrue'
  <2>1. \A j \in DOMAIN splitEvents' : splitEvents'[j] \in ElementsOf(splitEvents')
    BY DEF ElementsOf
  <2>2. \A j \in DOMAIN splitEvents' : IsTrueEvent(splitEvents[j])'
    BY <1>4, <2>1 DEF IsTrueEvent
  <2> QED
    BY <2>2 DEF EventsAreTrue
<1> QED
  BY <1>3, <1>5

(* The steps of the faces of S are remembered.                             *)
LEMMA StepSplits ==
  ASSUME NEW x, NEW k, Taken(x, k),
         faceToSplitSymbol' = IF x = "S"
                              THEN [faceToSplitSymbol EXCEPT ![Face(current)] = lastEncodedSymbolID + 1]
                              ELSE faceToSplitSymbol
  PROVE  SplitFaces'
<1>1. lastEncodedSymbolID = NumSymbols - 1 /\ lastEncodedSymbolID' = lastEncodedSymbolID + 1
  BY TraceAtStep DEF SplitFaces, Taken, ReachCorner
<1>2. lastEncodedSymbolID' = NumSymbols' - 1 /\ lastEncodedSymbolID + 1 = k - 1
  BY <1>1, StepAdded
<1>3. DOMAIN faceToSplitSymbol = AllFaces /\ Face(current) \in AllFaces
  BY StepAdded, TraceAtStep, ManifoldCorners DEF Taken, WalkInv, TraversalTypes
<1>4. \A f \in AllFaces :
        faceToSplitSymbol'[f] = IF x = "S" /\ f = Face(current) THEN k - 1 ELSE faceToSplitSymbol[f]
  BY <1>2, <1>3
<1>5. faceToSplitSymbol[Face(current)] = -1
  BY <1>3, StepAdded, TraceAtStep DEF SplitFaces
<1>6. ASSUME NEW i \in Steps'
      PROVE  faceToSplitSymbol'[Face(Walked(i)')] = IF symbols'[i] = "S" THEN i - 1 ELSE -1
  <2>1. CASE i \in Steps
    <3>1. faceToSplitSymbol[Face(Walked(i))] = IF symbols[i] = "S" THEN i - 1 ELSE -1
      BY <2>1, TraceAtStep DEF SplitFaces
    <3>2. Face(Walked(i)) \in AllFaces /\ Face(Walked(i)) # Face(current)
      BY <2>1, StepAdded, TraceAtStep, ManifoldCorners
    <3> QED
      BY <1>4, <2>1, <3>1, <3>2, StepAdded
  <2>2. CASE i = k
    BY <1>3, <1>4, <1>5, <2>2, StepAdded
  <2> QED
    BY <2>1, <2>2, StepAdded
<1>7. ASSUME NEW f \in AllFaces, \A i \in Steps' : f # Face(Walked(i)')
      PROVE  faceToSplitSymbol'[f] = -1
  <2>1. f # Face(current)
    BY <1>7, StepAdded
  <2>2. \A i \in Steps : f # Face(Walked(i))
    BY <1>7, StepAdded
  <2>3. faceToSplitSymbol[f] = -1
    BY <2>2, TraceAtStep DEF SplitFaces
  <2> QED
    BY <1>4, <2>1, <2>3
<1>8. AllFaces' = AllFaces
  BY StepAdded DEF SameTable
<1> QED
  BY <1>2, <1>6, <1>7, <1>8 DEF SplitFaces

-----------------------------------------------------------------------------
(* The count of the vertices.                                              *)
LEMMA CountedSets ==
  ASSUME TableIsReady, NumSymbols \in Nat, mesh.numVertices \in Nat
  PROVE  /\ IsFiniteSet(Heads) /\ Cardinality(Heads) \in Nat
         /\ IsFiniteSet(Rings) /\ Cardinality(Rings) \in Nat
         /\ \A s : IsFiniteSet(Places(s)) /\ Cardinality(Places(s)) \in Nat
         /\ IsFiniteSet(StoredVertices) /\ Cardinality(StoredVertices) \in Nat
<1>1. IsFiniteSet(AllCorners) /\ mesh.numFaces \in Nat
  BY TableInUse
<1>2. Heads \subseteq AllCorners /\ Rings \subseteq {cornerVertex[c] : c \in AllCorners}
  BY DEF Heads, Rings
<1>3. IsFiniteSet({cornerVertex[c] : c \in AllCorners})
  <2> DEFINE f == [c \in AllCorners |-> cornerVertex[c]]
             S == {cornerVertex[c] : c \in AllCorners}
  <2>1. f \in [AllCorners -> S] /\ \A v \in S : \E c \in AllCorners : f[c] = v
    OBVIOUS
  <2> HIDE DEF f, S
  <2>2. f \in Surjection(AllCorners, S)
    BY <2>1 DEF Surjection
  <2>3. IsFiniteSet(S)
    BY <1>1, <2>2, FS_Surjection
  <2> QED
    BY <2>3 DEF S
<1>4. IsFiniteSet(Heads) /\ IsFiniteSet(Rings)
  BY <1>1, <1>2, <1>3, FS_Subset
<1>5. IsFiniteSet(1 .. NumSymbols)
  BY FS_Interval
<1>6. \A s : Places(s) \subseteq 1 .. NumSymbols
  BY DEF Places, Steps
<1>7. \A s : IsFiniteSet(Places(s))
  BY <1>5, <1>6, FS_Subset
<1>8. IsFiniteSet(StoredVertices)
  <2>1. IsFiniteSet(0 .. MaxVertices - 1)
    <3>1. MaxVertices \in Nat
      BY <1>1 DEF MaxVertices
    <3> QED
      BY <3>1, FS_Interval
  <2>2. StoredVertices \subseteq 0 .. MaxVertices - 1
    BY DEF StoredVertices, VertexIDs
  <2> QED
    BY <2>1, <2>2, FS_Subset
<1> QED
  BY <1>4, <1>7, <1>8, FS_CardinalityType

(* How often a symbol has been written.                                    *)
LEMMA PlacesAtStep ==
  ASSUME NEW x, NEW k, Taken(x, k), NEW y
  PROVE  /\ IsFiniteSet(Places({y})) /\ Cardinality(Places({y})) \in Nat
         /\ Cardinality(Places({y}))' = Cardinality(Places({y})) + (IF x = y THEN 1 ELSE 0)
<1>1. IsFiniteSet(Places({y})) /\ Cardinality(Places({y})) \in Nat
  <2>1. mesh.numVertices \in Nat
    BY DEF Taken, WalkInv, TraversalTypes
  <2> QED
    BY <2>1, CountedSets, StepAdded, TraceAtStep
<1>2. Places({y})' = {i \in Steps' : symbols'[i] \in {y}}
  BY DEF Places
<1>3. CASE x = y
  <2>1. Places({y})' = Places({y}) \cup {k}
    <3>1. \A i \in Steps' : symbols'[i] \in {y} <=> i \in Places({y}) \/ i = k
      BY <1>3, StepAdded DEF Places
    <3>2. Places({y}) \cup {k} \subseteq Steps'
      BY StepAdded DEF Places
    <3> QED
      BY <1>2, <3>1, <3>2
  <2>2. k \notin Places({y})
    BY StepAdded DEF Places
  <2> QED
    BY <1>1, <1>3, <2>1, <2>2, FS_AddElement
<1>4. CASE x # y
  <2>1. Places({y})' = Places({y})
    <3>1. \A i \in Steps' : symbols'[i] \in {y} <=> i \in Places({y})
      BY <1>4, StepAdded DEF Places
    <3>2. Places({y}) \subseteq Steps'
      BY StepAdded DEF Places
    <3> QED
      BY <1>2, <3>1, <3>2
  <2> QED
    BY <1>1, <1>4, <2>1
<1> QED
  BY <1>1, <1>3, <1>4

(* The open fans of the faces still to walk: those that end at the face    *)
(* taken, and those its removal opens.                                     *)
LEMMA HeadsAtStep ==
  ASSUME NEW x, NEW k, Taken(x, k)
  PROVE  LET n == NextCorner(current)
             p == PreviousCorner(current)
             lost == {p} \cup (IF x \in {"R", "E"} THEN {current} ELSE {})
                         \cup (IF x \in {"L", "E"} THEN {n} ELSE {})
             won == (IF x \in {"C", "L", "S"} THEN {PreviousCorner(RightOfCurrent)} ELSE {})
                      \cup (IF x \in {"C", "R", "S"} THEN {PreviousCorner(LeftOfCurrent)} ELSE {})
         IN  Heads' = (Heads \ lost) \cup won /\ lost \subseteq Heads /\ won \cap Heads = {}
<1> DEFINE n == NextCorner(current)
           p == PreviousCorner(current)
           lost == {p} \cup (IF x \in {"R", "E"} THEN {current} ELSE {})
                       \cup (IF x \in {"L", "E"} THEN {n} ELSE {})
           won == (IF x \in {"C", "L", "S"} THEN {PreviousCorner(RightOfCurrent)} ELSE {})
                    \cup (IF x \in {"C", "R", "S"} THEN {PreviousCorner(LeftOfCurrent)} ELSE {})
<1>1. /\ current \in AllCorners /\ n \in AllCorners /\ p \in AllCorners
      /\ NextCorner(p) = current /\ NextCorner(n) = p /\ NextCorner(current) = n
      /\ Face(n) = Face(current) /\ Face(p) = Face(current)
      /\ Face(current) \notin visitedFaces
      /\ visitedFaces' = visitedFaces \cup {Face(current)}
      /\ TableIsReady
      /\ RightOfCurrent = opposite[n] /\ LeftOfCurrent = opposite[p]
  BY StepAdded, TraceAtStep, ManifoldCorners
<1>2. \A c \in {current, n, p} :
        LeadsNowhere(opposite[c], visitedFaces') <=> LeadsNowhere(opposite[c], visitedFaces)
  BY <1>1 DEF TableIsReady, LeadsNowhere
<1>3. /\ LeadsNowhere(opposite[current], visitedFaces)
      /\ LeadsNowhere(opposite[n], visitedFaces) <=> x \in {"R", "E"}
      /\ LeadsNowhere(opposite[p], visitedFaces) <=> x \in {"L", "E"}
  BY <1>2 DEF Taken, Fits
<1>4. p \in Heads /\ (current \in Heads <=> x \in {"R", "E"}) /\ (n \in Heads <=> x \in {"L", "E"})
  BY <1>1, <1>3 DEF Heads
<1>5. x \in {"C", "S", "L", "R", "E"}
  BY DEF Taken, TopologySymbols
<1>6. Heads' = {c \in AllCorners : /\ Face(c) \notin visitedFaces'
                                   /\ LeadsNowhere(opposite[NextCorner(c)], visitedFaces')}
  BY StepAdded DEF Heads, SameTable, LeadsNowhere
<1>7. ASSUME NEW r \in AllCorners, NEW e \in {n, p}, opposite[r] = e, Face(r) \notin visitedFaces'
      PROVE  /\ PreviousCorner(r) \in AllCorners /\ Face(PreviousCorner(r)) \notin visitedFaces'
             /\ PreviousCorner(r) \notin Heads /\ NextCorner(PreviousCorner(r)) = r
             /\ PreviousCorner(r) \in Heads'
  <2>1. /\ PreviousCorner(r) \in AllCorners /\ NextCorner(PreviousCorner(r)) = r
        /\ Face(PreviousCorner(r)) = Face(r)
    BY <1>1, TableInUse, ManifoldCorners
  <2>2. e # NoCorner /\ Face(e) = Face(current)
    BY <1>1, TableInUse
  <2>3. ~ LeadsNowhere(opposite[r], visitedFaces) /\ LeadsNowhere(opposite[r], visitedFaces')
    BY <1>1, <1>7, <2>2 DEF LeadsNowhere
  <2> HIDE DEF n, p
  <2> QED
    BY <1>6, <1>7, <2>1, <2>3 DEF Heads
<1>8. /\ x \in {"C", "L", "S"} =>
           RightOfCurrent \in AllCorners /\ opposite[RightOfCurrent] = n /\ Face(RightOfCurrent) \notin visitedFaces'
      /\ x \in {"C", "R", "S"} =>
           LeftOfCurrent \in AllCorners /\ opposite[LeftOfCurrent] = p /\ Face(LeftOfCurrent) \notin visitedFaces'
  BY SidesLeadBack
<1>9. won \subseteq Heads' /\ won \cap Heads = {}
  BY <1>7, <1>8
<1>10. lost \subseteq Heads
  BY <1>4
<1>11. \A c \in lost : c \notin Heads'
  BY <1>1, <1>6
<1>12. ASSUME NEW c \in Heads, c \notin lost PROVE c \in Heads'
  <2>1. c \in AllCorners /\ Face(c) \notin visitedFaces /\ LeadsNowhere(opposite[NextCorner(c)], visitedFaces)
    BY DEF Heads
  <2>2. Face(c) # Face(current)
    <3>1. c \notin {current, n, p}
      BY <1>4, <1>12
    <3>2. mesh.numFaces \in Nat /\ AllCorners = Corners(mesh.numFaces)
      BY <1>1, TableInUse
    <3> QED
      BY <1>1, <2>1, <3>1, <3>2, CornersOfOneFace
  <2> HIDE DEF n, p, lost
  <2> QED
    BY <1>1, <1>6, <2>1, <2>2 DEF LeadsNowhere
<1>13. ASSUME NEW c \in Heads', c \notin Heads PROVE c \in won
  <2> DEFINE r == NextCorner(c)
  <2>1. c \in AllCorners /\ Face(c) \notin visitedFaces' /\ LeadsNowhere(opposite[r], visitedFaces')
    BY <1>6
  <2>2. ~ LeadsNowhere(opposite[r], visitedFaces)
    BY <1>1, <1>13, <2>1 DEF Heads
  <2>3. opposite[r] # NoCorner /\ Face(opposite[r]) = Face(current) /\ r \in AllCorners /\ PreviousCorner(r) = c
    BY <1>1, <2>1, <2>2, TableInUse, ManifoldCorners DEF LeadsNowhere
  <2>4. opposite[r] \in AllCorners /\ opposite[opposite[r]] = r
    BY <1>1, <2>3, TableInUse, ManifoldEdges
  <2>5. opposite[r] \in {current, n, p}
    <3>1. mesh.numFaces \in Nat /\ AllCorners = Corners(mesh.numFaces)
      BY <1>1, TableInUse
    <3> QED
      BY <1>1, <2>3, <2>4, <3>1, CornersOfOneFace
  <2>6. ~ LeadsNowhere(r, visitedFaces')
    <3>1. Face(r) = Face(c) /\ r # NoCorner
      BY <1>1, <2>1, TableInUse, ManifoldCorners
    <3> QED
      BY <2>1, <3>1 DEF LeadsNowhere
  <2>7. opposite[r] # current
    BY <2>4, <2>6 DEF Taken, Fits
  <2>8. (r = RightOfCurrent /\ x \notin {"R", "E"}) \/ (r = LeftOfCurrent /\ x \notin {"L", "E"})
    <3>1. r = opposite[n] \/ r = opposite[p]
      BY <2>4, <2>5, <2>7
    <3> QED
      BY <1>1, <2>6, <3>1, StepAdded
  <2> HIDE DEF r
  <2> QED
    BY <1>5, <2>3, <2>8
<1> HIDE DEF lost, won
<1>14. Heads' = (Heads \ lost) \cup won
  BY <1>9, <1>10, <1>11, <1>12, <1>13
<1> QED
  BY <1>9, <1>10, <1>14 DEF lost, won, n, p

(* The closed fans of the faces still to walk: only C opens one.           *)
LEMMA RingsAtStep ==
  ASSUME NEW x, NEW k, Taken(x, k)
  PROVE  /\ x = "C" => TipVertex \in Rings
         /\ Rings' = Rings \ (IF x = "C" THEN {TipVertex} ELSE {})
<1> DEFINE n == NextCorner(current)
           p == PreviousCorner(current)
<1>1. /\ current \in AllCorners /\ n \in AllCorners /\ p \in AllCorners
      /\ NextCorner(p) = current /\ PreviousCorner(n) = current
      /\ Face(n) = Face(current) /\ Face(p) = Face(current)
      /\ Face(current) \notin visitedFaces
      /\ visitedFaces' = visitedFaces \cup {Face(current)}
      /\ TableIsReady /\ TableIsFull
      /\ cornerVertex[current] \in VertexIDs
  BY StepAdded, TraceAtStep, ManifoldCorners
<1>2. \A c \in {current, n, p} :
        LeadsNowhere(opposite[c], visitedFaces') <=> LeadsNowhere(opposite[c], visitedFaces)
  BY <1>1 DEF TableIsReady, LeadsNowhere
<1>3. /\ LeadsNowhere(opposite[current], visitedFaces)
      /\ LeadsNowhere(opposite[n], visitedFaces) <=> x \in {"R", "E"}
      /\ LeadsNowhere(opposite[p], visitedFaces) <=> x \in {"L", "E"}
      /\ x = "C" => IsFresh(current, visitedFaces')
      /\ x = "S" => ~ IsFresh(current, visitedFaces')
  BY <1>2 DEF Taken, Fits
<1>4. ASSUME NEW c \in AllCorners, LeadsNowhere(opposite[NextCorner(c)], visitedFaces)
      PROVE  cornerVertex[c] \notin Rings
  <2>1. CASE opposite[NextCorner(c)] = NoCorner
    BY <1>1, <2>1, MissingFaceIsABoundary DEF Rings
  <2>2. CASE opposite[NextCorner(c)] # NoCorner
    BY <1>1, <1>4, <2>2, LeftOfACorner DEF Rings, LeadsNowhere
  <2> QED
    BY <2>1, <2>2
<1>5. ASSUME NEW c \in AllCorners, LeadsNowhere(opposite[PreviousCorner(c)], visitedFaces)
      PROVE  cornerVertex[c] \notin Rings
  <2>1. CASE opposite[PreviousCorner(c)] = NoCorner
    BY <1>1, <2>1, InteriorVertex DEF Rings
  <2>2. CASE opposite[PreviousCorner(c)] # NoCorner
    BY <1>1, <1>5, <2>2, RightOfACorner DEF Rings, LeadsNowhere
  <2> QED
    BY <2>1, <2>2
<1>6. cornerVertex[n] \notin Rings /\ cornerVertex[p] \notin Rings
  BY <1>1, <1>3, <1>4, <1>5
<1>7. TipVertex = cornerVertex[current]
  BY DEF TipVertex
<1>8. x = "C" => TipVertex \in Rings
  BY <1>1, <1>3, <1>7 DEF IsFresh, Around, Rings
<1>9. x # "C" => TipVertex \notin Rings
  <2>1. x \in {"R", "E"} => TipVertex \notin Rings
    BY <1>1, <1>3, <1>4, <1>7
  <2>2. x \in {"L", "E"} => TipVertex \notin Rings
    BY <1>1, <1>3, <1>5, <1>7
  <2>3. x = "S" => TipVertex \notin Rings
    BY <1>1, <1>3, <1>7 DEF IsFresh, Around, Rings
  <2> QED
    BY <2>1, <2>2, <2>3 DEF Taken, TopologySymbols
<1>10. Rings' = {v \in VertexIDs : /\ vertexHoleID[v] = -1
                                   /\ \E c \in AllCorners : cornerVertex[c] = v
                                   /\ \A c \in AllCorners : cornerVertex[c] = v => Face(c) \notin visitedFaces'}
  BY StepAdded DEF Rings, SameTable
<1>11. \A v \in Rings' : v \in Rings /\ v # TipVertex
  BY <1>1, <1>7, <1>10 DEF Rings
<1>12. ASSUME NEW v \in Rings, v # TipVertex PROVE v \in Rings'
  <2>1. ASSUME NEW c \in AllCorners, cornerVertex[c] = v, Face(c) = Face(current) PROVE FALSE
    <3>1. mesh.numFaces \in Nat /\ AllCorners = Corners(mesh.numFaces)
      BY <1>1, TableInUse
    <3>2. c \in {current, n, p}
      BY <1>1, <2>1, <3>1, CornersOfOneFace
    <3> QED
      BY <1>6, <1>7, <1>12, <2>1, <3>2
  <2> QED
    BY <1>1, <1>10, <2>1 DEF Rings
<1> QED
  BY <1>8, <1>9, <1>11, <1>12

(* A step moves as many vertices from the parts still to walk to the       *)
(* reader's side as its symbol makes.                                      *)
LEMMA StepCounts ==
  ASSUME NEW x, NEW k, Taken(x, k),
         numSplitSymbols' = numSplitSymbols + (IF x = "S" THEN 1 ELSE 0)
  PROVE  VerticesAreCounted'
<1> DEFINE n == NextCorner(current)
           p == PreviousCorner(current)
           a == PreviousCorner(RightOfCurrent)
           b == PreviousCorner(LeftOfCurrent)
           lost == {p} \cup (IF x \in {"R", "E"} THEN {current} ELSE {})
                       \cup (IF x \in {"L", "E"} THEN {n} ELSE {})
           won == (IF x \in {"C", "L", "S"} THEN {a} ELSE {})
                    \cup (IF x \in {"C", "R", "S"} THEN {b} ELSE {})
           tip == IF x = "C" THEN {TipVertex} ELSE {}
           H == Cardinality(Heads)
           G == Cardinality(Rings)
<1>1. /\ TableIsReady /\ NumSymbols \in Nat /\ mesh.numVertices \in Nat
      /\ current \in AllCorners /\ VerticesAreCounted /\ SameTable
  BY TraceAtStep, StepAdded DEF Taken, WalkInv, TraversalTypes
<1>2. /\ IsFiniteSet(Heads) /\ H \in Nat /\ IsFiniteSet(Rings) /\ G \in Nat
  BY <1>1, CountedSets
<1>3. /\ Heads' = (Heads \ lost) \cup won /\ lost \subseteq Heads /\ won \cap Heads = {}
  BY HeadsAtStep
<1>4. /\ x = "C" => TipVertex \in Rings
      /\ Rings' = Rings \ tip
  BY RingsAtStep
<1>5. current # n /\ current # p /\ n # p
  <2>1. /\ n \in AllCorners /\ p \in AllCorners /\ current \in Nat
        /\ NextCorner(n) = p /\ NextCorner(p) = current
    BY <1>1, ManifoldCorners DEF TableIsReady
  <2>2. current # n /\ current # p
    BY <2>1 DEF NextCorner, PreviousCorner
  <2> QED
    BY <2>1, <2>2
<1>6. x \in {"C", "S"} => a # b
  <2> SUFFICES ASSUME x \in {"C", "S"}, a = b PROVE FALSE
    OBVIOUS
  <2>1. /\ RightOfCurrent \in AllCorners /\ opposite[RightOfCurrent] = n
        /\ LeftOfCurrent \in AllCorners /\ opposite[LeftOfCurrent] = p
    BY SidesLeadBack
  <2>2. NextCorner(a) = RightOfCurrent /\ NextCorner(b) = LeftOfCurrent
    BY <1>1, <2>1, ManifoldCorners DEF TableIsReady
  <2> HIDE DEF n, p, a, b
  <2> QED
    BY <1>5, <2>1, <2>2
<1> HIDE DEF n, p, a, b
<1>7. IsFiniteSet(lost) /\ Cardinality(lost) = (IF x = "E" THEN 3 ELSE IF x \in {"R", "L"} THEN 2 ELSE 1)
  <2>1. IsFiniteSet({p}) /\ Cardinality({p}) = 1
    BY FS_Singleton
  <2>2. IsFiniteSet({p} \cup {current}) /\ Cardinality({p} \cup {current}) = 2
    BY <1>5, <2>1, FS_AddElement
  <2>3. IsFiniteSet({p} \cup {n}) /\ Cardinality({p} \cup {n}) = 2
    BY <1>5, <2>1, FS_AddElement
  <2>4. IsFiniteSet(({p} \cup {current}) \cup {n}) /\ Cardinality(({p} \cup {current}) \cup {n}) = 3
    <3>1. n \notin {p} \cup {current}
      BY <1>5
    <3> HIDE DEF lost
    <3> QED
      BY <2>2, <3>1, FS_AddElement
  <2>5. x = "E" => lost = ({p} \cup {current}) \cup {n}
    OBVIOUS
  <2>6. x = "R" => lost = {p} \cup {current}
    OBVIOUS
  <2>7. x = "L" => lost = {p} \cup {n}
    OBVIOUS
  <2>8. x \notin {"R", "L", "E"} => lost = {p}
    OBVIOUS
  <2> HIDE DEF lost
  <2> QED
    BY <2>1, <2>2, <2>3, <2>4, <2>5, <2>6, <2>7, <2>8
<1>8. IsFiniteSet(won) /\ Cardinality(won) = (IF x = "E" THEN 0 ELSE IF x \in {"R", "L"} THEN 1 ELSE 2)
  <2>1. /\ IsFiniteSet({a}) /\ Cardinality({a}) = 1
        /\ IsFiniteSet({b}) /\ Cardinality({b}) = 1
        /\ IsFiniteSet({}) /\ Cardinality({}) = 0
    BY FS_Singleton, FS_EmptySet
  <2>2. x \in {"C", "S"} => IsFiniteSet({a} \cup {b}) /\ Cardinality({a} \cup {b}) = 2
    BY <1>6, <2>1, FS_AddElement
  <2>3. x = "E" => won = {}
    OBVIOUS
  <2>4. x = "R" => won = {b}
    OBVIOUS
  <2>5. x = "L" => won = {a}
    OBVIOUS
  <2>6. x \in {"C", "S"} => won = {a} \cup {b}
    OBVIOUS
  <2>7. x \in {"C", "S", "L", "R", "E"}
    BY DEF Taken, TopologySymbols
  <2> HIDE DEF won
  <2> QED
    BY <2>1, <2>2, <2>3, <2>4, <2>5, <2>6, <2>7
<1>9. Cardinality(Heads') = H - Cardinality(lost) + Cardinality(won)
  <2> HIDE DEF lost, won, H
  <2>1. Heads \cap lost = lost /\ (Heads \ lost) \cap won = {}
    BY <1>3
  <2>2. IsFiniteSet(Heads \ lost) /\ Cardinality(Heads \ lost) = H - Cardinality(lost)
    BY <1>2, <2>1, FS_Difference DEF H
  <2>3. Cardinality({}) = 0
    BY FS_EmptySet
  <2>4. Cardinality(Heads \ lost) \in Nat /\ Cardinality(won) \in Nat
    BY <1>8, <2>2, FS_CardinalityType
  <2>5. Cardinality((Heads \ lost) \cup won) = Cardinality(Heads \ lost) + Cardinality(won) - Cardinality((Heads \ lost) \cap won)
    BY <1>8, <2>2, FS_Union
  <2>6. Cardinality((Heads \ lost) \cap won) = 0
    BY <2>1, <2>3
  <2>7. Cardinality(Heads') = Cardinality((Heads \ lost) \cup won)
    BY <1>3
  <2> QED
    BY <2>2, <2>4, <2>5, <2>6, <2>7
<1>10. Cardinality(Rings') = G - (IF x = "C" THEN 1 ELSE 0)
  <2>1. CASE x = "C"
    <3>1. Cardinality(Rings \ {TipVertex}) = G - 1
      BY <1>2, <1>4, <2>1, FS_RemoveElement
    <3> QED
      BY <1>4, <2>1, <3>1
  <2>2. CASE x # "C"
    <3>1. Rings' = Rings
      BY <1>4, <2>2
    <3> QED
      BY <1>2, <2>2, <3>1
  <2> QED
    BY <2>1, <2>2
<1>11. Cardinality(Heads') = H + (IF x \in {"C", "S"} THEN 1 ELSE IF x = "E" THEN -3 ELSE -1)
  <2>1. x \in {"C", "S", "L", "R", "E"}
    BY DEF Taken, TopologySymbols
  <2> HIDE DEF lost, won, H
  <2> QED
    BY <1>2, <1>7, <1>8, <1>9, <2>1 DEF H
<1> DEFINE R == Cardinality(Places({"R"}))
           L == Cardinality(Places({"L"}))
           E == Cardinality(Places({"E"}))
           S == Cardinality(Places({"S"}))
<1>12. R \in Nat /\ L \in Nat /\ E \in Nat /\ S \in Nat
  BY PlacesAtStep
<1>13. /\ R' = R + (IF x = "R" THEN 1 ELSE 0)
       /\ L' = L + (IF x = "L" THEN 1 ELSE 0)
       /\ E' = E + (IF x = "E" THEN 1 ELSE 0)
       /\ S' = S + (IF x = "S" THEN 1 ELSE 0)
  BY PlacesAtStep
<1> DEFINE V == Cardinality(StoredVertices)
<1>14. V' = V /\ V \in Nat
  BY <1>1, CountedSets DEF SameTable
<1>15. H + G + R + L + 3 * E = V + S /\ numSplitSymbols = S
  BY <1>1 DEF VerticesAreCounted
<1>16. x \in {"C", "S", "L", "R", "E"}
  BY DEF Taken, TopologySymbols
<1>17. H' + G' + R' + L' + 3 * E' = V' + S' /\ numSplitSymbols' = S'
  <2>1. H' = H + (IF x \in {"C", "S"} THEN 1 ELSE IF x = "E" THEN -3 ELSE -1)
    BY <1>11
  <2>2. G' = G - (IF x = "C" THEN 1 ELSE 0)
    BY <1>10
  <2> HIDE DEF H, G, R, L, E, S, V
  <2> QED
    BY <1>2, <1>12, <1>13, <1>14, <1>15, <1>16, <2>1, <2>2
<1> QED
  BY <1>17 DEF VerticesAreCounted

(* All of it together: a symbol keeps the trace.                           *)
LEMMA StepKeepsTrace ==
  ASSUME NEW x, NEW k, Taken(x, k), Onward(x), Records(x),
         \A v \in visitedVertices' : v \in visitedVertices \/ v = TipVertex \/ vertexHoleID[v] # -1,
         faceToSplitSymbol' = IF x = "S"
                              THEN [faceToSplitSymbol EXCEPT ![Face(current)] = lastEncodedSymbolID + 1]
                              ELSE faceToSplitSymbol,
         numSplitSymbols' = numSplitSymbols + (IF x = "S" THEN 1 ELSE 0)
  PROVE  TableIsFull' /\ TraceInv'
<1>1. SymbolsFit' /\ BranchesNest' /\ BitsAreOfRoots' /\ RootIsAhead'
  BY StepFits, StepNests, StepBits
<1>2. StackWaits' /\ WhereItStands' /\ GatesLeadBack' /\ FrontierHasGates'
  BY StepWaits, StepStands, StepLeadsBack, StepHasGates
<1>3. InitFacesAreFree' /\ MetVertices' /\ EventsAreWritten' /\ EventsAreTrue'
  BY StepStaysFree, StepMeets, StepEvents
<1>4. SplitFaces' /\ VerticesAreCounted'
  BY StepSplits, StepCounts
<1>5. phase' # "written" /\ TableIsFull'
  BY TraceAtStep, StepAdded DEF SameTable
<1>6. OrderIsComplete'
  BY <1>5 DEF OrderIsComplete
<1> QED
  BY <1>1, <1>2, <1>3, <1>4, <1>5, <1>6 DEF TraceInv

(* The guards of a symbol say what Fits asks of it: a tip nobody has met   *)
(* has no visited face around it, and one that was met is on a boundary or *)
(* has one.                                                                *)
LEMMA SymbolFits ==
  ASSUME WalkInv, TraceInv, TableIsFull, phase = "walk", NEW x \in TopologySymbols,
         x = "C" <=> NewInteriorTip,
         x # "C" => (RightVisited <=> x \in {"R", "E"}) /\ (LeftVisited <=> x \in {"L", "E"})
  PROVE  Fits(x, current, visitedFaces \cup {Face(current)})
<1> DEFINE n == NextCorner(current)
           p == PreviousCorner(current)
           faces == visitedFaces \cup {Face(current)}
<1>1. /\ TableIsReady /\ current \in AllCorners /\ TipVertex \in VertexIDs
      /\ Face(current) \notin visitedFaces /\ TipVertex = cornerVertex[current]
  BY WalkStandsOn DEF WalkInv, GatesAreVisited, CurrentFaceIsFresh, TipVertex
<1>2. GatesLeadBack /\ MetVertices /\ Walking /\ VerticesOfVisitedFaces
  BY DEF TraceInv, WalkPhases, Walking, WalkInv
<1>3. LeadsNowhere(opposite[current], faces)
  <2>1. current \in GateCorners
    BY DEF GateCorners
  <2> QED
    BY <1>2, <2>1 DEF GatesLeadBack, LeadsNowhere
<1>4. RightOfCurrent = opposite[n] /\ LeftOfCurrent = opposite[p]
  BY <1>1, ManifoldCorners DEF RightOfCurrent, LeftOfCurrent, TableIsReady
<1>5. /\ RightVisited <=> LeadsNowhere(opposite[n], faces)
      /\ LeftVisited <=> LeadsNowhere(opposite[p], faces)
  <2>1. \A e \in AllCorners \cup {NoCorner} : e < 0 <=> e = NoCorner
    BY <1>1, TableInUse
  <2> HIDE DEF n, p
  <2> QED
    BY <1>4, <2>1, NeighboursOfCurrent DEF RightVisited, LeftVisited, Gone, LeadsNowhere
<1>6. x = "C" => IsFresh(current, faces) /\ ~ RightVisited /\ ~ LeftVisited
  <2> SUFFICES ASSUME x = "C" PROVE IsFresh(current, faces) /\ ~ RightVisited /\ ~ LeftVisited
    OBVIOUS
  <2>1. TipVertex \notin visitedVertices /\ vertexHoleID[cornerVertex[current]] = -1
    BY <1>1 DEF NewInteriorTip, TipOnBoundary
  <2>2. \A d \in AllCorners : cornerVertex[d] = cornerVertex[current] => Face(d) \notin visitedFaces
    BY <1>1, <1>2, <2>1 DEF VerticesOfVisitedFaces
  <2>3. IsFresh(current, faces)
    BY <2>1, <2>2 DEF IsFresh, Around
  <2>4. opposite[n] # NoCorner /\ opposite[p] # NoCorner
    BY <1>1, <2>1, InteriorVertex
  <2>5. Face(opposite[n]) \notin faces
    BY <1>1, <2>2, <2>4, LeftOfACorner
  <2>6. Face(opposite[p]) \notin faces
    BY <1>1, <2>2, <2>4, RightOfACorner
  <2> QED
    BY <1>5, <2>3, <2>4, <2>5, <2>6 DEF LeadsNowhere
<1>7. x = "S" => ~ IsFresh(current, faces)
  <2> SUFFICES ASSUME x = "S", IsFresh(current, faces) PROVE FALSE
    OBVIOUS
  <2>1. TipVertex \in visitedVertices /\ vertexHoleID[TipVertex] = -1
    BY <1>1 DEF NewInteriorTip, TipOnBoundary, IsFresh
  <2>2. PICK c \in AllCorners : cornerVertex[c] = TipVertex /\ Face(c) \in visitedFaces
    BY <1>2, <2>1 DEF MetVertices
  <2> QED
    BY <1>1, <2>2 DEF IsFresh, Around
<1> HIDE DEF n, p, faces
<1>8. /\ LeadsNowhere(opposite[n], faces) <=> x \in {"R", "E"}
      /\ LeadsNowhere(opposite[p], faces) <=> x \in {"L", "E"}
  BY <1>5, <1>6
<1> QED
  BY <1>3, <1>6, <1>7, <1>8 DEF Fits, n, p, faces

(* A side writes split events only.                                        *)
LEMMA EventIsOne ==
  ASSUME WalkInv, phase = "walk", NEW r \in AllCorners \cup {NoCorner}, NEW edge \in {"left", "right"}
  PROVE  SplitEventAt(r, edge) \in Seq(SplitEvents)
<1> DEFINE e == [source |-> lastEncodedSymbolID + 1, split |-> faceToSplitSymbol[Face(r)], edge |-> edge]
<1>1. lastEncodedSymbolID + 1 \in Nat /\ faceToSplitSymbol \in [AllFaces -> -1 .. lastEncodedSymbolID + 1]
  BY WalkStandsOn
<1>2. r >= 0 => Face(r) \in AllFaces
  BY WalkStandsOn, ManifoldCorners DEF TableIsReady, NoCorner
<1>3. r >= 0 /\ faceToSplitSymbol[Face(r)] >= 0 => faceToSplitSymbol[Face(r)] \in Nat
  BY <1>1, <1>2
<1>4. r >= 0 /\ faceToSplitSymbol[Face(r)] >= 0 => e \in SplitEvents
  BY <1>1, <1>3 DEF SplitEvents
<1>5. SplitEventAt(r, edge) = <<>> \/ (e \in SplitEvents /\ SplitEventAt(r, edge) = <<e>>)
  BY <1>4 DEF SplitEventAt
<1>6. <<>> \in Seq(SplitEvents) /\ \A d \in SplitEvents : <<d>> \in Seq(SplitEvents)
  OBVIOUS
<1> HIDE DEF e
<1> QED
  BY <1>5, <1>6

(* A symbol that records nothing adds no event.                            *)
LEMMA NoEvent ==
  ASSUME TraversalTypes, EventsFollowTheWalk
  PROVE  splitEvents \in Seq(SplitEvents) /\ splitEvents \o <<>> = splitEvents
<1>1. splitEvents \in Seq(SplitEvents)
  BY DEF TraversalTypes, WireTypeOK
<1> QED
  BY <1>1

(* Each of the five symbols keeps the trace.                               *)
LEMMA SymbolKeepsTrace ==
  ASSUME WalkInv, TableIsFull, TraceInv, SymbolC \/ SymbolR \/ SymbolL \/ SymbolE \/ SymbolS
  PROVE  TableIsFull' /\ TraceInv'
<1>1. WalkInv'
  BY WalkSymbolC, WalkSymbolR, WalkSymbolL, WalkSymbolE, WalkSymbolS
<1>2. TraversalTypes /\ EventsFollowTheWalk /\ phase = "walk"
  BY DEF WalkInv, SymbolC, SymbolR, SymbolL, SymbolE, SymbolS, ReachCorner
<1>3. numSplitSymbols \in Nat /\ splitEvents \in Seq(SplitEvents) /\ splitEvents \o <<>> = splitEvents
  BY <1>2, WalkStandsOn, NoEvent
<1>4. \A v \in visitedVertices \cup {TipVertex} : v \in visitedVertices \/ v = TipVertex
  OBVIOUS
<1> DEFINE split(x) == faceToSplitSymbol' = IF x = "S"
                              THEN [faceToSplitSymbol EXCEPT ![Face(current)] = lastEncodedSymbolID + 1]
                              ELSE faceToSplitSymbol
           count(x) == numSplitSymbols' = numSplitSymbols + (IF x = "S" THEN 1 ELSE 0)
           meets == \A v \in visitedVertices' : v \in visitedVertices \/ v = TipVertex \/ vertexHoleID[v] # -1
<1>5. ASSUME NEW x \in TopologySymbols, Fits(x, current, visitedFaces \cup {Face(current)}),
             ReachCorner(x), phase' \in {"branch", "walk"}, Onward(x), Records(x), split(x), count(x), meets
      PROVE  TableIsFull' /\ TraceInv'
  <2>1. visitedFaces' = visitedFaces \cup {Face(current)}
    BY <1>5 DEF ReachCorner
  <2>2. PICK k : k = NumSymbols + 1
    OBVIOUS
  <2>3. Taken(x, k)
    BY <1>1, <1>5, <2>1, <2>2 DEF Taken
  <2> QED
    BY <1>5, <2>3, StepKeepsTrace
<1>6. {"C", "S", "L", "R", "E"} \subseteq TopologySymbols
  BY DEF TopologySymbols
<1>7. CASE SymbolC
  <2> USE <1>7 DEF SymbolC
  <2>1. Fits("C", current, visitedFaces \cup {Face(current)})
    BY <1>2, <1>6, SymbolFits
  <2>2. Onward("C")
    BY <1>2 DEF Onward
  <2>3. Records("C") /\ split("C")
    BY <1>3 DEF Records
  <2>4. count("C") /\ meets
    BY <1>3
  <2> HIDE DEF SymbolC
  <2>5. ReachCorner("C")
    BY DEF SymbolC
  <2>6. phase' \in {"branch", "walk"}
    BY <1>2 DEF SymbolC
  <2> QED
    BY <1>5, <1>6, <2>1, <2>2, <2>3, <2>4, <2>5, <2>6
<1>8. CASE SymbolR
  <2> USE <1>8 DEF SymbolR
  <2>1. Fits("R", current, visitedFaces \cup {Face(current)})
    BY <1>2, <1>6, SymbolFits
  <2>2. Onward("R")
    BY <1>2 DEF Onward
  <2>3. SplitEventAt(RightOfCurrent, "right") \in Seq(SplitEvents)
    BY <1>2, NeighboursOfCurrent, EventIsOne
  <2>4. Records("R") /\ split("R")
    <3>1. (splitEvents \o SplitEventAt(RightOfCurrent, "right")) \o <<>> = splitEvents \o SplitEventAt(RightOfCurrent, "right")
      BY <1>3, <2>3, ElementsOfBoth, ConcatEmptySeq
    <3> QED
      BY <3>1 DEF Records
  <2>5. count("R") /\ meets
    BY <1>3
  <2> HIDE DEF SymbolR
  <2>6. ReachCorner("R")
    BY DEF SymbolR
  <2>7. phase' \in {"branch", "walk"}
    BY <1>2 DEF SymbolR
  <2> QED
    BY <1>5, <1>6, <2>1, <2>2, <2>4, <2>5, <2>6, <2>7
<1>9. CASE SymbolL
  <2> USE <1>9 DEF SymbolL
  <2>1. Fits("L", current, visitedFaces \cup {Face(current)})
    BY <1>2, <1>6, SymbolFits
  <2>2. Onward("L")
    BY <1>2 DEF Onward
  <2>3. Records("L") /\ split("L")
    BY <1>3 DEF Records
  <2>4. count("L") /\ meets
    BY <1>3
  <2> HIDE DEF SymbolL
  <2>5. ReachCorner("L")
    BY DEF SymbolL
  <2>6. phase' \in {"branch", "walk"}
    BY <1>2 DEF SymbolL
  <2> QED
    BY <1>5, <1>6, <2>1, <2>2, <2>3, <2>4, <2>5, <2>6
<1>10. CASE SymbolE
  <2> USE <1>10 DEF SymbolE
  <2>1. Fits("E", current, visitedFaces \cup {Face(current)})
    BY <1>2, <1>6, SymbolFits
  <2>2. Onward("E")
    BY <1>2 DEF Onward
  <2>3. Records("E") /\ split("E")
    BY <1>3 DEF Records
  <2>4. count("E") /\ meets
    BY <1>3
  <2> HIDE DEF SymbolE
  <2>5. ReachCorner("E")
    BY DEF SymbolE
  <2>6. phase' \in {"branch", "walk"}
    BY <1>2 DEF SymbolE
  <2> QED
    BY <1>5, <1>6, <2>1, <2>2, <2>3, <2>4, <2>5, <2>6
<1>11. CASE SymbolS
  <2> USE <1>11 DEF SymbolS
  <2>1. Fits("S", current, visitedFaces \cup {Face(current)})
    BY <1>2, <1>6, SymbolFits
  <2>2. Onward("S")
    BY <1>2 DEF Onward
  <2>3. Records("S") /\ split("S")
    BY <1>3 DEF Records
  <2>4. meets
    <3>1. CASE TipOnBoundary /\ vertexHoleID[TipVertex] \notin visitedHoles
      <4>1. TableIsReady /\ current \in AllCorners
        BY <1>2, WalkStandsOn
      <4>2. \A v \in HoleVertices(current) : vertexHoleID[v] # -1
        BY <3>1, <4>1, HoleIsWalked DEF TipOnBoundary, TipVertex
      <4> QED
        BY <3>1, <4>2
    <3>2. CASE ~ (TipOnBoundary /\ vertexHoleID[TipVertex] \notin visitedHoles)
      BY <3>2
    <3> QED
      BY <3>1, <3>2
  <2>5. count("S")
    BY <1>3
  <2> HIDE DEF SymbolS
  <2>6. ReachCorner("S")
    BY DEF SymbolS
  <2>7. phase' \in {"branch", "walk"}
    BY <1>2 DEF SymbolS
  <2> QED
    BY <1>5, <1>6, <2>1, <2>2, <2>3, <2>4, <2>5, <2>6, <2>7
<1> QED
  BY <1>7, <1>8, <1>9, <1>10, <1>11

(* What a step that writes no symbol leaves alone.                         *)
StillWalked ==
  /\ SameTable /\ Steps' = Steps /\ symbols' = symbols
  /\ NumSymbols \in Nat /\ NumSymbols' = NumSymbols
  /\ \A i \in Steps :
       /\ Walked(i)' = Walked(i) /\ RightOf(i)' = RightOf(i) /\ LeftOf(i)' = LeftOf(i)
       /\ NextStep(i)' = NextStep(i)
       /\ {Face(Walked(j)) : j \in 1 .. i}' = {Face(Walked(j)) : j \in 1 .. i}
  /\ \A j : IsBranch(j)' <=> IsBranch(j)
  /\ \A j, i \in Steps : IsChild(j, i)' <=> IsChild(j, i)
  /\ \A i \in Steps : \A k : NestedIn(i, k)' <=> NestedIn(i, k)
  /\ \A c : \A i \in Steps : WaitsSince(c, i)' <=> WaitsSince(c, i)
  /\ MidBranch' <=> MidBranch
  /\ \A s : Places(s)' = Places(s)

(* A step that takes no face leaves the walk as it was.                    *)
LEMMA NothingTaken ==
  ASSUME SameTable, symbols' = symbols, NumSymbols \in Nat,
         \A i \in Steps : Walked(i)' = Walked(i)
  PROVE  StillWalked
<1>1. NumSymbols' = NumSymbols
  BY DEF NumSymbols
<1>2. Steps' = Steps /\ \A i \in Steps : i \in Nat
  BY <1>1 DEF Steps
<1>3. ASSUME NEW i \in Steps
      PROVE  /\ Walked(i)' = Walked(i) /\ RightOf(i)' = RightOf(i) /\ LeftOf(i)' = LeftOf(i)
             /\ NextStep(i)' = NextStep(i)
  BY DEF SameTable, RightOf, LeftOf, NextStep
<1>4. ASSUME NEW i \in Steps
      PROVE  {Face(Walked(j)) : j \in 1 .. i}' = {Face(Walked(j)) : j \in 1 .. i}
  <2>1. \A j \in 1 .. i : j \in Steps
    BY DEF Steps
  <2>2. \A j \in 1 .. i : Walked(j)' = Walked(j)
    BY <2>1
  <2> QED
    BY <2>2
<1>5. \A j : IsBranch(j)' <=> IsBranch(j)
  BY <1>2 DEF IsBranch
<1>6. \A j, i \in Steps : IsChild(j, i)' <=> IsChild(j, i)
  BY <1>3 DEF IsChild
<1>7. ASSUME NEW i \in Steps, NEW k PROVE NestedIn(i, k)' <=> NestedIn(i, k)
  <2>1. \A h \in i + 1 .. NumSymbols : h \in Steps
    BY DEF Steps
  <2>2. \A b : IsBranch(b) => b \in Steps
    BY DEF IsBranch
  <2>3. \A b \in i + 2 .. k : IsBranch(b) =>
          ((\E h \in i + 1 .. NumSymbols : IsChild(b, h)') <=> (\E h \in i + 1 .. NumSymbols : IsChild(b, h)))
    BY <1>6, <2>1, <2>2
  <2>4. NestedIn(i, k)' <=> \A b \in i + 2 .. k : IsBranch(b)' => \E h \in i + 1 .. NumSymbols' : IsChild(b, h)'
    BY DEF NestedIn
  <2> QED
    BY <1>1, <1>5, <2>3, <2>4 DEF NestedIn
<1>8. ASSUME NEW c, NEW i \in Steps PROVE WaitsSince(c, i)' <=> WaitsSince(c, i)
  <2>1. WaitsSince(c, i)' <=> i \in Steps' /\ symbols'[i] = "S" /\ c = LeftOf(i)' /\ NestedIn(i, NumSymbols)'
    BY DEF WaitsSince
  <2>2. PICK k : k = NumSymbols
    OBVIOUS
  <2>3. NestedIn(i, NumSymbols)' <=> NestedIn(i, k)'
    BY <1>1, <2>2 DEF NestedIn
  <2>4. NestedIn(i, NumSymbols) <=> NestedIn(i, k)
    BY <2>2
  <2> QED
    BY <1>2, <1>3, <1>7, <2>1, <2>3, <2>4 DEF WaitsSince
<1>9. MidBranch' <=> MidBranch
  BY DEF MidBranch, NumSymbols
<1>10. \A s : Places(s)' = Places(s)
  BY <1>2 DEF Places
<1> QED
  BY <1>1, <1>2, <1>3, <1>4, <1>5, <1>6, <1>7, <1>8, <1>9, <1>10 DEF StillWalked

(* What is said of the steps alone stays.                                  *)
LEMMA StillFits ==
  ASSUME StillWalked, FacesOf(initFaceCorners)' = FacesOf(initFaceCorners)
  PROVE  /\ SymbolsFit => SymbolsFit'
         /\ BranchesNest => BranchesNest'
         /\ InitFacesAreFree => InitFacesAreFree'
         /\ Roots' = Roots /\ \A j \in Roots : RankOf(j)' = RankOf(j)
<1>1. \A i \in Steps : Old(i)' = Old(i)
  BY DEF Old, StillWalked
<1>2. SymbolsFit => SymbolsFit'
  <2>1. \A i \in Steps : Fits(symbols[i], Walked(i), Old(i))' <=> Fits(symbols[i], Walked(i), Old(i))
    <3>1. \A i \in Steps : \A x, c, F :
            symbols'[i] = x /\ Walked(i)' = c /\ Old(i)' = F =>
              (Fits(symbols[i], Walked(i), Old(i))' <=> Fits(x, c, F)')
      BY DEF Fits, LeadsNowhere, IsFresh, Around
    <3> QED
      BY <1>1, <3>1 DEF StillWalked, SameTable
  <2>2. \A i \in Steps : i < NumSymbols => i + 1 \in Steps
    BY DEF Steps, StillWalked
  <2>3. ASSUME SymbolsFit, NEW i \in Steps
        PROVE  /\ Fits(symbols[i], Walked(i), Old(i))'
               /\ i < NumSymbols' /\ symbols'[i] # "E" => Walked(i + 1)' = NextStep(i)'
    <3>1. i < NumSymbols => Walked(i + 1)' = Walked(i + 1)
      BY <2>2 DEF StillWalked
    <3> QED
      BY <2>1, <2>3, <3>1 DEF SymbolsFit, StillWalked
  <2>4. Steps' = Steps
    BY DEF StillWalked
  <2> QED
    BY <2>3, <2>4 DEF SymbolsFit
<1>3. \A j \in Steps : IsRoot(j)' <=> IsRoot(j)
  BY DEF IsRoot, LeadsNowhere, StillWalked, SameTable
<1>4. BranchesNest => BranchesNest'
  <2>1. \A j \in Steps : \A i \in 1 .. j - 2 : i \in Steps
    BY DEF Steps, StillWalked
  <2>2. ASSUME NEW j \in Steps, BranchesNest, IsBranch(j)'
        PROVE  IsRoot(j)' \/ \E i \in 1 .. j - 2 : IsChild(j, i)' /\ NestedIn(i, j - 1)'
    BY <1>3, <2>1, <2>2 DEF BranchesNest, StillWalked
  <2> QED
    BY <2>2 DEF BranchesNest, StillWalked
<1>5. InitFacesAreFree => InitFacesAreFree'
  <2>1. \A c \in AllCorners : \A F :
           F = FacesOf(initFaceCorners) => (IsFresh(c, FacesOf(initFaceCorners))' <=> IsFresh(c, F)')
    BY DEF IsFresh, Around
  <2> QED
    BY <2>1 DEF InitFacesAreFree, StillWalked, SameTable
<1>6. Roots' = Roots
  BY <1>3 DEF Roots, StillWalked
<1>7. \A j \in Roots : RankOf(j)' = RankOf(j)
  BY <1>6 DEF RankOf, RootsUpTo
<1> QED
  BY <1>2, <1>4, <1>5, <1>6, <1>7

(* So does what is said of the split events.                               *)
LEMMA StillWritten ==
  ASSUME StillWalked, splitEvents' = splitEvents
  PROVE  /\ EventsAreWritten => EventsAreWritten'
         /\ EventsAreTrue => EventsAreTrue'
<1>1. \A m \in Steps : \A i \in 1 .. m - 1 : i \in Steps
  BY DEF Steps, StillWalked
<1>2. \A m, i \in Steps : /\ BackTo(i, RightOf(m))' <=> BackTo(i, RightOf(m))
                          /\ BackTo(i, LeftOf(m))' <=> BackTo(i, LeftOf(m))
  BY DEF BackTo, StillWalked
<1>3. EventsAreWritten => EventsAreWritten'
  BY <1>1, <1>2 DEF EventsAreWritten, StillWalked
<1>4. \A e : IsTrueEvent(e) => IsTrueEvent(e)'
  BY <1>1, <1>2 DEF IsTrueEvent, StillWalked
<1> QED
  BY <1>3, <1>4 DEF EventsAreTrue

(* So do the steps of the faces of S.                                      *)
LEMMA StillSplit ==
  ASSUME StillWalked, Walking, Walking', SplitFaces,
         UNCHANGED <<lastEncodedSymbolID, faceToSplitSymbol>>
  PROVE  SplitFaces'
BY DEF SplitFaces, StillWalked, SameTable

(* So does the count of vertices.                                          *)
LEMMA StillCounted ==
  ASSUME StillWalked, VerticesAreCounted, visitedFaces' = visitedFaces,
         numSplitSymbols' = numSplitSymbols
  PROVE  VerticesAreCounted'
<1>1. Heads' = Heads /\ Rings' = Rings
  BY DEF Heads, Rings, StillWalked, SameTable, LeadsNowhere
<1>2. StoredVertices' = StoredVertices /\ \A s : Places(s)' = Places(s)
  BY DEF StillWalked, SameTable
<1>3. /\ Places({"R"})' = Places({"R"}) /\ Places({"L"})' = Places({"L"})
      /\ Places({"E"})' = Places({"E"}) /\ Places({"S"})' = Places({"S"})
  BY <1>2
<1> QED
  BY <1>1, <1>2, <1>3 DEF VerticesAreCounted

(* Between two components no face is taken.                                *)
LEMMA StillWalkedBetween ==
  ASSUME WalkInv, TableIsFull, phase \in Between, phase' \in {"ready", "branch", "walk"},
         UNCHANGED <<mesh, opposite, cornerVertex, vertexCorners, vertexHoleID, numHoles>>,
         UNCHANGED <<symbols, processedCorners>>
  PROVE  StillWalked /\ Walking /\ Walking' /\ TableIsFull'
<1>1. Walking /\ Walking' /\ phase # "written" /\ phase' # "written"
  BY DEF Walking, Between
<1>2. TableIsReady /\ NumSymbols \in Nat
  BY <1>1, StepsInHand
<1>3. SameTable
  BY <1>2, TableIsTheSame
<1>4. \A i \in Steps : Walked(i)' = Walked(i)
  BY <1>1 DEF Walked
<1> QED
  BY <1>1, <1>2, <1>3, <1>4, NothingTaken DEF SameTable

(* The walk between two symbols: branches are dropped and entered, and a   *)
(* component ends, while nothing is written.                               *)
OnlyMoves ==
  /\ phase' \in {"ready", "branch", "walk"}
  /\ UNCHANGED <<mesh, opposite, cornerVertex, vertexCorners, vertexHoleID, numHoles>>
  /\ UNCHANGED <<symbols, processedCorners, initFaceCorners, startFaces, splitEvents,
                 lastEncodedSymbolID, faceToSplitSymbol, numSplitSymbols,
                 visitedFaces, visitedVertices>>

(* A move of the stack alone keeps the trace, if it keeps what the trace   *)
(* says of the stack.                                                      *)
LEMMA MovesKeepTrace ==
  ASSUME WalkInv, TableIsFull, TraceInv, phase \in Between, OnlyMoves
  PROVE  /\ StillWalked /\ TableIsFull' /\ Roots' = Roots /\ (RootAhead' <=> RootAhead)
         /\ RootIsAhead' /\ StackWaits' /\ WhereItStands' /\ GatesLeadBack' /\ FrontierHasGates'
              => TraceInv'
<1>1. StillWalked /\ Walking /\ Walking' /\ TableIsFull'
  BY StillWalkedBetween DEF OnlyMoves
<1>2. FacesOf(initFaceCorners)' = FacesOf(initFaceCorners)
  BY DEF OnlyMoves, FacesOf
<1>3. SymbolsFit' /\ BranchesNest' /\ InitFacesAreFree' /\ Roots' = Roots
      /\ \A j \in Roots : RankOf(j)' = RankOf(j)
  BY <1>1, <1>2, StillFits DEF TraceInv, WalkPhases, Between
<1>4. RootAhead' <=> RootAhead
  BY <1>3 DEF RootAhead, OnlyMoves
<1>5. EventsAreWritten' /\ EventsAreTrue' /\ SplitFaces' /\ VerticesAreCounted'
  BY <1>1, StillWritten, StillSplit, StillCounted DEF TraceInv, WalkPhases, Between, OnlyMoves
<1>6. MetVertices'
  <2>1. MetVertices
    BY DEF TraceInv, WalkPhases, Between
  <2> QED
    BY <1>1, <2>1 DEF MetVertices, StillWalked, SameTable, OnlyMoves
<1>7. BitsAreOfRoots'
  <2>1. BitsAreOfRoots
    BY DEF TraceInv, WalkPhases, Between
  <2>2. \A k : InnerBits(k)' = InnerBits(k)
    BY DEF InnerBits, OnlyMoves
  <2>3. \A j \in Roots : /\ RankOf(j)' = RankOf(j) /\ Walked(j)' = Walked(j)
                         /\ InnerBits(RankOf(j))' = InnerBits(RankOf(j))
    <3>1. \A j \in Roots : RankOf(j)' = RankOf(j) /\ Walked(j)' = Walked(j)
      BY <1>1, <1>3 DEF StillWalked, Roots
    <3>2. \A j \in Roots : \A k : RankOf(j)' = k => InnerBits(RankOf(j))' = InnerBits(k)'
      BY DEF InnerBits
    <3> QED
      BY <2>2, <3>1, <3>2
  <2>4. InnerBits(Len(startFaces))' = InnerBits(Len(startFaces))
    BY DEF InnerBits, OnlyMoves
  <2>5. opposite' = opposite /\ startFaces' = startFaces /\ initFaceCorners' = initFaceCorners
    BY DEF OnlyMoves
  <2> QED
    BY <1>3, <2>1, <2>3, <2>4, <2>5 DEF BitsAreOfRoots
<1>8. OrderIsComplete'
  BY DEF OrderIsComplete, OnlyMoves
<1> QED
  BY <1>1, <1>3, <1>4, <1>5, <1>6, <1>7, <1>8 DEF TraceInv

(* What the trace says between two symbols.                                *)
LEMMA TraceBetween ==
  ASSUME WalkInv, TableIsFull, TraceInv, phase \in Between
  PROVE  /\ SymbolsFit /\ BranchesNest /\ BitsAreOfRoots
         /\ RootIsAhead /\ StackWaits /\ WhereItStands
         /\ GatesLeadBack /\ FrontierHasGates /\ InitFacesAreFree /\ MetVertices
         /\ EventsAreWritten /\ EventsAreTrue /\ SplitFaces
         /\ VerticesAreCounted
         /\ TableIsReady /\ NumSymbols \in Nat /\ Walking
         /\ cornerTraversalStack \in Seq(AllCorners \cup {NoCorner})
         /\ Old(NumSymbols) = visitedFaces
         /\ (MidBranch => NumSymbols \in Steps)
         /\ \A c \in AllCorners : c >= 0
<1>1. Walking
  BY DEF Walking, Between
<1>2. TableIsReady /\ NumSymbols \in Nat /\ Old(NumSymbols) = visitedFaces
      /\ cornerTraversalStack \in Seq(AllCorners \cup {NoCorner})
  BY <1>1, StepsInHand
<1>3. MidBranch => NumSymbols \in Steps
  BY <1>2 DEF MidBranch, Steps
<1> QED
  BY <1>1, <1>2, <1>3, TableInUse DEF TraceInv, WalkPhases, Between

(* A stack without its top.                                                *)
LEMMA FrontOf ==
  ASSUME NEW S, NEW s \in Seq(S), s # <<>>
  PROVE  /\ Front(s) \in Seq(S) /\ Len(Front(s)) = Len(s) - 1
         /\ \A a \in 1 .. Len(s) - 1 : Front(s)[a] = s[a]
<1> DEFINE m == Len(s)
<1>1. m \in Nat \ {0} /\ \A i \in 1 .. m : s[i] \in S
  BY LenProperties, EmptySeq
<1>2. Front(s) = SubSeq(s, 1, m - 1)
  BY DEF Front
<1> HIDE DEF m
<1>3. m - 1 \in Int /\ (\A i \in 1 .. m - 1 : s[i] \in S) /\ m - 1 - 1 + 1 = m - 1
  BY <1>1
<1>4. /\ SubSeq(s, 1, m - 1) \in Seq(S)
      /\ Len(SubSeq(s, 1, m - 1)) = IF 1 <= m - 1 THEN m - 1 - 1 + 1 ELSE 0
      /\ \A a \in 1 .. m - 1 - 1 + 1 : SubSeq(s, 1, m - 1)[a] = s[1 + a - 1]
  BY <1>3, SubSeqProperties
<1>5. Len(SubSeq(s, 1, m - 1)) = m - 1
  BY <1>1, <1>4
<1>6. \A a \in 1 .. m - 1 : SubSeq(s, 1, m - 1)[a] = s[a]
  BY <1>3, <1>4
<1> QED
  BY <1>2, <1>4, <1>5, <1>6 DEF m

(* The branch that is dropped is not the one being walked, nor a root.     *)
LEMMA DropKeepsTrace ==
  ASSUME WalkInv, TableIsFull, TraceInv, DropVisitedBranch
  PROVE  TableIsFull' /\ TraceInv'
<1> DEFINE st == cornerTraversalStack
           L == Len(st)
<1>1. phase = "branch" /\ phase' = "branch" /\ phase \in Between /\ OnlyMoves
      /\ st # <<>> /\ BranchIsOver /\ st' = Front(st)
  BY DEF DropVisitedBranch, UnchangedOutsideTraversal, tableVars, OnlyMoves, Between
<1>2. /\ st \in Seq(AllCorners \cup {NoCorner}) /\ L \in Nat /\ L >= 1
      /\ GatesLeadBack /\ WhereItStands /\ RootIsAhead /\ StackWaits /\ FrontierHasGates /\ SymbolsFit
      /\ Old(NumSymbols) = visitedFaces /\ NumSymbols \in Nat /\ TableIsReady /\ Walking
  <2>1. st \in Seq(AllCorners \cup {NoCorner})
    BY <1>1, TraceBetween
  <2>2. L \in Nat /\ L >= 1
    BY <1>1, <2>1
  <2> QED
    BY <1>1, <2>1, <2>2, TraceBetween
<1>3. /\ L - 1 \in Nat /\ DOMAIN st = 1 .. L /\ DOMAIN st' = 1 .. L - 1 /\ Len(st') = L - 1
      /\ \A a \in 1 .. L - 1 : st'[a] = st[a]
  <2>1. st' \in Seq(AllCorners \cup {NoCorner}) /\ Len(st') = L - 1 /\ \A a \in 1 .. L - 1 : st'[a] = st[a]
    BY <1>1, <1>2, FrontOf
  <2> QED
    BY <1>2, <2>1
<1>4. st[L] \in AllCorners /\ Face(st[L]) \in visitedFaces
  <2>1. st[L] \in GateCorners
    BY <1>2, <1>3 DEF GateCorners
  <2>2. st[L] \in AllCorners
    BY <1>2, <2>1 DEF GatesLeadBack
  <2>3. Gone(st[L], visitedFaces)
    BY <1>1 DEF BranchIsOver, Last
  <2> QED
    BY <1>2, <2>2, <2>3, TableInUse DEF Gone
<1>5. ~ MidBranch
  <2> SUFFICES ASSUME MidBranch PROVE FALSE
    OBVIOUS
  <2>1. NumSymbols \in Steps /\ symbols[NumSymbols] = "S" /\ st[L] = NextStep(NumSymbols)
    BY <1>1, <1>2, TraceBetween DEF WhereItStands
  <2>2. st[L] = RightOf(NumSymbols)
    BY <2>1 DEF NextStep
  <2>3. Fits(symbols[NumSymbols], Walked(NumSymbols), Old(NumSymbols))
    BY <1>2, <2>1 DEF SymbolsFit
  <2> QED
    BY <1>2, <1>4, <2>1, <2>2, <2>3 DEF Fits, LeadsNowhere, RightOf
<1>6. ~ RootAhead
  BY <1>2, <1>4 DEF RootIsAhead, LeadsToRoot
<1>7. StillWalked /\ (RootAhead' <=> RootAhead) /\ TableIsFull'
      /\ (RootIsAhead' /\ StackWaits' /\ WhereItStands' /\ GatesLeadBack' /\ FrontierHasGates'
              => TraceInv')
  BY <1>1, MovesKeepTrace
<1>8. ~ MidBranch' /\ RootIsAhead' /\ WhereItStands'
  <2>1. ~ MidBranch'
    BY <1>5, <1>7 DEF StillWalked
  <2>2. RootIsAhead'
    BY <1>6, <1>7 DEF RootIsAhead
  <2> QED
    BY <1>1, <2>1, <2>2 DEF WhereItStands
<1>9. StackWaits'
  <2>1. Waiting = L /\ Waiting' = L - 1 /\ Steps' = Steps
    BY <1>3, <1>5, <1>7, <1>8 DEF Waiting, StillWalked
  <2>2. /\ \A a \in 1 .. L : \E i \in Steps : WaitsSince(st[a], i)
        /\ \A a, b \in 1 .. L : \A i, h \in Steps :
             a < b /\ WaitsSince(st[a], i) /\ WaitsSince(st[b], h) => i < h
    BY <1>1, <1>2, <1>6, <2>1 DEF StackWaits
  <2>3. \A a \in 1 .. L - 1 : a \in 1 .. L
    BY <1>2
  <2>4. \A a \in 1 .. L - 1 : \A i \in Steps : WaitsSince(cornerTraversalStack[a], i)' <=> WaitsSince(st[a], i)
    <3>1. \A a : \A i \in Steps : WaitsSince(cornerTraversalStack[a], i)' <=> WaitsSince(st'[a], i)
      <4>1. \A c, a : \A i \in Steps : c = st'[a] => (WaitsSince(cornerTraversalStack[a], i)' <=> WaitsSince(c, i)')
        BY DEF WaitsSince
      <4> QED
        BY <1>7, <4>1 DEF StillWalked
    <3> QED
      BY <1>3, <3>1
  <2> HIDE DEF L, st
  <2>5. \A a \in 1 .. L - 1 : \E i \in Steps : WaitsSince(cornerTraversalStack[a], i)'
    BY <2>2, <2>3, <2>4
  <2>6. \A a, b \in 1 .. L - 1 : \A i, h \in Steps :
          a < b /\ WaitsSince(cornerTraversalStack[a], i)' /\ WaitsSince(cornerTraversalStack[b], h)' => i < h
    BY <2>2, <2>3, <2>4
  <2> QED
    BY <1>8, <2>1, <2>5, <2>6 DEF StackWaits
<1>10. GateCorners' \subseteq GateCorners /\ \A c \in GateCorners : c \in GateCorners' \/ Face(c) \in visitedFaces
  <2>1. GateCorners = {st[a] : a \in 1 .. L}
    BY <1>1, <1>3 DEF GateCorners
  <2>2. GateCorners' = {st'[a] : a \in 1 .. L - 1}
    BY <1>1, <1>3 DEF GateCorners
  <2>3. \A a \in 1 .. L : a \in 1 .. L - 1 \/ a = L
    BY <1>2
  <2>4. \A a \in 1 .. L - 1 : a \in 1 .. L
    BY <1>2
  <2> HIDE DEF st, L
  <2> QED
    BY <1>3, <1>4, <2>1, <2>2, <2>3, <2>4
<1>11. GatesLeadBack'
  BY <1>2, <1>7, <1>10 DEF GatesLeadBack, OnlyMoves, StillWalked, SameTable, LeadsNowhere, DropVisitedBranch
<1>12. FrontierHasGates'
  <2>1. visitedFaces' = visitedFaces /\ AllFaces' = AllFaces
        /\ (\A X : KeepsWithin(X, visitedFaces)' <=> KeepsWithin(X, visitedFaces))
        /\ (\A X : Touches(X, visitedFaces)' <=> Touches(X, visitedFaces))
    BY <1>1, <1>7 DEF OnlyMoves, StillWalked, SameTable, KeepsWithin, Touches, LeadsNowhere
  <2> QED
    BY <1>2, <1>10, <2>1 DEF FrontierHasGates
<1> QED
  BY <1>7, <1>8, <1>9, <1>11, <1>12

(* Going on with the corner on top of the stack keeps the trace.           *)
LEMMA EnterKeepsTrace ==
  ASSUME WalkInv, TableIsFull, TraceInv, EnterBranch
  PROVE  TableIsFull' /\ TraceInv'
<1> DEFINE st == cornerTraversalStack
           L == Len(st)
<1>1. phase = "branch" /\ phase' = "walk" /\ phase \in Between /\ OnlyMoves
      /\ st # <<>> /\ ~ BranchIsOver /\ st' = st /\ current' = Last(st)
  BY DEF EnterBranch, UnchangedOutsideTraversal, tableVars, OnlyMoves, Between
<1>2. /\ st \in Seq(AllCorners \cup {NoCorner})
      /\ GatesLeadBack /\ WhereItStands /\ RootIsAhead /\ StackWaits /\ FrontierHasGates
      /\ TableIsReady /\ Walking
  BY <1>1, TraceBetween
<1>3. L \in Nat /\ L >= 1 /\ DOMAIN st = 1 .. L /\ current' = st[L]
  BY <1>1, <1>2 DEF Last
<1>4. StillWalked /\ Roots' = Roots /\ (RootAhead' <=> RootAhead) /\ TableIsFull'
      /\ (RootIsAhead' /\ StackWaits' /\ WhereItStands' /\ GatesLeadBack' /\ FrontierHasGates'
              => TraceInv')
  BY <1>1, MovesKeepTrace
<1>5. RootIsAhead'
  <2>1. \A c : LeadsToRoot(c)' <=> LeadsToRoot(c)
    BY <1>1, <1>4 DEF LeadsToRoot, OnlyMoves, StillWalked, SameTable
  <2>2. LeadsToRoot(cornerTraversalStack[1])' <=> LeadsToRoot(cornerTraversalStack[1])
    BY <1>1, <1>4, <2>1 DEF LeadsToRoot, OnlyMoves, StillWalked, SameTable
  <2> QED
    BY <1>1, <1>2, <1>4, <2>2 DEF RootIsAhead, OnlyMoves, StillWalked
<1>6. StackWaits'
  <2>1. Waiting' = Waiting /\ Steps' = Steps /\ (MidBranch' <=> MidBranch)
    BY <1>1, <1>4 DEF Waiting, StillWalked
  <2>2. \A a : \A i \in Steps : WaitsSince(cornerTraversalStack[a], i)' <=> WaitsSince(cornerTraversalStack[a], i)
    <3>1. \A c, a : \A i \in Steps : c = st'[a] => (WaitsSince(cornerTraversalStack[a], i)' <=> WaitsSince(c, i)')
      BY DEF WaitsSince
    <3> QED
      BY <1>1, <1>4, <3>1 DEF StillWalked
  <2> QED
    BY <1>1, <1>2, <1>4, <2>1, <2>2 DEF StackWaits
<1>7. WhereItStands'
  <2>1. MidBranch => NumSymbols \in Steps /\ st[L] = NextStep(NumSymbols)
    BY <1>1, <1>2, TraceBetween DEF WhereItStands
  <2>2. MidBranch => NextStep(NumSymbols)' = NextStep(NumSymbols)
    <3>1. ASSUME MidBranch PROVE NextStep(NumSymbols)' = NextStep(NumSymbols)
      <4>1. PICK k : k = NumSymbols
        OBVIOUS
      <4>2. k \in Steps /\ NumSymbols' = k
        BY <2>1, <3>1, <4>1, <1>4 DEF StillWalked
      <4>3. NextStep(NumSymbols)' = NextStep(k)'
        BY <4>2 DEF NextStep, LeftOf, RightOf, Walked
      <4> QED
        BY <1>4, <4>1, <4>2, <4>3 DEF StillWalked
    <3> QED
      BY <3>1
  <2>3. current' = IF MidBranch' THEN NextStep(NumSymbols)'
                   ELSE cornerTraversalStack'[Len(cornerTraversalStack')]
    BY <1>1, <1>3, <1>4, <2>1, <2>2 DEF StillWalked
  <2>4. Face(cornerTraversalStack'[Len(cornerTraversalStack')]) \in visitedFaces' \cup {Face(current')}
    BY <1>1, <1>3
  <2> QED
    BY <1>1, <2>3, <2>4 DEF WhereItStands
<1>8. GateCorners' = GateCorners
  <2>1. GateCorners = {st[a] : a \in 1 .. L}
    BY <1>1, <1>3 DEF GateCorners
  <2>2. GateCorners' = {st[a] : a \in 1 .. L} \cup {st[L]}
    BY <1>1, <1>3 DEF GateCorners
  <2>3. L \in 1 .. L
    BY <1>3
  <2> HIDE DEF st, L
  <2> QED
    BY <2>1, <2>2, <2>3
<1>9. GatesLeadBack'
  BY <1>1, <1>2, <1>4, <1>8 DEF GatesLeadBack, OnlyMoves, StillWalked, SameTable, LeadsNowhere
<1>10. FrontierHasGates'
  <2>1. visitedFaces' = visitedFaces /\ AllFaces' = AllFaces
        /\ (\A X : KeepsWithin(X, visitedFaces)' <=> KeepsWithin(X, visitedFaces))
        /\ (\A X : Touches(X, visitedFaces)' <=> Touches(X, visitedFaces))
    BY <1>1, <1>4 DEF OnlyMoves, StillWalked, SameTable, KeepsWithin, Touches, LeadsNowhere
  <2> QED
    BY <1>2, <1>8, <2>1 DEF FrontierHasGates
<1> QED
  BY <1>4, <1>5, <1>6, <1>7, <1>9, <1>10

(* So does the end of a component.                                         *)
LEMMA ComponentDoneKeepsTrace ==
  ASSUME WalkInv, TableIsFull, TraceInv, ComponentDone
  PROVE  TableIsFull' /\ TraceInv'
<1>1. phase = "branch" /\ phase' = "ready" /\ phase \in Between /\ OnlyMoves
      /\ cornerTraversalStack = <<>> /\ cornerTraversalStack' = cornerTraversalStack
  BY DEF ComponentDone, UnchangedOutsideTraversal, tableVars, OnlyMoves, Between
<1>2. /\ GatesLeadBack /\ RootIsAhead /\ StackWaits /\ FrontierHasGates
      /\ TableIsReady /\ Walking
  BY <1>1, TraceBetween
<1>3. ~ MidBranch /\ ~ RootAhead
  <2>1. Len(cornerTraversalStack) = 0
    BY <1>1
  <2> QED
    BY <1>1, <1>2, <2>1 DEF StackWaits, RootIsAhead
<1>4. StillWalked /\ (RootAhead' <=> RootAhead) /\ TableIsFull'
      /\ (RootIsAhead' /\ StackWaits' /\ WhereItStands' /\ GatesLeadBack' /\ FrontierHasGates'
              => TraceInv')
  BY <1>1, MovesKeepTrace
<1>5. RootIsAhead' /\ StackWaits' /\ WhereItStands'
  BY <1>1, <1>3, <1>4 DEF RootIsAhead, StackWaits, WhereItStands, StillWalked
<1>6. GateCorners' = GateCorners
  BY <1>1 DEF GateCorners
<1>7. GatesLeadBack'
  BY <1>1, <1>2, <1>4, <1>6 DEF GatesLeadBack, OnlyMoves, StillWalked, SameTable, LeadsNowhere
<1>8. FrontierHasGates'
  <2>1. visitedFaces' = visitedFaces /\ AllFaces' = AllFaces
        /\ (\A X : KeepsWithin(X, visitedFaces)' <=> KeepsWithin(X, visitedFaces))
        /\ (\A X : Touches(X, visitedFaces)' <=> Touches(X, visitedFaces))
    BY <1>1, <1>4 DEF OnlyMoves, StillWalked, SameTable, KeepsWithin, Touches, LeadsNowhere
  <2> QED
    BY <1>2, <1>6, <2>1 DEF FrontierHasGates
<1> QED
  BY <1>4, <1>5, <1>7, <1>8

(* Between two components the faces that are gone are whole components:    *)
(* with no gate left, nothing that is left touches them.                   *)
LEMMA ReadyIsClosed ==
  ASSUME WalkInv, TableIsFull, TraceInv, phase = "ready"
  PROVE  /\ SpreadsOver(visitedFaces) /\ SpreadsOver(AllFaces \ visitedFaces)
         /\ GateCorners = {} /\ cornerTraversalStack = <<>> /\ ~ MidBranch /\ ~ RootAhead
         /\ Cardinality(Roots) = Len(startFaces)
<1>1. phase \in Between
  BY DEF Between
<1>2. FrontierHasGates /\ WhereItStands /\ RootIsAhead /\ TableIsReady /\ Walking
  BY <1>1, TraceBetween
<1>3. ~ MidBranch /\ ~ RootAhead /\ cornerTraversalStack = <<>> /\ GateCorners = {}
  BY <1>2 DEF WhereItStands, RootIsAhead, GateCorners
<1> DEFINE X == AllFaces \ visitedFaces
<1>4. \A c \in AllCorners : Face(c) \in AllFaces /\ opposite[c] \in AllCorners \cup {NoCorner}
                            /\ (opposite[c] # NoCorner => Face(opposite[c]) \in AllFaces
                                                          /\ opposite[opposite[c]] = c)
  BY <1>2, ManifoldCorners, ManifoldEdges, TableInUse DEF TableIsReady
<1>5. KeepsWithin(X, visitedFaces)
  BY <1>4 DEF KeepsWithin, LeadsNowhere
<1>6. ~ Touches(X, visitedFaces)
  BY <1>2, <1>3, <1>5 DEF FrontierHasGates
<1>7. SpreadsOver(X)
  BY <1>4, <1>6 DEF SpreadsOver, Touches
<1>8. SpreadsOver(visitedFaces)
  <2> SUFFICES ASSUME NEW c \in AllCorners, Face(c) \in visitedFaces, opposite[c] # NoCorner,
                      Face(opposite[c]) \notin visitedFaces
               PROVE  FALSE
    BY DEF SpreadsOver
  <2>1. opposite[c] \in AllCorners /\ Face(opposite[c]) \in X
    BY <1>4
  <2>2. opposite[opposite[c]] = c
    BY <1>4
  <2>3. c # NoCorner
    BY <1>2, TableInUse
  <2> HIDE DEF X
  <2> QED
    BY <1>6, <2>1, <2>2, <2>3 DEF Touches
<1> QED
  BY <1>3, <1>7, <1>8 DEF RootAhead

(* One more start-face bit.                                                *)
LEMMA BitAppended ==
  ASSUME startFaces \in Seq(BOOLEAN), NEW bit \in BOOLEAN, startFaces' = Append(startFaces, bit),
         NEW m, m = Len(startFaces)
  PROVE  /\ m \in Nat /\ Len(startFaces') = m + 1 /\ startFaces'[m + 1] = bit
         /\ \A k \in 1 .. m : startFaces'[k] = startFaces[k]
         /\ \A k : k \in 0 .. m => InnerBits(k)' = InnerBits(k)
         /\ InnerBits(Len(startFaces))' = InnerBits(m) + (IF bit THEN 1 ELSE 0)
         /\ InnerBits(m) \in Nat
<1>1. /\ m \in Nat /\ Len(startFaces') = m + 1 /\ startFaces'[m + 1] = bit
      /\ \A k \in 1 .. m : startFaces'[k] = startFaces[k]
  OBVIOUS
<1>2. ASSUME NEW k, k \in 0 .. m PROVE InnerBits(k)' = InnerBits(k)
  <2>1. \A i \in 1 .. k : i \in 1 .. m
    BY <1>1, <1>2
  <2>2. {i \in 1 .. k : startFaces'[i]} = {i \in 1 .. k : startFaces[i]}
    BY <1>1, <2>1
  <2> QED
    BY <2>2 DEF InnerBits
<1> DEFINE A == {i \in 1 .. m : startFaces[i]}
           B == {i \in 1 .. m + 1 : startFaces'[i]}
<1>3. IsFiniteSet(A) /\ Cardinality(A) \in Nat
  <2>1. IsFiniteSet(1 .. m)
    BY <1>1, FS_Interval
  <2>2. A \in SUBSET (1 .. m)
    OBVIOUS
  <2> HIDE DEF A
  <2> QED
    BY <2>1, <2>2, FS_Subset, FS_CardinalityType
<1>4. B = A \cup (IF bit THEN {m + 1} ELSE {}) /\ m + 1 \notin A
  <2>1. \A i : i \in 1 .. m + 1 <=> i \in 1 .. m \/ i = m + 1
    BY <1>1
  <2>2. m + 1 \notin 1 .. m
    BY <1>1
  <2> QED
    BY <1>1, <2>1, <2>2
<1>5. Cardinality(B) = Cardinality(A) + (IF bit THEN 1 ELSE 0)
  <2>1. CASE bit
    BY <1>3, <1>4, <2>1, FS_AddElement
  <2>2. CASE ~ bit
    <3>1. B = A
      BY <1>4, <2>2
    <3> HIDE DEF A, B
    <3> QED
      BY <1>3, <2>2, <3>1
  <2> QED
    BY <2>1, <2>2
<1>6. InnerBits(m) = Cardinality(A) /\ InnerBits(Len(startFaces))' = Cardinality(B)
  BY <1>1 DEF InnerBits
<1> QED
  BY <1>1, <1>2, <1>3, <1>5, <1>6

(* The bit of a new component is not the bit of any root there is.         *)
LEMMA BitsOfOldRoots ==
  ASSUME WalkInv, TableIsFull, TraceInv, phase = "ready", StillWalked,
         NEW bit \in BOOLEAN, startFaces' = Append(startFaces, bit),
         Roots' = Roots, \A j \in Roots : RankOf(j)' = RankOf(j),
         \A k \in DOMAIN initFaceCorners :
            k \in DOMAIN initFaceCorners' /\ initFaceCorners'[k] = initFaceCorners[k],
         Len(initFaceCorners') = Len(initFaceCorners) + (IF bit THEN 1 ELSE 0)
  PROVE  BitsAreOfRoots' /\ RootAhead' /\ Len(startFaces') = Cardinality(Roots') + 1
<1>1. BitsAreOfRoots /\ Cardinality(Roots) = Len(startFaces) /\ startFaces \in Seq(BOOLEAN)
      /\ opposite' = opposite
  <2>1. phase \in Between
    BY DEF Between
  <2> QED
    BY <2>1, TraceBetween, ReadyIsClosed, WalkRests DEF StillWalked, SameTable
<1> DEFINE m == Len(startFaces)
<1>2. /\ m \in Nat /\ Len(startFaces') = m + 1 /\ startFaces'[m + 1] = bit
      /\ \A k \in 1 .. m : startFaces'[k] = startFaces[k]
      /\ \A k : k \in 0 .. m => InnerBits(k)' = InnerBits(k)
      /\ InnerBits(Len(startFaces))' = InnerBits(m) + (IF bit THEN 1 ELSE 0)
      /\ InnerBits(m) \in Nat
  BY <1>1, BitAppended
<1>3. DOMAIN startFaces = 1 .. m /\ DOMAIN startFaces' = 1 .. m + 1
  BY <1>1, <1>2
<1>4. InnerBits(Len(startFaces))' = Len(initFaceCorners')
  <2>1. InnerBits(m) = Len(initFaceCorners)
    BY <1>1 DEF BitsAreOfRoots
  <2> QED
    BY <1>2, <2>1
<1> HIDE DEF m
<1>5. ASSUME NEW j \in Roots, NEW k, k = RankOf(j)
      PROVE  /\ k \in DOMAIN startFaces'
             /\ startFaces'[k] <=> opposite'[Walked(j)'] # NoCorner
             /\ startFaces'[k] =>
                 /\ InnerBits(k)' \in DOMAIN initFaceCorners'
                 /\ opposite'[Walked(j)'] = initFaceCorners'[InnerBits(k)']
  <2>1. /\ k \in DOMAIN startFaces
        /\ startFaces[k] <=> opposite[Walked(j)] # NoCorner
        /\ startFaces[k] =>
             /\ InnerBits(k) \in DOMAIN initFaceCorners
             /\ opposite[Walked(j)] = initFaceCorners[InnerBits(k)]
    BY <1>1, <1>5 DEF BitsAreOfRoots
  <2>2. k \in 1 .. m /\ k \in 0 .. m /\ k \in 1 .. m + 1
    BY <1>2, <1>3, <2>1
  <2>3. startFaces'[k] = startFaces[k] /\ InnerBits(k)' = InnerBits(k)
    BY <1>2, <2>2
  <2>4. Walked(j)' = Walked(j)
    BY DEF StillWalked, Roots
  <2> QED
    BY <1>1, <1>3, <2>1, <2>2, <2>3, <2>4
<1>6. ASSUME NEW j \in Roots'
      PROVE  /\ RankOf(j)' \in DOMAIN startFaces'
             /\ startFaces'[RankOf(j)'] <=> opposite'[Walked(j)'] # NoCorner
             /\ startFaces'[RankOf(j)'] =>
                 /\ InnerBits(RankOf(j))' \in DOMAIN initFaceCorners'
                 /\ opposite'[Walked(j)'] = initFaceCorners'[InnerBits(RankOf(j))']
  <2>1. j \in Roots /\ RankOf(j)' = RankOf(j)
    BY <1>6
  <2>2. PICK k : k = RankOf(j)
    OBVIOUS
  <2>3. InnerBits(RankOf(j))' = InnerBits(k)'
    BY <2>1, <2>2 DEF InnerBits
  <2> QED
    BY <1>5, <2>1, <2>2, <2>3
<1>7. RootAhead' /\ Len(startFaces') = Cardinality(Roots') + 1
  BY <1>1, <1>2 DEF RootAhead, m
<1> QED
  BY <1>4, <1>6, <1>7 DEF BitsAreOfRoots

(* A component that starts at a boundary keeps the trace.                  *)
LEMMA SeedBoundaryKeepsTrace ==
  ASSUME WalkInv, TableIsFull, TraceInv, NEW f \in AllFaces, SeedBoundaryFace(f)
  PROVE  TableIsFull' /\ TraceInv'
<1> DEFINE start == StartCorner(f)
           hole == NextCorner(start)
<1>1. /\ phase = "ready" /\ phase \in Between /\ phase' = "branch" /\ phase' \in {"ready", "branch", "walk"}
      /\ f \notin visitedFaces /\ ~ InteriorStart(f)
      /\ cornerTraversalStack' = <<start>> /\ startFaces' = Append(startFaces, FALSE)
      /\ UNCHANGED <<mesh, opposite, cornerVertex, vertexCorners, vertexHoleID, numHoles>>
      /\ UNCHANGED <<symbols, processedCorners, initFaceCorners, splitEvents,
                     lastEncodedSymbolID, faceToSplitSymbol, numSplitSymbols, visitedFaces>>
  BY DEF SeedBoundaryFace, IsNextSeed, EncodeConnectivityFrom, tableVars, Between
<1>2. visitedVertices' = visitedVertices \cup {cornerVertex[hole]} \cup HoleVertices(hole)
  BY DEF SeedBoundaryFace
<1>3. StillWalked /\ Walking /\ Walking' /\ TableIsFull'
  BY <1>1, StillWalkedBetween
<1>4. /\ SymbolsFit /\ BranchesNest /\ BitsAreOfRoots /\ InitFacesAreFree /\ MetVertices
      /\ EventsAreWritten /\ EventsAreTrue /\ SplitFaces /\ VerticesAreCounted /\ FrontierHasGates
      /\ TableIsReady /\ SameTable
  BY <1>1, <1>3, TraceBetween DEF StillWalked
<1>5. /\ SpreadsOver(visitedFaces) /\ SpreadsOver(AllFaces \ visitedFaces)
      /\ GateCorners = {} /\ ~ MidBranch
  BY <1>1, ReadyIsClosed
<1>6. FacesOf(initFaceCorners)' = FacesOf(initFaceCorners)
  BY <1>1 DEF FacesOf
<1>7. /\ SymbolsFit' /\ BranchesNest' /\ InitFacesAreFree' /\ Roots' = Roots
      /\ \A j \in Roots : RankOf(j)' = RankOf(j)
  BY <1>3, <1>4, <1>6, StillFits
<1>8. EventsAreWritten' /\ EventsAreTrue' /\ SplitFaces' /\ VerticesAreCounted'
  BY <1>1, <1>3, <1>4, StillWritten, StillSplit, StillCounted
<1>9. BitsAreOfRoots' /\ RootAhead' /\ Len(startFaces') = Cardinality(Roots') + 1
  <2>1. Len(initFaceCorners) \in Nat
    BY <1>1, WalkRests
  <2>2. Len(initFaceCorners') = Len(initFaceCorners) + 0
    BY <1>1, <2>1
  <2>3. \A k \in DOMAIN initFaceCorners :
            k \in DOMAIN initFaceCorners' /\ initFaceCorners'[k] = initFaceCorners[k]
    BY <1>1
  <2>4. startFaces' = Append(startFaces, FALSE) /\ phase = "ready"
    BY <1>1
  <2> HIDE DEF start, hole
  <2> QED
    BY <1>3, <1>7, <2>2, <2>3, <2>4, BitsOfOldRoots
<1>10. start \in AllCorners /\ hole \in AllCorners /\ opposite[start] = NoCorner
       /\ PreviousCorner(hole) = start /\ Face(start) \notin visitedFaces
  <2>1. start \in BoundaryCorners
    BY <1>1, <1>4, StartFacesTheBoundary
  <2>2. start \in AllCorners /\ opposite[start] = NoCorner
    BY <2>1 DEF BoundaryCorners
  <2>3. hole \in AllCorners /\ PreviousCorner(hole) = start
        /\ Face(hole) = Face(start)
    BY <1>4, <2>2, ManifoldCorners DEF TableIsReady
  <2>4. PICK d \in FaceCorners(f) : cornerVertex[hole] = cornerVertex[d]
    BY <1>1, <1>4, StartFacesTheBoundary
  <2>5. d \in AllCorners /\ Face(d) = f
    BY <1>4, CornersOfAFace DEF TableIsReady
  <2>6. Face(hole) \in AllFaces \ visitedFaces
    BY <1>1, <1>4, <1>5, <2>3, <2>4, <2>5, FanStaysWithin
  <2> QED
    BY <2>2, <2>3, <2>6
<1>11. \A v \in visitedVertices' : v \in visitedVertices \/ vertexHoleID[v] # -1
  <2>1. vertexHoleID[cornerVertex[hole]] # -1
    BY <1>4, <1>10, InteriorVertex
  <2>2. \A v \in HoleVertices(hole) : vertexHoleID[v] # -1
    BY <1>4, <1>10, <2>1, HoleIsWalked
  <2> QED
    BY <1>2, <2>1, <2>2
<1>12. MetVertices'
  BY <1>1, <1>3, <1>4, <1>11 DEF MetVertices, SameTable
<1> HIDE DEF start, hole
<1>13. Len(cornerTraversalStack') = 1 /\ cornerTraversalStack'[1] = start /\ DOMAIN cornerTraversalStack' = {1}
  BY <1>1
<1>14. ~ MidBranch'
  BY <1>3, <1>5 DEF StillWalked
<1>15. RootIsAhead'
  <2>1. startFaces'[Len(startFaces')] = FALSE
    BY <1>1, WalkRests
  <2>2. LeadsToRoot(cornerTraversalStack[1])'
    BY <1>1, <1>4, <1>10, <1>13, <2>1 DEF LeadsToRoot, SameTable
  <2> QED
    BY <1>1, <1>9, <1>13, <1>14, <2>2 DEF RootIsAhead
<1>16. StackWaits'
  <2>1. Waiting' = 1
    BY <1>13, <1>14 DEF Waiting
  <2>2. \A a, b \in 1 .. 1 : ~ (a < b)
    OBVIOUS
  <2> QED
    BY <1>9, <1>14, <2>1, <2>2 DEF StackWaits
<1>17. WhereItStands'
  BY <1>1, <1>14 DEF WhereItStands
<1>18. GateCorners' = {start}
  BY <1>1, <1>13 DEF GateCorners
<1>19. GatesLeadBack'
  BY <1>4, <1>10, <1>18 DEF GatesLeadBack, SameTable, LeadsNowhere
<1>20. FrontierHasGates'
  <2>1. visitedFaces' = visitedFaces /\ AllFaces' = AllFaces
        /\ (\A X : KeepsWithin(X, visitedFaces)' <=> KeepsWithin(X, visitedFaces))
        /\ (\A X : Touches(X, visitedFaces)' <=> Touches(X, visitedFaces))
    BY <1>1, <1>4 DEF SameTable, KeepsWithin, Touches, LeadsNowhere
  <2> QED
    BY <1>3, <1>4, <1>5, <2>1 DEF FrontierHasGates
<1>21. OrderIsComplete'
  BY <1>1 DEF OrderIsComplete
<1> QED
  BY <1>3, <1>7, <1>8, <1>9, <1>12, <1>15, <1>16, <1>17, <1>19, <1>20, <1>21 DEF TraceInv

(* The face an interior component starts from.                             *)
LEMMA InteriorSeed ==
  ASSUME WalkInv, TableIsFull, TraceInv, NEW f \in AllFaces, SeedInteriorFace(f)
  PROVE  /\ phase = "ready" /\ phase \in Between /\ phase' = "branch"
         /\ f \notin visitedFaces /\ visitedFaces' = visitedFaces \cup {f}
         /\ cornerTraversalStack' = <<opposite[3 * f + 1]>>
         /\ initFaceCorners' = Append(initFaceCorners, 3 * f + 1)
         /\ FacesOf(initFaceCorners)' = FacesOf(initFaceCorners) \cup {f}
         /\ FacesOf(initFaceCorners) \subseteq visitedFaces
         /\ startFaces' = Append(startFaces, TRUE)
         /\ visitedVertices' = visitedVertices \cup {cornerVertex[c] : c \in FaceCorners(f)}
         /\ StillWalked /\ SameTable /\ Walking /\ Walking' /\ TableIsFull' /\ TableIsReady
         /\ UNCHANGED <<splitEvents, lastEncodedSymbolID, faceToSplitSymbol, numSplitSymbols>>
         /\ \A c \in FaceCorners(f) :
              /\ c \in AllCorners /\ Face(c) = f
              /\ vertexHoleID[cornerVertex[c]] = -1
              /\ opposite[c] \in AllCorners /\ opposite[opposite[c]] = c
              /\ Face(opposite[c]) \notin visitedFaces /\ Face(opposite[c]) # f
         /\ \A c \in AllCorners : Face(c) = f <=> c \in FaceCorners(f)
         /\ \A c, d \in AllCorners : Face(c) \in visitedFaces /\ cornerVertex[c] = cornerVertex[d]
              => Face(d) \in visitedFaces
<1> DEFINE opp == opposite[3 * f + 1]
<1>1. /\ phase = "ready" /\ phase \in Between /\ phase' \in {"ready", "branch", "walk"}
      /\ f \notin visitedFaces /\ InteriorStart(f) /\ visitedFaces' = visitedFaces \cup {f}
      /\ startFaces' = Append(startFaces, TRUE)
      /\ visitedVertices' = visitedVertices \cup {cornerVertex[c] : c \in FaceCorners(f)}
      /\ UNCHANGED <<mesh, opposite, cornerVertex, vertexCorners, vertexHoleID, numHoles>>
      /\ UNCHANGED <<symbols, processedCorners, splitEvents,
                     lastEncodedSymbolID, faceToSplitSymbol, numSplitSymbols>>
  BY DEF SeedInteriorFace, IsNextSeed, EncodeConnectivityFrom, tableVars, Between
<1>2. StillWalked /\ Walking /\ Walking' /\ TableIsFull'
  BY <1>1, StillWalkedBetween
<1>3. TableIsReady /\ SameTable /\ TableIsManifold
  BY <1>1, <1>2, TraceBetween DEF StillWalked, TableIsReady
<1>4. /\ SpreadsOver(visitedFaces) /\ SpreadsOver(AllFaces \ visitedFaces)
  BY <1>1, ReadyIsClosed
<1>5. \A c \in AllCorners : Face(c) = f <=> c \in FaceCorners(f)
  BY <1>3, CornersOfAFace
<1>6. FaceCorners(f) \subseteq AllCorners /\ NextCorner(3 * f) = 3 * f + 1 /\ 3 * f + 1 \in FaceCorners(f)
  BY <1>3, CornersOfAFace DEF FaceCorners
<1>7. ASSUME NEW c \in FaceCorners(f)
      PROVE  /\ c \in AllCorners /\ Face(c) = f
             /\ vertexHoleID[cornerVertex[c]] = -1
             /\ opposite[c] \in AllCorners /\ opposite[opposite[c]] = c
             /\ Face(opposite[c]) \notin visitedFaces /\ Face(opposite[c]) # f
  <2>1. c \in AllCorners /\ Face(c) = f
    BY <1>5, <1>6
  <2>2. ~ TouchesBoundary(c)
    BY <1>1 DEF InteriorStart
  <2>3. ~ (opposite[c] < 0) /\ vertexHoleID[cornerVertex[c]] = -1
    BY <2>2 DEF TouchesBoundary
  <2>4. opposite[c] # NoCorner /\ opposite[c] \in AllCorners
    BY <1>3, <2>1, <2>3, ManifoldCorners
  <2>5. opposite[opposite[c]] = c
    BY <1>3, <2>1, <2>4, TableInUse
  <2>6. Face(opposite[c]) \in AllFaces \ visitedFaces
    BY <1>1, <1>4, <2>1, <2>4 DEF SpreadsOver
  <2>7. Face(opposite[c]) # f
    BY <1>3, <2>1, <2>4 DEF TableIsReady
  <2> QED
    BY <2>1, <2>3, <2>4, <2>5, <2>6, <2>7
<1>8. NextCorner(StartCorner(f)) = 3 * f + 1
  BY <1>1, <1>6 DEF StartCorner
<1>9. opp >= 0 /\ Face(opp) \notin visitedFaces'
  BY <1>1, <1>3, <1>6, <1>7, TableInUse
<1>10. /\ initFaceCorners' = Append(initFaceCorners, 3 * f + 1)
       /\ cornerTraversalStack' = <<opp>> /\ phase' = "branch"
  <2>1. /\ initFaceCorners' = Append(initFaceCorners, NextCorner(StartCorner(f)))
        /\ LET o == opposite[NextCorner(StartCorner(f))] IN
             o >= 0 /\ Face(o) \notin visitedFaces' => EncodeConnectivityFrom(o)
    BY DEF SeedInteriorFace
  <2> QED
    BY <1>8, <1>9, <2>1 DEF EncodeConnectivityFrom
<1>11. FacesOf(initFaceCorners)' = FacesOf(initFaceCorners) \cup {f}
  <2>1. initFaceCorners \in Seq(AllCorners) /\ 3 * f + 1 \in AllCorners /\ Face(3 * f + 1) = f
    BY <1>1, <1>6, <1>7, WalkRests
  <2>2. FacesOf(Append(initFaceCorners, 3 * f + 1)) = FacesOf(initFaceCorners) \cup {f}
    BY <2>1, OneFaceMore
  <2> QED
    BY <1>10, <2>2 DEF FacesOf
<1>12. FacesOf(initFaceCorners) \subseteq visitedFaces
  BY <1>1, WalkRests
<1>13. \A c, d \in AllCorners : Face(c) \in visitedFaces /\ cornerVertex[c] = cornerVertex[d]
              => Face(d) \in visitedFaces
  BY <1>3, <1>4, FanStaysWithin
<1> QED
  BY <1>1, <1>2, <1>3, <1>5, <1>7, <1>10, <1>11, <1>12, <1>13

(* No step is taken next to a face that is still to come, so none is       *)
(* disturbed by counting it as gone.                                       *)
LEMMA SeedFits ==
  ASSUME WalkInv, TableIsFull, TraceInv, NEW f \in AllFaces, SeedInteriorFace(f)
  PROVE  /\ SymbolsFit' /\ BranchesNest' /\ Roots' = Roots /\ (\A j \in Roots : RankOf(j)' = RankOf(j))
         /\ InitFacesAreFree'
<1> DEFINE V == visitedFaces
           I == FacesOf(initFaceCorners)
<1>1. /\ phase = "ready" /\ phase \in Between /\ f \notin V /\ I \subseteq V
      /\ FacesOf(initFaceCorners)' = I \cup {f}
      /\ StillWalked /\ SameTable /\ TableIsReady
      /\ \A c \in FaceCorners(f) : vertexHoleID[cornerVertex[c]] = -1
      /\ \A c \in AllCorners : Face(c) = f <=> c \in FaceCorners(f)
      /\ \A c, d \in AllCorners : Face(c) \in V /\ cornerVertex[c] = cornerVertex[d] => Face(d) \in V
  BY InteriorSeed
<1>2. /\ SymbolsFit /\ BranchesNest /\ InitFacesAreFree /\ NumSymbols \in Nat /\ Walking
      /\ SpreadsOver(V)
  BY <1>1, TraceBetween, ReadyIsClosed
<1>3. \A i \in Steps : Walked(i) \in AllCorners /\ Face(Walked(i)) \in V
  BY <1>2, StepsInHand
<1>4. \A i \in Steps : Old(i)' = Old(i) \cup {f}
  BY <1>1 DEF Old, StillWalked
<1>5. ASSUME NEW c \in AllCorners, Face(c) \in V, NEW F
      PROVE  /\ LeadsNowhere(opposite[c], F \cup {f}) <=> LeadsNowhere(opposite[c], F)
             /\ LeadsNowhere(opposite[NextCorner(c)], F \cup {f}) <=> LeadsNowhere(opposite[NextCorner(c)], F)
             /\ LeadsNowhere(opposite[PreviousCorner(c)], F \cup {f}) <=> LeadsNowhere(opposite[PreviousCorner(c)], F)
             /\ IsFresh(c, F \cup {f}) <=> IsFresh(c, F)
  <2>1. /\ NextCorner(c) \in AllCorners /\ PreviousCorner(c) \in AllCorners
        /\ Face(NextCorner(c)) = Face(c) /\ Face(PreviousCorner(c)) = Face(c)
    BY <1>1, ManifoldCorners DEF TableIsReady
  <2>2. \A e \in AllCorners : Face(e) \in V =>
           (LeadsNowhere(opposite[e], F \cup {f}) <=> LeadsNowhere(opposite[e], F))
    BY <1>1, <1>2 DEF SpreadsOver, LeadsNowhere
  <2>3. IsFresh(c, F \cup {f}) <=> IsFresh(c, F)
    BY <1>1, <1>5 DEF IsFresh, Around
  <2> QED
    BY <1>5, <2>1, <2>2, <2>3
<1>6. \A i \in Steps : Fits(symbols[i], Walked(i), Old(i) \cup {f}) <=> Fits(symbols[i], Walked(i), Old(i))
  BY <1>3, <1>5 DEF Fits
<1>7. SymbolsFit'
  <2>1. \A i \in Steps : Fits(symbols[i], Walked(i), Old(i))' <=> Fits(symbols[i], Walked(i), Old(i) \cup {f})
    <3>1. \A i \in Steps : \A x, c, F :
            symbols'[i] = x /\ Walked(i)' = c /\ Old(i)' = F =>
              (Fits(symbols[i], Walked(i), Old(i))' <=> Fits(x, c, F)')
      BY DEF Fits, LeadsNowhere, IsFresh, Around
    <3> QED
      BY <1>1, <1>4, <3>1 DEF StillWalked, SameTable
  <2>2. \A i \in Steps : i < NumSymbols => i + 1 \in Steps
    BY <1>2 DEF Steps
  <2>3. ASSUME NEW i \in Steps
        PROVE  /\ Fits(symbols[i], Walked(i), Old(i))'
               /\ i < NumSymbols' /\ symbols'[i] # "E" => Walked(i + 1)' = NextStep(i)'
    <3>1. i < NumSymbols => Walked(i + 1)' = Walked(i + 1)
      BY <1>1, <2>2 DEF StillWalked
    <3> QED
      BY <1>1, <1>2, <1>6, <2>1, <3>1 DEF SymbolsFit, StillWalked
  <2>4. Steps' = Steps
    BY <1>1 DEF StillWalked
  <2> QED
    BY <2>3, <2>4 DEF SymbolsFit
<1>8. \A j \in Steps : IsRoot(j)' <=> IsRoot(j)
  <2>1. \A j \in Steps : LeadsNowhere(opposite[Walked(j)], I \cup {f}) <=> LeadsNowhere(opposite[Walked(j)], I)
    BY <1>3, <1>5
  <2>2. \A j \in Steps : IsRoot(j)' <=> IsBranch(j) /\ LeadsNowhere(opposite[Walked(j)], I \cup {f})
    BY <1>1 DEF IsRoot, LeadsNowhere, StillWalked, SameTable
  <2> QED
    BY <2>1, <2>2 DEF IsRoot
<1>9. BranchesNest'
  <2>1. \A j \in Steps : \A i \in 1 .. j - 2 : i \in Steps
    BY <1>2 DEF Steps
  <2>2. ASSUME NEW j \in Steps, IsBranch(j)'
        PROVE  IsRoot(j)' \/ \E i \in 1 .. j - 2 : IsChild(j, i)' /\ NestedIn(i, j - 1)'
    BY <1>1, <1>2, <1>8, <2>1, <2>2 DEF BranchesNest, StillWalked
  <2> QED
    BY <1>1, <2>2 DEF BranchesNest, StillWalked
<1>10. Roots' = Roots
  BY <1>1, <1>8 DEF Roots, StillWalked
<1>11. \A j \in Roots : RankOf(j)' = RankOf(j)
  BY <1>10 DEF RankOf, RootsUpTo
<1>12. InitFacesAreFree'
  <2>1. ASSUME NEW c \in AllCorners, Face(c) \in I \cup {f} PROVE IsFresh(c, I \cup {f})
    <3>1. CASE Face(c) \in I
      BY <1>1, <1>2, <1>5, <3>1 DEF InitFacesAreFree
    <3>2. CASE Face(c) = f
      <4>1. vertexHoleID[cornerVertex[c]] = -1
        BY <1>1, <3>2
      <4>2. ASSUME NEW d \in Around(c) PROVE Face(d) \notin I \cup {f}
        BY <1>1, <3>2 DEF Around
      <4> QED
        BY <4>1, <4>2 DEF IsFresh
    <3> QED
      BY <2>1, <3>1, <3>2
  <2>2. \A c \in AllCorners : \A F :
           F = FacesOf(initFaceCorners)' => (IsFresh(c, FacesOf(initFaceCorners))' <=> IsFresh(c, F)')
    BY DEF IsFresh, Around
  <2> HIDE DEF I
  <2> QED
    BY <1>1, <2>1, <2>2 DEF InitFacesAreFree, SameTable
<1> QED
  BY <1>7, <1>9, <1>10, <1>11, <1>12

(* A part that touches the start face holds all three of its neighbours.   *)
LEMMA SeedHasGates ==
  ASSUME WalkInv, TableIsFull, TraceInv, NEW f \in AllFaces, SeedInteriorFace(f)
  PROVE  FrontierHasGates'
<1> DEFINE V == visitedFaces
           opp == opposite[3 * f + 1]
<1>1. /\ phase = "ready" /\ phase \in Between /\ f \notin V /\ visitedFaces' = V \cup {f}
      /\ cornerTraversalStack' = <<opp>> /\ SameTable /\ TableIsReady /\ TableIsFull
      /\ phase' = "branch"
      /\ \A c \in FaceCorners(f) :
              /\ c \in AllCorners /\ Face(c) = f
              /\ vertexHoleID[cornerVertex[c]] = -1
              /\ opposite[c] \in AllCorners /\ opposite[opposite[c]] = c
              /\ Face(opposite[c]) \notin V /\ Face(opposite[c]) # f
      /\ \A c \in AllCorners : Face(c) = f <=> c \in FaceCorners(f)
  BY InteriorSeed
<1>2. SpreadsOver(AllFaces \ V) /\ SpreadsOver(V)
  BY <1>1, ReadyIsClosed
<1>3. GateCorners' = {opp}
  <2>1. DOMAIN cornerTraversalStack' = {1} /\ cornerTraversalStack'[1] = opp
    BY <1>1
  <2> HIDE DEF opp
  <2> QED
    BY <1>1, <2>1 DEF GateCorners
<1>4. ASSUME NEW X \in SUBSET (AllFaces \ (V \cup {f})), KeepsWithin(X, V \cup {f}), Touches(X, V \cup {f})
      PROVE  Face(opp) \in X
  <2>1. \A c \in AllCorners : Face(c) \in AllFaces
                              /\ (opposite[c] # NoCorner => opposite[c] \in AllCorners /\ opposite[opposite[c]] = c)
    BY <1>1, ManifoldCorners, TableInUse DEF TableIsReady
  <2>2. PICK c \in AllCorners : Face(c) \in X /\ opposite[c] # NoCorner /\ Face(opposite[c]) \in V \cup {f}
    BY <1>4 DEF Touches
  <2>3. Face(opposite[c]) = f
    BY <1>2, <1>4, <2>2 DEF SpreadsOver
  <2>4. PICK e \in FaceCorners(f) : Face(opposite[e]) \in X
    BY <1>1, <2>1, <2>2, <2>3
  <2>5. ASSUME NEW a \in FaceCorners(f)
        PROVE  Face(opposite[NextCorner(a)]) \in X <=> Face(opposite[PreviousCorner(a)]) \in X
    <3>1. a \in AllCorners /\ Face(a) = f /\ Face(a) \notin X /\ vertexHoleID[cornerVertex[a]] = -1
      BY <1>1, <1>4
    <3>2. ASSUME NEW d \in AllCorners, cornerVertex[d] = cornerVertex[a], Face(d) \in X
          PROVE  /\ Face(opposite[NextCorner(d)]) \in X \cup {Face(a)}
                 /\ Face(opposite[PreviousCorner(d)]) \in X \cup {Face(a)}
      <4>1. /\ NextCorner(d) \in AllCorners /\ PreviousCorner(d) \in AllCorners
            /\ Face(NextCorner(d)) \in X /\ Face(PreviousCorner(d)) \in X
        BY <1>1, <3>2, ManifoldCorners DEF TableIsReady
      <4>2. opposite[NextCorner(d)] # NoCorner /\ opposite[PreviousCorner(d)] # NoCorner
        BY <1>1, <3>1, <3>2, InteriorVertex
      <4>3. \A b \in AllCorners : Face(b) \in X /\ opposite[b] # NoCorner => Face(opposite[b]) \in X \cup {f}
        BY <1>2, <1>4 DEF SpreadsOver, KeepsWithin, LeadsNowhere
      <4> QED
        BY <3>1, <4>1, <4>2, <4>3
    <3> QED
      BY <1>1, <3>1, <3>2, FanLeadsRound
  <2>6. /\ 3 * f \in Nat /\ 3 * f \in AllCorners /\ 3 * f + 1 \in AllCorners /\ 3 * f + 2 \in AllCorners
        /\ NextCorner(3 * f) = 3 * f + 1 /\ NextCorner(3 * f + 1) = 3 * f + 2 /\ NextCorner(3 * f + 2) = 3 * f
    <3>1. 3 * f \in AllCorners /\ 3 * f + 1 \in AllCorners /\ 3 * f + 2 \in AllCorners
      BY <1>1 DEF FaceCorners
    <3>2. 3 * f \in Nat
      BY <1>1, <3>1, ManifoldCorners DEF TableIsReady
    <3>3. NextCorner(3 * f) = 3 * f + 1
      BY <1>1, CornersOfAFace DEF TableIsReady
    <3>4. f \in Nat
      BY <1>1, TableInUse DEF AllFaces
    <3>5. NextCorner(3 * f + 1) = 3 * f + 2 /\ NextCorner(3 * f + 2) = 3 * f
      BY <3>4 DEF NextCorner
    <3> QED
      BY <3>1, <3>2, <3>3, <3>5
  <2>7. /\ PreviousCorner(3 * f) = 3 * f + 2 /\ PreviousCorner(3 * f + 1) = 3 * f
        /\ PreviousCorner(3 * f + 2) = 3 * f + 1
    BY <1>1, <2>6, ManifoldCorners DEF TableIsReady
  <2>8. /\ Face(opposite[3 * f + 1]) \in X <=> Face(opposite[3 * f + 2]) \in X
        /\ Face(opposite[3 * f]) \in X <=> Face(opposite[3 * f + 1]) \in X
    <3>1. 3 * f \in FaceCorners(f) /\ 3 * f + 2 \in FaceCorners(f)
      BY DEF FaceCorners
    <3> QED
      BY <2>5, <2>6, <2>7, <3>1
  <2>9. e = 3 * f \/ e = 3 * f + 1 \/ e = 3 * f + 2
    BY DEF FaceCorners
  <2> QED
    BY <2>4, <2>8, <2>9
<1>5. /\ AllFaces' = AllFaces
      /\ \A X, F : KeepsWithin(X, F)' <=> KeepsWithin(X, F)
      /\ \A X, F : Touches(X, F)' <=> Touches(X, F)
  BY <1>1 DEF SameTable, KeepsWithin, Touches, LeadsNowhere
<1>6. \A X, F : F = visitedFaces' =>
        /\ KeepsWithin(X, visitedFaces)' <=> KeepsWithin(X, F)'
        /\ Touches(X, visitedFaces)' <=> Touches(X, F)'
  BY DEF KeepsWithin, Touches, LeadsNowhere
<1> HIDE DEF opp, V
<1> QED
  BY <1>1, <1>3, <1>4, <1>5, <1>6 DEF FrontierHasGates

(* Three open fans more, and three rings less.                             *)
LEMMA SeedCounts ==
  ASSUME WalkInv, TableIsFull, TraceInv, NEW f \in AllFaces, SeedInteriorFace(f)
  PROVE  VerticesAreCounted'
<1> DEFINE V == visitedFaces
           a0 == 3 * f
           a1 == 3 * f + 1
           a2 == 3 * f + 2
           won == {PreviousCorner(opposite[a0]), PreviousCorner(opposite[a1]), PreviousCorner(opposite[a2])}
           lost == {cornerVertex[a0], cornerVertex[a1], cornerVertex[a2]}
<1>1. /\ phase = "ready" /\ phase \in Between /\ f \notin V /\ visitedFaces' = V \cup {f}
      /\ StillWalked /\ SameTable /\ TableIsReady /\ TableIsFull /\ numSplitSymbols' = numSplitSymbols
      /\ \A c \in FaceCorners(f) :
              /\ c \in AllCorners /\ Face(c) = f
              /\ vertexHoleID[cornerVertex[c]] = -1
              /\ opposite[c] \in AllCorners /\ opposite[opposite[c]] = c
              /\ Face(opposite[c]) \notin V /\ Face(opposite[c]) # f
      /\ \A c \in AllCorners : Face(c) = f <=> c \in FaceCorners(f)
      /\ \A c, d \in AllCorners : Face(c) \in V /\ cornerVertex[c] = cornerVertex[d] => Face(d) \in V
  BY InteriorSeed
<1>2. SpreadsOver(AllFaces \ V) /\ VerticesAreCounted /\ NumSymbols \in Nat
  BY <1>1, ReadyIsClosed, TraceBetween
<1>3. mesh.numVertices \in Nat
  BY DEF WalkInv, TraversalTypes
<1>4. FaceCorners(f) = {a0, a1, a2} /\ a0 \in AllCorners /\ a1 \in AllCorners /\ a2 \in AllCorners
  BY <1>1 DEF FaceCorners
<1>5. a0 # a1 /\ a0 # a2 /\ a1 # a2
  <2>1. a0 \in Int
    BY <1>1, <1>4, ManifoldCorners DEF TableIsReady
  <2>2. f \in Int
    BY <1>1, TableInUse DEF AllFaces
  <2> QED
    BY <2>2
<1> HIDE DEF a0, a1, a2
<1>6. ASSUME NEW c \in AllCorners
      PROVE  /\ NextCorner(c) \in AllCorners /\ PreviousCorner(c) \in AllCorners
             /\ NextCorner(PreviousCorner(c)) = c /\ PreviousCorner(NextCorner(c)) = c
             /\ Face(NextCorner(c)) = Face(c) /\ Face(PreviousCorner(c)) = Face(c)
             /\ Face(c) \in AllFaces /\ cornerVertex[c] \in VertexIDs
             /\ opposite[c] # NoCorner => opposite[c] \in AllCorners /\ opposite[opposite[c]] = c
             /\ c # NoCorner
  BY <1>1, ManifoldCorners, TableInUse DEF TableIsReady
<1>7. Heads' = {c \in AllCorners : Face(c) \notin V \cup {f} /\ LeadsNowhere(opposite[NextCorner(c)], V \cup {f})}
  BY <1>1 DEF Heads, SameTable, LeadsNowhere
<1>8. \A e \in FaceCorners(f) : PreviousCorner(opposite[e]) \in Heads' /\ PreviousCorner(opposite[e]) \notin Heads
  <2>1. ASSUME NEW e \in FaceCorners(f), NEW c, c = PreviousCorner(opposite[e])
        PROVE c \in Heads' /\ c \notin Heads
    <3>1. /\ c \in AllCorners /\ NextCorner(c) = opposite[e] /\ opposite[NextCorner(c)] = e
          /\ Face(c) \notin V \cup {f} /\ Face(e) = f /\ e # NoCorner
      BY <1>1, <1>6, <2>1
    <3> QED
      BY <1>1, <1>7, <3>1 DEF Heads, LeadsNowhere
  <2> QED
    BY <2>1
<1>9. \A c \in Heads : c \in Heads'
  <2> SUFFICES ASSUME NEW c \in Heads PROVE c \in Heads'
    OBVIOUS
  <2>1. c \in AllCorners /\ Face(c) \notin V /\ LeadsNowhere(opposite[NextCorner(c)], V)
    BY DEF Heads
  <2>2. Face(c) # f
    <3> SUFFICES ASSUME Face(c) = f PROVE FALSE
      OBVIOUS
    <3>1. NextCorner(c) \in FaceCorners(f)
      BY <1>1, <1>6, <2>1
    <3> QED
      BY <1>1, <1>6, <2>1, <3>1 DEF LeadsNowhere
  <2> QED
    BY <1>7, <2>1, <2>2 DEF LeadsNowhere
<1>10. \A c \in Heads' : c \notin Heads => c \in won
  <2> SUFFICES ASSUME NEW c \in Heads', c \notin Heads PROVE c \in won
    OBVIOUS
  <2>1. c \in AllCorners /\ Face(c) \notin V /\ Face(opposite[NextCorner(c)]) = f /\ opposite[NextCorner(c)] # NoCorner
    BY <1>7 DEF Heads, LeadsNowhere
  <2>2. PICK e \in FaceCorners(f) : opposite[NextCorner(c)] = e
    BY <1>1, <1>6, <2>1
  <2>3. c = PreviousCorner(opposite[e])
    BY <1>6, <2>1, <2>2
  <2> QED
    BY <1>4, <2>3
<1>11. Heads' = Heads \cup won /\ won \cap Heads = {}
  BY <1>4, <1>8, <1>9, <1>10
<1>12. \A e, g \in FaceCorners(f) : e # g => PreviousCorner(opposite[e]) # PreviousCorner(opposite[g])
  BY <1>1, <1>6
<1>13. \A e, g \in FaceCorners(f) : e # g => cornerVertex[e] # cornerVertex[g]
  BY <1>1, OneCornerOfAFace
<1>14. Rings' = {v \in VertexIDs : /\ vertexHoleID[v] = -1
                                   /\ \E c \in AllCorners : cornerVertex[c] = v
                                   /\ \A c \in AllCorners : cornerVertex[c] = v => Face(c) \notin V \cup {f}}
  BY <1>1 DEF Rings, SameTable
<1>15. lost \subseteq Rings
  <2>1. \A e \in FaceCorners(f) : cornerVertex[e] \in Rings
    BY <1>1, <1>6 DEF Rings
  <2> QED
    BY <1>4, <2>1
<1>16. Rings' = Rings \ lost
  <2>1. \A c \in AllCorners : Face(c) = f => cornerVertex[c] \in lost
    BY <1>1, <1>4
  <2>2. \A v \in lost : \E c \in AllCorners : Face(c) = f /\ cornerVertex[c] = v
    BY <1>1, <1>4
  <2> HIDE DEF lost
  <2> QED
    BY <1>14, <2>1, <2>2 DEF Rings
<1>17. \A x, y, z : x # y /\ x # z /\ y # z => IsFiniteSet({x, y, z}) /\ Cardinality({x, y, z}) = 3
  <2> SUFFICES ASSUME NEW x, NEW y, NEW z, x # y, x # z, y # z
               PROVE  IsFiniteSet({x, y, z}) /\ Cardinality({x, y, z}) = 3
    OBVIOUS
  <2>1. IsFiniteSet({x}) /\ Cardinality({x}) = 1
    BY FS_Singleton
  <2>2. IsFiniteSet({x} \cup {y}) /\ Cardinality({x} \cup {y}) = 2
    BY <2>1, FS_AddElement
  <2>3. IsFiniteSet(({x} \cup {y}) \cup {z}) /\ Cardinality(({x} \cup {y}) \cup {z}) = 3
    <3>1. z \notin {x} \cup {y}
      OBVIOUS
    <3> QED
      BY <2>2, <3>1, FS_AddElement
  <2>4. ({x} \cup {y}) \cup {z} = {x, y, z}
    OBVIOUS
  <2> QED
    BY <2>3, <2>4
<1>18. IsFiniteSet(won) /\ Cardinality(won) = 3 /\ IsFiniteSet(lost) /\ Cardinality(lost) = 3
  BY <1>4, <1>5, <1>12, <1>13, <1>17
<1>19. /\ IsFiniteSet(Heads) /\ Cardinality(Heads) \in Nat /\ IsFiniteSet(Rings) /\ Cardinality(Rings) \in Nat
       /\ \A s : Cardinality(Places(s)) \in Nat
       /\ Cardinality(StoredVertices) \in Nat
  BY <1>1, <1>2, <1>3, CountedSets
<1> HIDE DEF won, lost
<1>20. Cardinality(Heads') = Cardinality(Heads) + 3
  <2>1. Cardinality(won \cup Heads) = Cardinality(won) + Cardinality(Heads) - Cardinality(won \cap Heads)
    BY <1>18, <1>19, FS_Union
  <2>2. Cardinality(won \cap Heads) = 0
    BY <1>11, FS_EmptySet
  <2>3. Heads' = won \cup Heads
    BY <1>11
  <2>4. Cardinality(Heads') = Cardinality(won \cup Heads)
    BY <2>3
  <2> QED
    BY <1>18, <1>19, <2>1, <2>2, <2>4
<1>21. Cardinality(Rings') = Cardinality(Rings) - 3
  <2>1. Cardinality(Rings \ lost) = Cardinality(Rings) - Cardinality(Rings \cap lost)
    BY <1>19, FS_Difference
  <2>2. Rings \cap lost = lost
    BY <1>15
  <2> QED
    BY <1>16, <1>18, <2>1, <2>2
<1>22. /\ Places({"R"})' = Places({"R"}) /\ Places({"L"})' = Places({"L"})
       /\ Places({"E"})' = Places({"E"}) /\ Places({"S"})' = Places({"S"})
       /\ StoredVertices' = StoredVertices
  <2>1. \A s : Places(s)' = Places(s)
    BY <1>1 DEF StillWalked
  <2> QED
    BY <1>1, <2>1 DEF SameTable
<1> DEFINE H == Cardinality(Heads)
           G == Cardinality(Rings)
           R == Cardinality(Places({"R"}))
           L == Cardinality(Places({"L"}))
           E == Cardinality(Places({"E"}))
           S == Cardinality(Places({"S"}))
           T == Cardinality(StoredVertices)
<1>23. H \in Nat /\ G \in Nat /\ R \in Nat /\ L \in Nat /\ E \in Nat /\ S \in Nat /\ T \in Nat
  BY <1>19
<1>24. H + G + R + L + 3 * E = T + S /\ numSplitSymbols = S
  BY <1>2 DEF VerticesAreCounted
<1>25. H' + G' + R' + L' + 3 * E' = T' + S' /\ numSplitSymbols' = S'
  <2>1. H' = H + 3 /\ G' = G - 3 /\ R' = R /\ L' = L /\ E' = E /\ S' = S /\ T' = T
    BY <1>20, <1>21, <1>22
  <2> HIDE DEF H, G, R, L, E, S, T
  <2> QED
    BY <1>1, <1>23, <1>24, <2>1
<1> QED
  BY <1>25 DEF VerticesAreCounted

(* A component that starts inside, and takes its start face away, keeps    *)
(* the trace.                                                              *)
LEMMA SeedInteriorKeepsTrace ==
  ASSUME WalkInv, TableIsFull, TraceInv, NEW f \in AllFaces, SeedInteriorFace(f)
  PROVE  TableIsFull' /\ TraceInv'
<1> DEFINE start == opposite[3 * f + 1]
<1>1. /\ phase = "ready" /\ phase \in Between /\ phase' = "branch"
      /\ f \notin visitedFaces /\ visitedFaces' = visitedFaces \cup {f}
      /\ cornerTraversalStack' = <<start>>
      /\ initFaceCorners' = Append(initFaceCorners, 3 * f + 1)
      /\ startFaces' = Append(startFaces, TRUE)
      /\ visitedVertices' = visitedVertices \cup {cornerVertex[c] : c \in FaceCorners(f)}
      /\ StillWalked /\ SameTable /\ Walking /\ Walking' /\ TableIsFull' /\ TableIsReady
      /\ UNCHANGED <<splitEvents, lastEncodedSymbolID, faceToSplitSymbol, numSplitSymbols>>
      /\ \A c \in FaceCorners(f) :
              /\ c \in AllCorners /\ Face(c) = f
              /\ opposite[c] \in AllCorners /\ opposite[opposite[c]] = c
              /\ Face(opposite[c]) \notin visitedFaces /\ Face(opposite[c]) # f
  BY InteriorSeed
<1>2. /\ EventsAreWritten /\ EventsAreTrue /\ SplitFaces /\ MetVertices /\ ~ MidBranch
      /\ initFaceCorners \in Seq(AllCorners)
  BY <1>1, TraceBetween, ReadyIsClosed, WalkRests
<1>3. /\ SymbolsFit' /\ BranchesNest' /\ Roots' = Roots /\ (\A j \in Roots : RankOf(j)' = RankOf(j))
      /\ InitFacesAreFree'
  BY SeedFits
<1>4. EventsAreWritten' /\ EventsAreTrue' /\ SplitFaces' /\ VerticesAreCounted' /\ FrontierHasGates'
  BY <1>1, <1>2, StillWritten, StillSplit, SeedCounts, SeedHasGates
<1>5. 3 * f + 1 \in FaceCorners(f)
  BY DEF FaceCorners
<1>6. /\ start \in AllCorners /\ opposite[start] = 3 * f + 1
      /\ Face(start) \notin visitedFaces' /\ 3 * f + 1 \in AllCorners /\ Face(3 * f + 1) = f
  BY <1>1, <1>5
<1>7. /\ Len(initFaceCorners') = Len(initFaceCorners) + 1
      /\ initFaceCorners'[Len(initFaceCorners')] = 3 * f + 1 /\ initFaceCorners' # <<>>
      /\ \A k \in DOMAIN initFaceCorners :
            k \in DOMAIN initFaceCorners' /\ initFaceCorners'[k] = initFaceCorners[k]
  <2>1. PICK e : e = 3 * f + 1
    OBVIOUS
  <2>2. e \in AllCorners /\ initFaceCorners' = Append(initFaceCorners, e)
    BY <1>1, <1>6, <2>1
  <2>3. /\ Len(initFaceCorners') = Len(initFaceCorners) + 1
        /\ initFaceCorners'[Len(initFaceCorners) + 1] = e
        /\ Len(initFaceCorners) \in Nat
        /\ DOMAIN initFaceCorners = 1 .. Len(initFaceCorners)
        /\ DOMAIN initFaceCorners' = 1 .. Len(initFaceCorners) + 1
        /\ \A k \in 1 .. Len(initFaceCorners) : initFaceCorners'[k] = initFaceCorners[k]
    BY <1>2, <2>2
  <2>4. \A k \in 1 .. Len(initFaceCorners) : k \in 1 .. Len(initFaceCorners) + 1
    BY <2>3
  <2>5. initFaceCorners' # <<>>
    <3>1. Len(initFaceCorners') # 0
      BY <2>3
    <3> QED
      BY <3>1
  <2> QED
    BY <2>1, <2>3, <2>4, <2>5
<1> HIDE DEF start
<1>8. BitsAreOfRoots' /\ RootAhead' /\ Len(startFaces') = Cardinality(Roots') + 1
  <2>1. startFaces' = Append(startFaces, TRUE) /\ phase = "ready" /\ StillWalked
    BY <1>1
  <2> QED
    BY <1>3, <1>7, <2>1, BitsOfOldRoots
<1>9. Len(cornerTraversalStack') = 1 /\ cornerTraversalStack'[1] = start /\ DOMAIN cornerTraversalStack' = {1}
  BY <1>1
<1>10. ~ MidBranch'
  BY <1>1, <1>2 DEF StillWalked
<1>11. RootIsAhead'
  <2>1. startFaces'[Len(startFaces')] = TRUE
    BY <1>1, WalkRests
  <2>2. LeadsToRoot(cornerTraversalStack[1])'
    BY <1>1, <1>6, <1>7, <1>9, <2>1 DEF LeadsToRoot, SameTable
  <2> QED
    BY <1>1, <1>8, <1>9, <1>10, <2>2 DEF RootIsAhead
<1>12. StackWaits'
  <2>1. Waiting' = 1
    BY <1>9, <1>10 DEF Waiting
  <2>2. \A a, b \in 1 .. 1 : ~ (a < b)
    OBVIOUS
  <2> QED
    BY <1>8, <1>10, <2>1, <2>2 DEF StackWaits
<1>13. WhereItStands'
  BY <1>1, <1>10 DEF WhereItStands
<1>14. GateCorners' = {start}
  BY <1>1, <1>9 DEF GateCorners
<1>15. GatesLeadBack'
  BY <1>1, <1>6, <1>14 DEF GatesLeadBack, SameTable, LeadsNowhere
<1>16. MetVertices'
  <2>1. \A v \in visitedVertices' : v \in visitedVertices \/ \E c \in AllCorners : cornerVertex[c] = v /\ Face(c) = f
    BY <1>1
  <2> QED
    BY <1>1, <1>2, <2>1 DEF MetVertices, SameTable
<1>17. OrderIsComplete'
  BY <1>1 DEF OrderIsComplete
<1> QED
  BY <1>1, <1>3, <1>4, <1>8, <1>11, <1>12, <1>13, <1>15, <1>16, <1>17 DEF TraceInv

(* Before anything is walked every boundary vertex has one open fan, and   *)
(* so one head; every other vertex is a ring.                              *)
LEMMA OpenFansAndRings ==
  ASSUME TableIsReady, TableIsFull, mesh.numVertices \in Nat, visitedFaces = {}
  PROVE  Cardinality(Heads) + Cardinality(Rings) = Cardinality(StoredVertices)
<1> DEFINE B == {v \in StoredVertices : vertexHoleID[v] # -1}
           g == [c \in Heads |-> cornerVertex[c]]
<1>1. /\ TableIsManifold /\ mesh.numFaces \in Nat /\ AllCorners = Corners(mesh.numFaces)
      /\ IsTable(opposite, AllCorners) /\ NoCorner \notin AllCorners
      /\ \A x, y \in AllCorners : cornerVertex[y] = cornerVertex[x] <=> y \in FanCorners(opposite, x)
  BY TableInUse
<1>2. \A c \in AllCorners : cornerVertex[c] \in VertexIDs
  BY <1>1, ManifoldCorners
<1>3. Heads = {c \in AllCorners : opposite[NextCorner(c)] = NoCorner}
  BY DEF Heads, LeadsNowhere
<1>4. Rings = {v \in VertexIDs : vertexHoleID[v] = -1 /\ \E c \in AllCorners : cornerVertex[c] = v}
  BY DEF Rings
<1>5. StoredVertices = {cornerVertex[c] : c \in AllCorners}
  BY DEF TableIsFull
<1>6. StoredVertices = B \cup Rings /\ B \cap Rings = {}
  BY <1>2, <1>4, <1>5
<1>7. \A c \in Heads : g[c] \in B
  BY <1>2, <1>3, <1>5, MissingFaceIsABoundary
<1>8. ASSUME NEW c \in Heads, NEW d \in Heads, g[c] = g[d] PROVE c = d
  <2>1. c \in AllCorners /\ d \in AllCorners /\ cornerVertex[c] = cornerVertex[d]
    BY <1>3, <1>8
  <2>2. SwingLeft(opposite, c) = NoCorner /\ SwingLeft(opposite, d) = NoCorner
    BY <1>3, <2>1, LeftOfACorner
  <2>3. SwingLeft(opposite, c) < 0 /\ SwingLeft(opposite, d) < 0
    BY <2>2 DEF NoCorner
  <2>4. d \in FanCorners(opposite, c)
    BY <1>1, <2>1
  <2> QED
    BY <1>1, <2>1, <2>3, <2>4, OneLeftmost
<1>9. ASSUME NEW v \in B PROVE \E c \in Heads : g[c] = v
  <2>1. v \in VertexIDs /\ vertexHoleID[v] # -1
    BY <1>2, <1>5
  <2>2. PICK c \in AllCorners : cornerVertex[c] = v /\ opposite[PreviousCorner(c)] = NoCorner
    BY <2>1, BoundaryVertex
  <2> DEFINE S == {d \in AllCorners : cornerVertex[d] = v}
  <2>3. SwingRight(opposite, c) = NoCorner
    BY <2>2, RightOfACorner
  <2>4. SUFFICES ASSUME \A d \in S : opposite[NextCorner(d)] # NoCorner PROVE FALSE
    BY <1>3
  <2>5. \A d \in S : SwingLeft(opposite, d) \in S
    BY <2>4, LeftOfACorner
  <2>6. c \in S /\ S \in SUBSET Corners(mesh.numFaces)
    BY <1>1, <2>2
  <2> HIDE DEF S
  <2>7. SwingRight(opposite, c) \in S
    BY <1>1, <2>5, <2>6, LeftClosedIsRightClosed
  <2> QED
    BY <1>1, <2>3, <2>6, <2>7
<1>10. IsFiniteSet(StoredVertices) /\ IsFiniteSet(Heads) /\ IsFiniteSet(Rings)
  <2>1. IsFiniteSet(VertexIDs)
    <3>1. MaxVertices \in Int
      BY <1>1 DEF MaxVertices
    <3> QED
      BY <3>1, FS_Interval DEF VertexIDs
  <2>2. StoredVertices \in SUBSET VertexIDs /\ Rings \in SUBSET VertexIDs /\ Heads \in SUBSET AllCorners
    BY DEF StoredVertices, Rings, Heads
  <2>3. IsFiniteSet(AllCorners)
    BY TableInUse
  <2> QED
    BY <2>1, <2>2, <2>3, FS_Subset
<1>11. ExistsBijection(Heads, B)
  <2>1. g \in [Heads -> B]
    BY <1>7
  <2>2. g \in Injection(Heads, B)
    BY <1>8, <2>1 DEF Injection, IsInjective
  <2>3. g \in Surjection(Heads, B)
    BY <1>9, <2>1 DEF Surjection
  <2> QED
    BY <2>2, <2>3 DEF ExistsBijection, Bijection
<1>12. IsFiniteSet(B) /\ Cardinality(B) = Cardinality(Heads)
  <2> HIDE DEF B
  <2> QED
    BY <1>10, <1>11, FS_Bijection
<1>13. Cardinality(B \cup Rings) = Cardinality(B) + Cardinality(Rings) - Cardinality(B \cap Rings)
  <2> HIDE DEF B
  <2> QED
    BY <1>10, <1>12, FS_Union
<1>14. Cardinality(B \cap Rings) = 0
  BY <1>6, FS_EmptySet
<1>15. Cardinality(B) \in Nat /\ Cardinality(Rings) \in Nat
  BY <1>10, <1>12, FS_CardinalityType
<1>16. Cardinality(StoredVertices) = Cardinality(B \cup Rings)
  BY <1>6
<1> QED
  BY <1>12, <1>13, <1>14, <1>15, <1>16

NothingWrittenYet ==
  phase \in BasePhases =>
    /\ symbols = <<>> /\ startFaces = <<>> /\ splitEvents = <<>> /\ numSplitSymbols = 0
    /\ lastEncodedSymbolID = -1 /\ faceToSplitSymbol = [f \in AllFaces |-> -1]

AtTheStart ==
  /\ phase = "ready" /\ TableIsReady /\ TableIsFull /\ mesh.numVertices \in Nat
  /\ visitedFaces = {} /\ visitedVertices = {} /\ processedCorners = <<>> /\ initFaceCorners = <<>>
  /\ cornerTraversalStack = <<>>
  /\ symbols = <<>> /\ startFaces = <<>> /\ splitEvents = <<>> /\ numSplitSymbols = 0
  /\ lastEncodedSymbolID = -1 /\ faceToSplitSymbol = [f \in AllFaces |-> -1]

(* When nothing is walked the trace is empty.                              *)
LEMMA TraceBegins == AtTheStart => TraceInv
<1> SUFFICES ASSUME AtTheStart PROVE TraceInv
  OBVIOUS
<1> USE DEF AtTheStart
<1>1. NumSymbols = 0 /\ Steps = {} /\ ~ MidBranch
  <2>1. NumSymbols = 0
    BY DEF NumSymbols
  <2> QED
    BY <2>1 DEF Steps, MidBranch
<1>2. Cardinality({}) = 0
  BY FS_EmptySet
<1>3. Roots = {} /\ Len(startFaces) = 0 /\ ~ RootAhead
  BY <1>1, <1>2 DEF Roots, RootAhead
<1>4. InnerBits(0) = 0
  <2>1. {i \in 1 .. 0 : startFaces[i]} = {}
    OBVIOUS
  <2> QED
    BY <1>2, <2>1 DEF InnerBits
<1>5. SymbolsFit /\ BranchesNest /\ RootIsAhead /\ StackWaits /\ WhereItStands
  BY <1>1, <1>3 DEF SymbolsFit, BranchesNest, RootIsAhead, StackWaits, WhereItStands
<1>6. BitsAreOfRoots
  BY <1>3, <1>4 DEF BitsAreOfRoots
<1>7. GatesLeadBack /\ FrontierHasGates /\ InitFacesAreFree /\ MetVertices
  <2>1. GateCorners = {}
    BY DEF GateCorners
  <2>2. FacesOf(initFaceCorners) = {}
    BY DEF FacesOf
  <2>3. \A X : ~ Touches(X, visitedFaces)
    BY DEF Touches
  <2> QED
    BY <2>1, <2>2, <2>3 DEF GatesLeadBack, FrontierHasGates, InitFacesAreFree, MetVertices
<1>8. EventsAreWritten /\ EventsAreTrue /\ SplitFaces
  BY <1>1 DEF EventsAreWritten, EventsAreTrue, SplitFaces
<1>9. VerticesAreCounted
  <2>1. \A s : Places(s) = {}
    BY <1>1 DEF Places
  <2>2. /\ Places({"R"}) = {} /\ Places({"L"}) = {} /\ Places({"E"}) = {} /\ Places({"S"}) = {}
    BY <2>1
  <2>3. Cardinality(Heads) + Cardinality(Rings) = Cardinality(StoredVertices)
    BY OpenFansAndRings
  <2>4. Cardinality(Heads) \in Nat /\ Cardinality(Rings) \in Nat /\ Cardinality(StoredVertices) \in Nat
    BY <1>1, CountedSets
  <2>5. /\ Cardinality(Places({"R"})) = 0 /\ Cardinality(Places({"L"})) = 0
        /\ Cardinality(Places({"E"})) = 0 /\ Cardinality(Places({"S"})) = 0
    BY <1>2, <2>2
  <2>6. numSplitSymbols = 0
    OBVIOUS
  <2> HIDE DEF AtTheStart
  <2> QED
    BY <2>3, <2>4, <2>5, <2>6 DEF VerticesAreCounted
<1>10. OrderIsComplete
  BY DEF OrderIsComplete
<1> QED
  BY <1>5, <1>6, <1>7, <1>8, <1>9, <1>10 DEF TraceInv

(* The same for the state a step leads to.                                 *)
LEMMA TraceBeginsNext == AtTheStart' => TraceInv'
BY TraceBegins, PTL

(* The order is turned round, and every step keeps its corner.             *)
LEMMA WriteKeepsTrace ==
  ASSUME WalkInv, TableIsFull, TraceInv, WriteStream
  PROVE  TableIsFull' /\ TraceInv'
<1> DEFINE P == processedCorners
           N == NumSymbols
<1>1. /\ phase = "ready" /\ phase \in Between /\ visitedFaces = AllFaces
      /\ processedCorners' = Reverse(P) \o initFaceCorners
      /\ numEncodedVertices' = Cardinality(StoredVertices)
      /\ phase' = IF EncodableSplitEvents(splitEvents) THEN "written" ELSE "rejected"
      /\ UNCHANGED <<mesh, opposite, cornerVertex, vertexCorners, vertexHoleID, numHoles>>
      /\ UNCHANGED <<visitedFaces, visitedVertices, initFaceCorners,
                     cornerTraversalStack, lastEncodedSymbolID, faceToSplitSymbol,
                     symbols, startFaces, splitEvents, numSplitSymbols>>
  BY DEF WriteStream, Between, tableVars, StoredVertices
<1>2. phase' = "written"
  BY <1>1 DEF WalkInv, EventsFollowTheWalk
<1>3. /\ TableIsReady /\ P \in Seq(AllCorners) /\ initFaceCorners \in Seq(AllCorners)
      /\ N = Len(P) /\ N \in Nat /\ P = processedCorners
      /\ SymbolsFit /\ BranchesNest /\ BitsAreOfRoots /\ InitFacesAreFree
      /\ EventsAreWritten /\ EventsAreTrue /\ VerticesAreCounted /\ ~ RootAhead /\ ~ MidBranch
  BY <1>1, TraceBetween, WalkRests, ReadyIsClosed
<1>4. SameTable
  BY <1>1, <1>3, TableIsTheSame
<1> HIDE DEF P, N
<1> DEFINE R == Reverse(P)
<1>5. R \in Seq(AllCorners) /\ Len(R) = N /\ \A i \in 1 .. N : R[i] = P[(N - i) + 1]
  <2>1. R = [i \in 1 .. N |-> P[(N - i) + 1]]
    BY <1>3 DEF Reverse
  <2>2. \A i \in 1 .. N : P[(N - i) + 1] \in AllCorners
    <3>1. \A i \in 1 .. N : (N - i) + 1 \in 1 .. N
      BY <1>3
    <3> QED
      BY <1>3, <3>1
  <2> HIDE DEF R
  <2>3. R \in Seq(AllCorners)
    BY <1>3, <2>1, <2>2
  <2>4. Len(R) = N
    BY <1>3, <2>1
  <2> QED
    BY <2>1, <2>3, <2>4
<1> HIDE DEF R
<1> DEFINE I == initFaceCorners
           O == R \o I
<1>6. /\ Len(O) = N + Len(I) /\ Len(I) \in Nat
      /\ \A i \in 1 .. N : O[i] = R[i]
      /\ \A q \in DOMAIN I : O[N + q] = I[q]
  <2>1. /\ Len(O) = Len(R) + Len(I)
        /\ \A i \in 1 .. Len(R) + Len(I) : O[i] = IF i <= Len(R) THEN R[i] ELSE I[i - Len(R)]
    BY <1>3, <1>5, ConcatProperties
  <2>2. Len(I) \in Nat /\ DOMAIN I = 1 .. Len(I)
    BY <1>3
  <2> HIDE DEF O, I
  <2>3. \A i \in 1 .. N : O[i] = R[i]
    BY <1>3, <1>5, <2>1, <2>2
  <2>4. \A q \in DOMAIN I : O[N + q] = I[q]
    <3>1. \A q \in 1 .. Len(I) : N + q \in 1 .. N + Len(I) /\ ~ (N + q <= N) /\ (N + q) - N = q
      BY <1>3, <2>2
    <3> QED
      BY <1>5, <2>1, <2>2, <3>1
  <2> QED
    BY <1>5, <2>1, <2>2, <2>3, <2>4
<1>7. processedCorners' = O
  BY <1>1 DEF R
<1> HIDE DEF O
<1>8. NumSymbols' = N
  BY <1>1 DEF NumSymbols, N
<1>9. \A i \in Steps : Walked(i)' = Walked(i)
  <2> SUFFICES ASSUME NEW i \in Steps PROVE Walked(i)' = Walked(i)
    OBVIOUS
  <2>1. i \in 1 .. N
    BY DEF Steps, N
  <2>2. N - i + 1 \in 1 .. N /\ (N - (N - i + 1)) + 1 = i
    BY <1>3, <2>1
  <2>3. O[N - i + 1] = P[i]
    BY <1>5, <1>6, <2>2
  <2>4. Walked(i)' = O[N - i + 1]
    BY <1>2, <1>7, <1>8 DEF Walked
  <2>5. Walked(i) = P[i]
    BY <1>1, <1>3 DEF Walked
  <2> QED
    BY <2>3, <2>4, <2>5
<1>10. StillWalked
  BY <1>1, <1>3, <1>4, <1>9, NothingTaken DEF N
<1>11. FacesOf(initFaceCorners)' = FacesOf(initFaceCorners)
  BY <1>1 DEF FacesOf
<1>12. SymbolsFit' /\ BranchesNest' /\ InitFacesAreFree' /\ Roots' = Roots
       /\ \A j \in Roots : RankOf(j)' = RankOf(j)
  BY <1>3, <1>10, <1>11, StillFits
<1>13. EventsAreWritten' /\ EventsAreTrue' /\ VerticesAreCounted'
  BY <1>1, <1>3, <1>10, StillWritten, StillCounted
<1>14. ~ RootAhead' /\ ~ MidBranch'
  BY <1>1, <1>3, <1>10, <1>12 DEF RootAhead, StillWalked
<1>15. BitsAreOfRoots'
  <2>1. \A k : InnerBits(k)' = InnerBits(k)
    BY <1>1 DEF InnerBits
  <2>2. \A j \in Roots : /\ RankOf(j)' = RankOf(j) /\ Walked(j)' = Walked(j)
                         /\ InnerBits(RankOf(j))' = InnerBits(RankOf(j))
    <3>1. \A j \in Roots : RankOf(j)' = RankOf(j) /\ Walked(j)' = Walked(j)
      BY <1>9, <1>12 DEF Roots
    <3>2. \A j \in Roots : \A k : RankOf(j)' = k => InnerBits(RankOf(j))' = InnerBits(k)'
      BY DEF InnerBits
    <3> QED
      BY <2>1, <3>1, <3>2
  <2>3. InnerBits(Len(startFaces))' = InnerBits(Len(startFaces))
    BY <1>1 DEF InnerBits
  <2> QED
    BY <1>1, <1>3, <1>12, <2>2, <2>3 DEF BitsAreOfRoots
<1>16. OrderIsComplete'
  <2>1. Len(processedCorners') = NumSymbols' + Len(initFaceCorners')
    BY <1>1, <1>6, <1>7, <1>8
  <2>2. \A q \in DOMAIN initFaceCorners' : processedCorners'[NumSymbols' + q] = initFaceCorners'[q]
    BY <1>1, <1>6, <1>7, <1>8
  <2>3. visitedFaces' = AllFaces' /\ numEncodedVertices' = Cardinality(StoredVertices')
    BY <1>1, <1>4 DEF SameTable
  <2> QED
    BY <1>14, <2>1, <2>2, <2>3 DEF OrderIsComplete
<1>17. RootIsAhead' /\ StackWaits' /\ WhereItStands' /\ GatesLeadBack' /\ FrontierHasGates'
       /\ MetVertices' /\ SplitFaces'
  BY <1>2, <1>14 DEF RootIsAhead, StackWaits, WhereItStands, GatesLeadBack, FrontierHasGates,
                     MetVertices, SplitFaces, Walking
<1> QED
  BY <1>4, <1>12, <1>13, <1>15, <1>16, <1>17 DEF TraceInv, SameTable

-----------------------------------------------------------------------------
(* The trace of the walk, over all of it.                                  *)
TraceIsKept ==
  /\ WalkInv /\ NothingWrittenYet
  /\ phase \in BasePhases => StoredWhenVisited
  /\ phase \in WalkPhases => TableIsFull
  /\ TraceInv

(* Before the table is ready, and after a mesh is refused, the trace says  *)
(* nothing.                                                                *)
LEMMA NothingTracedYet ==
  phase \in BasePhases \cup {"rejected"} => TraceInv
BY DEF BasePhases, TraceInv, WalkPhases

(* The trace of the first state.                                           *)
LEMMA InitBeginsTrace == EncoderInit => TraceIsKept
<1> SUFFICES ASSUME EncoderInit PROVE TraceIsKept
  OBVIOUS
<1>1. WalkInv
  BY InitEstablishesWalkInv
<1>2. phase = "faces" /\ StoredWhenVisited
  BY BaseInitStores DEF EncoderInit, BaseInit
<1>3. NothingWrittenYet
  BY DEF NothingWrittenYet, EncoderInit, WireInit, TraversalInit
<1> QED
  BY <1>1, <1>2, <1>3, NothingTracedYet DEF TraceIsKept, BasePhases, WalkPhases

(* The table of the three passes is full when it is ready.                 *)
LEMMA ReadyTableIsFullNext == (HoleInv /\ phase = "ready" /\ StoredWhenVisited)' => TableIsFull'
<1>1. HoleInv /\ phase = "ready" /\ StoredWhenVisited => TableIsFull
  BY ReadyTableIsFull
<1> QED
  BY <1>1, PTL

(* The three passes begin the trace.                                       *)
LEMMA BaseKeepsTrace ==
  ASSUME TraceIsKept, BaseNext, UNCHANGED <<traversalVars, wireVars>>
  PROVE  TraceIsKept'
<1>1. phase \in BasePhases /\ mesh' = mesh
  BY DEF BaseNext, LoadFaces, MatchHalfEdge, OpenHalfEdge, OppositesDone, VisitFan,
         OutOfVertices, SkipVisitedCorner, VerticesDone, NumberHole, SkipHoleCorner, HolesDone,
         UnchangedByMatching, BasePhases
<1>2. WalkInv' /\ HoleInv /\ HoleInv' /\ StoredWhenVisited /\ StoredWhenVisited'
  <2>1. WalkInv' /\ HoleInv /\ StoredWhenVisited
    BY <1>1, WalkWaitsForTheTable DEF TraceIsKept, WalkInv, TableIsKept
  <2> QED
    BY <2>1, NextKeepsHoleInv, BaseStepStores
<1>3. phase' \in BasePhases \cup {"ready", "rejected"}
  BY <1>2 DEF HoleInv, FanInv, MatchingInv, BaseTypeOK, Phases, BasePhases
<1>4. UNCHANGED <<visitedFaces, visitedVertices, processedCorners, initFaceCorners,
                  cornerTraversalStack, symbols, startFaces, splitEvents, numSplitSymbols,
                  lastEncodedSymbolID, faceToSplitSymbol>> /\ AllFaces' = AllFaces
  BY <1>1 DEF traversalVars, wireVars, AllFaces
<1>5. /\ symbols = <<>> /\ startFaces = <<>> /\ splitEvents = <<>> /\ numSplitSymbols = 0
      /\ lastEncodedSymbolID = -1 /\ faceToSplitSymbol = [f \in AllFaces |-> -1]
  BY <1>1 DEF TraceIsKept, NothingWrittenYet
<1>6. NothingWrittenYet'
  BY <1>4, <1>5 DEF NothingWrittenYet
<1>7. CASE phase' \in BasePhases \cup {"rejected"}
  <2>1. TraceInv' /\ phase' \notin WalkPhases
    BY <1>7 DEF TraceInv, BasePhases, WalkPhases
  <2> QED
    BY <1>2, <1>6, <2>1 DEF TraceIsKept
<1>8. CASE phase' = "ready"
  <2>1. TableIsFull'
    BY <1>2, <1>8, ReadyTableIsFullNext
  <2>2. /\ visitedFaces = {} /\ visitedVertices = {}
        /\ processedCorners = <<>> /\ initFaceCorners = <<>> /\ cornerTraversalStack = <<>>
    BY <1>1 DEF TraceIsKept, WalkInv, NothingWalkedYet
  <2>3. TableIsReady' /\ mesh'.numVertices \in Nat
    BY <1>2, <1>8 DEF WalkInv, TableIsKept, TraversalTypes
  <2>4. AtTheStart'
    BY <1>4, <1>5, <1>8, <2>1, <2>2, <2>3 DEF AtTheStart
  <2>5. TraceInv'
    BY <2>4, TraceBeginsNext
  <2> QED
    BY <1>2, <1>6, <2>1, <2>5 DEF TraceIsKept
<1> QED
  BY <1>3, <1>7, <1>8

(* Every step of the encoder keeps the trace.                              *)
LEMMA EncoderKeepsTrace ==
  ASSUME TraceIsKept, EncoderNext
  PROVE  TraceIsKept'
<1>1. CASE BaseNext /\ UNCHANGED <<traversalVars, wireVars>>
  BY <1>1, BaseKeepsTrace
<1>2. CASE TraversalNext
  <2>1. WalkInv' /\ phase \in {"ready", "branch", "walk"}
    <3>1. WalkInv'
      BY <1>2, EncoderNextKeepsWalkInv DEF EncoderNext, TraceIsKept
    <3> QED
      BY <1>2, <3>1 DEF TraversalNext, SeedInteriorFace, SeedBoundaryFace, DropVisitedBranch, EnterBranch,
                  ComponentDone, SymbolC, SymbolR, SymbolL, SymbolE, SymbolS, ReachCorner, WriteStream
  <2>2. WalkInv /\ TableIsFull /\ TraceInv
    BY <2>1 DEF TraceIsKept, WalkPhases
  <2>3. TableIsFull' /\ TraceInv'
    BY <1>2, <2>2, SymbolKeepsTrace, DropKeepsTrace, EnterKeepsTrace, ComponentDoneKeepsTrace,
       SeedBoundaryKeepsTrace, SeedInteriorKeepsTrace, WriteKeepsTrace DEF TraversalNext
  <2>4. phase' \notin BasePhases
    BY <1>2, <2>1 DEF TraversalNext, SeedInteriorFace, SeedBoundaryFace, DropVisitedBranch, EnterBranch,
                ComponentDone, SymbolC, SymbolR, SymbolL, SymbolE, SymbolS, ReachCorner, WriteStream,
                EncodeConnectivityFrom, BasePhases
  <2> QED
    BY <2>1, <2>3, <2>4 DEF TraceIsKept, NothingWrittenYet
<1> QED
  BY <1>1, <1>2 DEF EncoderNext

(* Nothing that the encoder keeps is touched while the decoder works.      *)
LEMMA TraceRests ==
  ASSUME TraceInv, UNCHANGED encoderVars
  PROVE  TraceInv'
<1>1. UNCHANGED <<mesh, opposite, cornerVertex, vertexCorners, vertexHoleID, symbols, phase,
                  processedCorners, initFaceCorners, startFaces, splitEvents, numSplitSymbols,
                  visitedFaces, visitedVertices, current, cornerTraversalStack,
                  lastEncodedSymbolID, faceToSplitSymbol, numEncodedVertices>>
  BY DEF encoderVars, baseVars, tableVars, traversalVars, wireVars
<1> SUFFICES ASSUME phase \in WalkPhases
             PROVE  TraceInv'
  BY <1>1 DEF TraceInv
<1>2. /\ AllCorners' = AllCorners /\ AllFaces' = AllFaces /\ VertexIDs' = VertexIDs
      /\ NumSymbols' = NumSymbols /\ Steps' = Steps /\ (Walking' <=> Walking)
      /\ FacesOf(initFaceCorners)' = FacesOf(initFaceCorners)
  BY <1>1 DEF AllCorners, AllFaces, VertexIDs, MaxVertices, NumSymbols, Steps, Walking, FacesOf
<1>3. /\ \A i : Walked(i)' = Walked(i)
      /\ \A c, F : LeadsNowhere(c, F)' <=> LeadsNowhere(c, F)
      /\ (MidBranch' <=> MidBranch)
      /\ \A k : InnerBits(k)' = InnerBits(k)
      /\ \A s : Places(s)' = Places(s)
  BY <1>1, <1>2 DEF Walked, LeadsNowhere, MidBranch, InnerBits, Places
<1>4. /\ \A i : RightOf(i)' = RightOf(i) /\ LeftOf(i)' = LeftOf(i) /\ Old(i)' = Old(i)
      /\ \A c : Around(c)' = Around(c)
  BY <1>1, <1>2, <1>3 DEF RightOf, LeftOf, Old, Around
<1>5. /\ \A i : NextStep(i)' = NextStep(i)
      /\ \A c, F : IsFresh(c, F)' <=> IsFresh(c, F)
      /\ \A i, c : BackTo(i, c)' <=> BackTo(i, c)
      /\ \A i : IsBranch(i)' <=> IsBranch(i)
      /\ \A i, j : IsChild(i, j)' <=> IsChild(i, j)
  BY <1>1, <1>2, <1>3, <1>4 DEF NextStep, IsFresh, BackTo, IsBranch, IsChild
<1>6. /\ \A x, c, F : Fits(x, c, F)' <=> Fits(x, c, F)
      /\ \A j : IsRoot(j)' <=> IsRoot(j)
      /\ \A i, k : NestedIn(i, k)' <=> NestedIn(i, k)
  BY <1>1, <1>2, <1>3, <1>4, <1>5 DEF Fits, IsRoot, NestedIn
<1>7. /\ Roots' = Roots
      /\ \A c, i : WaitsSince(c, i)' <=> WaitsSince(c, i)
      /\ Waiting' = Waiting
  BY <1>1, <1>2, <1>3, <1>4, <1>5, <1>6 DEF Roots, WaitsSince, Waiting
<1>8. /\ \A j : RankOf(j)' = RankOf(j)
      /\ (RootAhead' <=> RootAhead)
      /\ \A c : LeadsToRoot(c)' <=> LeadsToRoot(c)
  BY <1>1, <1>2, <1>7 DEF RankOf, RootsUpTo, RootAhead, LeadsToRoot
<1>9. /\ GateCorners' = GateCorners
      /\ \A X, F : (KeepsWithin(X, F)' <=> KeepsWithin(X, F)) /\ (Touches(X, F)' <=> Touches(X, F))
      /\ Heads' = Heads /\ Rings' = Rings /\ StoredVertices' = StoredVertices
  BY <1>1, <1>2, <1>3 DEF GateCorners, KeepsWithin, Touches, Heads, Rings, StoredVertices
<1>10. SymbolsFit'
  BY <1>1, <1>2, <1>3, <1>4, <1>5, <1>6 DEF TraceInv, SymbolsFit
<1>11. BranchesNest'
  BY <1>2, <1>5, <1>6 DEF TraceInv, BranchesNest
<1>12. BitsAreOfRoots'
  BY <1>1, <1>3, <1>7, <1>8 DEF TraceInv, BitsAreOfRoots
<1>13. RootIsAhead'
  BY <1>1, <1>3, <1>7, <1>8 DEF TraceInv, RootIsAhead
<1>14. StackWaits'
  BY <1>1, <1>2, <1>3, <1>7, <1>8 DEF TraceInv, StackWaits
<1>15. WhereItStands'
  BY <1>1, <1>2, <1>3, <1>5 DEF TraceInv, WhereItStands
<1>16. GatesLeadBack'
  BY <1>1, <1>2, <1>3, <1>9 DEF TraceInv, GatesLeadBack
<1>17. FrontierHasGates'
  BY <1>1, <1>2, <1>9 DEF TraceInv, FrontierHasGates
<1>18. InitFacesAreFree'
  BY <1>2, <1>5 DEF TraceInv, InitFacesAreFree
<1>19. MetVertices'
  BY <1>1, <1>2 DEF TraceInv, MetVertices
<1>20. EventsAreWritten'
  BY <1>1, <1>2, <1>4, <1>5 DEF TraceInv, EventsAreWritten
<1>21. EventsAreTrue'
  BY <1>1, <1>2, <1>4, <1>5 DEF TraceInv, EventsAreTrue, IsTrueEvent
<1>22. SplitFaces'
  BY <1>1, <1>2, <1>3 DEF TraceInv, SplitFaces
<1>23. VerticesAreCounted'
  BY <1>1, <1>3, <1>9 DEF TraceInv, VerticesAreCounted
<1>24. OrderIsComplete'
  BY <1>1, <1>2, <1>3, <1>9 DEF TraceInv, OrderIsComplete
<1> QED
  BY <1>10, <1>11, <1>12, <1>13, <1>14, <1>15, <1>16, <1>17, <1>18, <1>19, <1>20, <1>21, <1>22,
     <1>23, <1>24 DEF TraceInv

(* A step the encoder has no part in keeps it.                             *)
LEMMA TraceStays ==
  ASSUME TraceIsKept, UNCHANGED encoderVars
  PROVE  TraceIsKept'
<1> USE DEF encoderVars, baseVars, tableVars, traversalVars, wireVars
<1>1. WalkInv'
  BY WalkInvStays DEF TraceIsKept
<1>2. NothingWrittenYet'
  BY DEF TraceIsKept, NothingWrittenYet, AllFaces
<1>3. phase' \in BasePhases => StoredWhenVisited'
  BY DEF TraceIsKept, StoredWhenVisited, VertexIDs, MaxVertices, DegenerateFace
<1>4. phase' \in WalkPhases => TableIsFull'
  BY DEF TraceIsKept, TableIsFull, AllCorners, StoredVertices, VertexIDs, MaxVertices
<1>5. TraceInv'
  BY TraceRests DEF TraceIsKept
<1> QED
  BY <1>1, <1>2, <1>3, <1>4, <1>5 DEF TraceIsKept

(* Whatever is encoded, the trace is the one described above: the rest is  *)
(* the decoder's, which leaves it alone.                                   *)
LEMMA TraceInvariant == Spec => []TraceIsKept
<1>1. Init => TraceIsKept
  BY InitBeginsTrace DEF Init
<1>2. TraceIsKept /\ [Next]_vars => TraceIsKept'
  <2> SUFFICES ASSUME TraceIsKept, [Next]_vars PROVE TraceIsKept'
    OBVIOUS
  <2>1. CASE Encode
    BY <2>1, EncoderKeepsTrace DEF Encode
  <2>2. CASE Decode \/ UNCHANGED vars
    <3>1. UNCHANGED encoderVars
      BY <2>2 DEF Decode, vars
    <3> QED
      BY <3>1, TraceStays
  <2> QED
    BY <2>1, <2>2 DEF Next
<1> QED
  BY <1>1, <1>2, PTL DEF Spec

=============================================================================
