--------------------- MODULE EdgebreakerBaseTable_proof ---------------------
(***************************************************************************)
(* The half-edge matching is right for every mesh: opposite corners come   *)
(* in pairs, each pair faces one edge of the mesh from its two sides, and  *)
(* no two half-edges that fit are left unmatched.  The second pass then    *)
(* gives each fan of corners one vertex of its own and stores its leftmost *)
(* corner, and has room for all of them unless the mesh is improper.  The  *)
(* third pass numbers the boundary loops, a number to each.                *)
(***************************************************************************)
EXTENDS EdgebreakerBaseTable, CornerTables_proof

(* Corners of one face are equal, next or previous to one another.         *)
LEMMA CornersOfOneFace ==
  ASSUME NEW F \in Nat, NEW c \in Corners(F), NEW d \in Corners(F), Face(c) = Face(d)
  PROVE  \/ d = c
         \/ d = NextCorner(c) /\ PreviousCorner(d) = c
         \/ d = PreviousCorner(c) /\ NextCorner(d) = c
<1> DEFINE f == Face(c)
<1>1. c \in Int /\ d \in Int /\ c >= 0 /\ d >= 0
  BY DEF Corners
<1>2. /\ f \in Int /\ 3 * f <= c /\ c <= 3 * f + 2 /\ 3 * f <= d /\ d <= 3 * f + 2
      /\ c % 3 = c - 3 * f /\ d % 3 = d - 3 * f
  BY <1>1 DEF Face
<1> QED
  BY <1>1, <1>2 DEF NextCorner, PreviousCorner

-----------------------------------------------------------------------------
(* The inductive invariant.                                                *)

(* What is left unchanged once the opposite corners are found.             *)
PairedTable ==
  /\ mesh \in Meshes
  /\ opposite \in [AllCorners -> AllCorners \cup {NoCorner}]
  /\ OppositesArePairs
  /\ PairsFaceOneEdge

(* While the pass reads corner after corner, it has the mesh's own         *)
(* vertices, and no face is degenerate.                                    *)
Matching == phase \in {"faces", "opposites"}

SourceOf(c) == mesh.vertexAt[NextCorner(c)]
SinkOf(c) == mesh.vertexAt[PreviousCorner(c)]

MatchingMesh ==
  phase = "opposites" =>
    /\ cornerVertex = mesh.vertexAt
    /\ \A f \in 0 .. mesh.numFaces - 1 : ~ DegenerateFace(f)

(* An open half-edge is listed at its source, once, and is one of an       *)
(* unmatched corner that was read.                                         *)
OpenEdgesAreOpen ==
  Matching =>
    \A v \in VertexIDs : \A i \in DOMAIN openEdges[v] :
       LET e == openEdges[v][i]
       IN  /\ e.corner < cursor
           /\ opposite[e.corner] = NoCorner
           /\ SourceOf(e.corner) = v
           /\ SinkOf(e.corner) = e.sink
           /\ \A j \in DOMAIN openEdges[v] : openEdges[v][j].corner = e.corner => j = i

(* Conversely, every unmatched corner that was read is listed; no other    *)
(* corner is matched yet.                                                  *)
UnmatchedAreListed ==
  Matching =>
    \A c \in AllCorners :
       /\ c >= cursor => opposite[c] = NoCorner
       /\ (c < cursor /\ opposite[c] = NoCorner) =>
            \E i \in DOMAIN openEdges[SourceOf(c)] : openEdges[SourceOf(c)][i].corner = c

(* No two corners that were read could still be matched.                   *)
NothingLeftBehind ==
  phase # "rejected" =>
    \A c, d \in AllCorners :
       ~ /\ Matching => c < cursor /\ d < cursor
         /\ opposite[c] = NoCorner
         /\ opposite[d] = NoCorner
         /\ FacesSameEdge(mesh.vertexAt, c, d)
         /\ mesh.vertexAt[c] # mesh.vertexAt[d]

MatchingInv ==
  /\ BaseTypeOK
  /\ PairedTable
  /\ phase = "faces" => cursor = 0
  /\ phase \notin {"faces", "rejected"} => cornerVertex \in [AllCorners -> VertexIDs]
  /\ MatchingMesh
  /\ OpenEdgesAreOpen
  /\ UnmatchedAreListed
  /\ NothingLeftBehind

-----------------------------------------------------------------------------

LEMMA InitEstablishesMatchingInv == BaseInit => MatchingInv
<1> SUFFICES ASSUME BaseInit PROVE MatchingInv
  OBVIOUS
<1> USE DEF BaseInit
<1>1. IsMesh(mesh)
  BY MeshesAssumption
<1>2. /\ mesh.numVertices \in Nat /\ mesh.numFaces \in Nat
      /\ mesh.vertexAt \in [AllCorners -> Nat]
      /\ MaxVertices \in Nat
  BY <1>1 DEF IsMesh, AllCorners, MaxVertices
<1>3. BaseTypeOK
  <2>1. [v \in VertexIDs |-> <<>>] \in [VertexIDs -> Seq([sink : VertexIDs, corner : AllCorners])]
    OBVIOUS
  <2> QED
    BY <1>1, <1>2, <2>1 DEF BaseTypeOK, Phases, NoCorner
<1>4. PairedTable
  BY DEF PairedTable, OppositesArePairs, IsPairing, PairsFaceOneEdge, NoCorner
<1>5. MatchingMesh /\ OpenEdgesAreOpen
  BY DEF MatchingMesh, OpenEdgesAreOpen
<1>6. UnmatchedAreListed /\ NothingLeftBehind
  <2>1. \A c \in AllCorners : c >= 0 /\ ~ c < 0
    BY <1>2 DEF AllCorners, Corners
  <2> QED
    BY <2>1 DEF UnmatchedAreListed, NothingLeftBehind, Matching
<1> QED
  BY <1>3, <1>4, <1>5, <1>6 DEF MatchingInv

(* Once the matching is over only the phase and the vertices change.       *)
LEMMA AfterMatching ==
  ASSUME MatchingInv, ~ Matching, ~ Matching', UNCHANGED <<mesh, opposite>>,
         phase # "rejected", BaseTypeOK',
         cornerVertex' \in [AllCorners -> VertexIDs]
  PROVE  MatchingInv'
<1>1. PairedTable'
  BY DEF MatchingInv, PairedTable, AllCorners, OppositesArePairs, PairsFaceOneEdge
<1>2. phase' \notin {"faces", "opposites"}
  BY DEF Matching
<1>3. (MatchingMesh /\ OpenEdgesAreOpen /\ UnmatchedAreListed)'
  BY <1>2 DEF MatchingMesh, OpenEdgesAreOpen, UnmatchedAreListed, Matching
<1>4. NothingLeftBehind'
  BY <1>2 DEF MatchingInv, NothingLeftBehind, Matching, AllCorners
<1>5. cornerVertex' \in [AllCorners' -> VertexIDs']
  BY DEF AllCorners, VertexIDs, MaxVertices
<1> QED
  BY <1>1, <1>2, <1>3, <1>4, <1>5 DEF MatchingInv

-----------------------------------------------------------------------------
(* One step of the matching.                                               *)

(* Facts about the corner in hand that both cases of a step use.           *)
LEMMA CornerInHand ==
  ASSUME MatchingInv, phase = "opposites", cursor \in AllCorners
  PROVE  /\ mesh.numFaces \in Nat /\ AllCorners = Corners(mesh.numFaces)
         /\ mesh.vertexAt \in [AllCorners -> VertexIDs]
         /\ cornerVertex = mesh.vertexAt
         /\ cursor \in Nat /\ cursor + 1 \in 0 .. 3 * mesh.numFaces
         /\ opposite[cursor] = NoCorner
         /\ SourceOf(cursor) \in VertexIDs /\ SinkOf(cursor) \in VertexIDs
         /\ \A c \in AllCorners : c \in Nat /\ c # NoCorner
                 /\ NextCorner(c) \in AllCorners /\ PreviousCorner(c) \in AllCorners
<1>1. mesh.numFaces \in Nat /\ AllCorners = Corners(mesh.numFaces)
  BY DEF MatchingInv, BaseTypeOK, IsMesh, AllCorners
<1>2. cornerVertex = mesh.vertexAt /\ cornerVertex \in [AllCorners -> VertexIDs]
  BY DEF MatchingInv, MatchingMesh
<1>3. \A c \in AllCorners : c \in Nat /\ c # NoCorner
                 /\ NextCorner(c) \in AllCorners /\ PreviousCorner(c) \in AllCorners
  <2>1. \A c \in AllCorners : NextCorner(c) \in AllCorners /\ PreviousCorner(c) \in AllCorners
    BY <1>1, CornerArithmetic
  <2> QED
    BY <1>1, <2>1 DEF Corners, NoCorner
<1>4. opposite[cursor] = NoCorner
  BY <1>3 DEF MatchingInv, UnmatchedAreListed, Matching
<1>5. cursor + 1 \in 0 .. 3 * mesh.numFaces
  BY <1>1 DEF Corners
<1> QED
  BY <1>1, <1>2, <1>3, <1>4, <1>5 DEF SourceOf, SinkOf

(* Corners of a proper face that run along one edge are of two faces.      *)
LEMMA EdgeOfTwoFaces ==
  ASSUME MatchingInv, phase = "opposites",
         NEW c \in AllCorners, NEW d \in AllCorners, c # d,
         FacesSameEdge(mesh.vertexAt, c, d)
  PROVE  Face(c) # Face(d)
<1>1. mesh.numFaces \in Nat /\ AllCorners = Corners(mesh.numFaces)
  BY DEF MatchingInv, BaseTypeOK, IsMesh, AllCorners
<1>2. Face(c) \in 0 .. mesh.numFaces - 1
  BY <1>1, CornerArithmetic
<1>3. \A a, b \in {c, NextCorner(c), PreviousCorner(c)} :
         a # b => mesh.vertexAt[a] # mesh.vertexAt[b]
  <2>1. {c, NextCorner(c), PreviousCorner(c)}
          = {3 * Face(c), 3 * Face(c) + 1, 3 * Face(c) + 2}
    BY <1>1, CornerArithmetic
  <2>2. ~ DegenerateFace(Face(c))
    BY <1>2 DEF MatchingInv, MatchingMesh
  <2> QED
    BY <2>1, <2>2, Zenon DEF DegenerateFace
<1>4. NextCorner(c) # c /\ PreviousCorner(c) # c
  BY <1>1, CornerArithmetic
<1>5. SUFFICES ASSUME Face(c) = Face(d) PROVE FALSE
  OBVIOUS
<1>6. CASE d = NextCorner(c) /\ PreviousCorner(d) = c
  BY <1>3, <1>4, <1>6 DEF FacesSameEdge
<1>7. CASE d = PreviousCorner(c) /\ NextCorner(d) = c
  BY <1>3, <1>4, <1>7 DEF FacesSameEdge
<1> QED
  BY <1>1, <1>5, <1>6, <1>7, CornersOfOneFace

LEMMA ElementOfList ==
  ASSUME NEW T, NEW list \in Seq(T), NEW i \in DOMAIN list
  PROVE  list[i] \in T
OBVIOUS

(* Taking an element out of a list keeps the others, once each.            *)
LEMMA ListWithoutIndex ==
  ASSUME NEW T, NEW list \in Seq(T), NEW i \in DOMAIN list,
         NEW w, w = WithoutIndex(list, i)
  PROVE  /\ w \in Seq(T)
         /\ \A j \in DOMAIN w : \E k \in DOMAIN list \ {i} : w[j] = list[k]
         /\ \A k \in DOMAIN list \ {i} : \E j \in DOMAIN w : w[j] = list[k]
         /\ \A j, l \in DOMAIN w : j # l =>
              \E k, m \in DOMAIN list \ {i} :
                 k # m /\ w[j] = list[k] /\ w[l] = list[m]
<1> DEFINE n == Len(list)
           up(j) == IF j < i THEN j ELSE j + 1
<1>1. n \in Nat /\ DOMAIN list = 1 .. n /\ i \in 1 .. n /\ n - 1 \in Nat
  OBVIOUS
<1>2. DOMAIN w = 1 .. n - 1 /\ \A j \in 1 .. n - 1 : w[j] = list[up(j)]
  BY DEF WithoutIndex
<1>3. \A j \in 1 .. n - 1 : up(j) \in (1 .. n) \ {i}
  BY <1>1
<1>4. w \in Seq(T)
  <2>1. \A k \in 1 .. n : list[k] \in T
    BY <1>1
  <2>2. w \in [1 .. n - 1 -> T]
    BY <1>2, <1>3, <2>1 DEF WithoutIndex
  <2> QED
    BY <1>1, <2>2
<1>5. \A k \in (1 .. n) \ {i} : \E j \in 1 .. n - 1 : up(j) = k
  <2> TAKE k \in (1 .. n) \ {i}
  <2>1. CASE k < i
    <3> WITNESS k \in 1 .. n - 1
    <3> QED
      BY <2>1
  <2>2. CASE k > i
    <3>1. k - 1 \in 1 .. n - 1 /\ up(k - 1) = k
      BY <1>1, <2>2
    <3> QED
      BY <3>1
  <2> QED
    BY <1>1, <2>1, <2>2
<1>6. \A j, l \in 1 .. n - 1 : j # l => up(j) # up(l)
  BY <1>1
<1>7. \A k \in (1 .. n) \ {i} : \E j \in DOMAIN w : w[j] = list[k]
  BY <1>2, <1>5
<1> HIDE DEF up
<1>8. \A j, l \in DOMAIN w : j # l =>
        /\ up(j) \in DOMAIN list \ {i} /\ up(l) \in DOMAIN list \ {i}
        /\ up(j) # up(l) /\ w[j] = list[up(j)] /\ w[l] = list[up(l)]
  BY <1>1, <1>2, <1>3, <1>6
<1>9. \A j \in DOMAIN w : up(j) \in DOMAIN list \ {i} /\ w[j] = list[up(j)]
  BY <1>1, <1>2, <1>3
<1> QED
  BY <1>1, <1>4, <1>7, <1>8, <1>9

LEMMA MatchKeepsInv == MatchingInv /\ MatchHalfEdge => MatchingInv'
<1> SUFFICES ASSUME MatchingInv, MatchHalfEdge PROVE MatchingInv'
  OBVIOUS
<1> DEFINE c == cursor
           v == SinkOf(c)
           list == openEdges[v]
<1>1. phase = "opposites" /\ c \in AllCorners /\ Matching
  BY DEF MatchHalfEdge, Matching
<1>2. PICK i \in Matches(c, HalfEdgeSink(c)) :
         /\ opposite' = Glue(opposite, c, openEdges[HalfEdgeSink(c)][i].corner)
         /\ openEdges' = [openEdges EXCEPT ![HalfEdgeSink(c)] = WithoutIndex(@, i)]
  BY DEF MatchHalfEdge
<1>3. /\ mesh.numFaces \in Nat /\ AllCorners = Corners(mesh.numFaces)
      /\ mesh.vertexAt \in [AllCorners -> VertexIDs]
      /\ cornerVertex = mesh.vertexAt
      /\ c \in Nat /\ c + 1 \in 0 .. 3 * mesh.numFaces
      /\ opposite[c] = NoCorner
      /\ SourceOf(c) \in VertexIDs /\ v \in VertexIDs
      /\ \A x \in AllCorners : x \in Nat /\ x # NoCorner
              /\ NextCorner(x) \in AllCorners /\ PreviousCorner(x) \in AllCorners
  BY <1>1, CornerInHand
<1>4. HalfEdgeSink(c) = v
  BY <1>3 DEF HalfEdgeSink, SinkOf
<1>5. /\ openEdges \in [VertexIDs -> Seq([sink : VertexIDs, corner : AllCorners])]
      /\ opposite \in [AllCorners -> AllCorners \cup {NoCorner}]
      /\ IsPairing(opposite)
  BY DEF MatchingInv, BaseTypeOK, PairedTable, OppositesArePairs
<1> DEFINE d == list[i].corner
<1>6. /\ list \in Seq([sink : VertexIDs, corner : AllCorners])
      /\ i \in DOMAIN list /\ d \in AllCorners /\ d \in Nat
      /\ list[i].sink = cornerVertex[NextCorner(c)] /\ cornerVertex[d] # cornerVertex[c]
  <2>1. list \in Seq([sink : VertexIDs, corner : AllCorners])
    BY <1>3, <1>5
  <2>2. /\ i \in DOMAIN list
        /\ list[i].sink = cornerVertex[NextCorner(c)] /\ cornerVertex[d] # cornerVertex[c]
    BY <1>4 DEF Matches
  <2>3. list[i] \in [sink : VertexIDs, corner : AllCorners]
    BY <2>1, <2>2, ElementOfList
  <2> QED
    BY <1>3, <2>1, <2>2, <2>3
<1>7. /\ d < c /\ opposite[d] = NoCorner /\ SourceOf(d) = v /\ SinkOf(d) = list[i].sink
      /\ list[i].sink = SourceOf(c)
      /\ mesh.vertexAt[d] # mesh.vertexAt[c]
  <2>1. d < c /\ opposite[d] = NoCorner /\ SourceOf(d) = v /\ SinkOf(d) = list[i].sink
    BY <1>1, <1>3, <1>6 DEF MatchingInv, OpenEdgesAreOpen
  <2> QED
    BY <1>3, <1>6, <2>1 DEF SourceOf
<1>8. opposite' = Glue(opposite, c, d)
  BY <1>2, <1>4
<1>9. /\ opposite' \in [AllCorners -> AllCorners \cup {NoCorner}]
      /\ \A x \in AllCorners :
            opposite'[x] = IF x = c THEN d ELSE IF x = d THEN c ELSE opposite[x]
      /\ IsPairing(opposite')
  <2>1. c # d /\ NoCorner \notin AllCorners
    BY <1>3, <1>6, <1>7
  <2>2. c \in AllCorners /\ d \in AllCorners /\ opposite[c] = NoCorner /\ opposite[d] = NoCorner
    BY <1>1, <1>3, <1>6, <1>7
  <2> HIDE DEF c, d
  <2> QED
    BY <1>5, <1>8, <2>1, <2>2, GlueKeepsPairing
<1>10. /\ UNCHANGED <<mesh, cornerVertex, vertexCorners, numVertices, phase,
                      baseVisitedVertices, baseVisitedCorners, vertexHoleID, numHoles>>
       /\ cursor' = c + 1
       /\ AllCorners' = AllCorners /\ VertexIDs' = VertexIDs /\ Matching' = Matching
       /\ MaxVertices' = MaxVertices
       /\ \A x : SourceOf(x)' = SourceOf(x) /\ SinkOf(x)' = SinkOf(x)
  BY DEF MatchHalfEdge, UnchangedByMatching, AllCorners, VertexIDs, MaxVertices,
         Matching, SourceOf, SinkOf
<1> DEFINE w == WithoutIndex(list, i)
<1>11. /\ openEdges' = [openEdges EXCEPT ![v] = w]
       /\ w \in Seq([sink : VertexIDs, corner : AllCorners])
       /\ \A j \in DOMAIN w : \E k \in DOMAIN list \ {i} : w[j] = list[k]
       /\ \A k \in DOMAIN list \ {i} : \E j \in DOMAIN w : w[j] = list[k]
       /\ \A j, l \in DOMAIN w : j # l =>
            \E k, m \in DOMAIN list \ {i} : k # m /\ w[j] = list[k] /\ w[l] = list[m]
  <2>1. openEdges' = [openEdges EXCEPT ![v] = w]
    BY <1>2, <1>4
  <2>2. w = WithoutIndex(list, i)
    OBVIOUS
  <2> DEFINE HalfEdge == [sink : VertexIDs, corner : AllCorners]
  <2>3. list \in Seq(HalfEdge) /\ i \in DOMAIN list
    BY <1>6
  <2> HIDE DEF w, list, HalfEdge
  <2>4. /\ w \in Seq(HalfEdge)
        /\ \A j \in DOMAIN w : \E k \in DOMAIN list \ {i} : w[j] = list[k]
        /\ \A k \in DOMAIN list \ {i} : \E j \in DOMAIN w : w[j] = list[k]
        /\ \A j, l \in DOMAIN w : j # l =>
             \E k, m \in DOMAIN list \ {i} : k # m /\ w[j] = list[k] /\ w[l] = list[m]
    BY <2>2, <2>3, ListWithoutIndex
  <2> QED
    BY <2>1, <2>4, Zenon DEF HalfEdge
<1> HIDE DEF w
<1>12. openEdges' \in [VertexIDs -> Seq([sink : VertexIDs, corner : AllCorners])]
  BY <1>3, <1>5, <1>11
<1>13. BaseTypeOK'
  BY <1>3, <1>9, <1>10, <1>12 DEF MatchingInv, BaseTypeOK
<1>14. PairsFaceOneEdge'
  <2>1. FacesSameEdge(mesh.vertexAt, c, d) /\ FacesSameEdge(mesh.vertexAt, d, c)
    BY <1>7 DEF FacesSameEdge, SourceOf, SinkOf
  <2>2. Face(c) # Face(d)
    BY <1>1, <1>3, <1>6, <1>7, <2>1, EdgeOfTwoFaces
  <2>3. ASSUME NEW x \in AllCorners, opposite'[x] # NoCorner
        PROVE  /\ Face(opposite'[x]) # Face(x)
               /\ FacesSameEdge(mesh.vertexAt, x, opposite'[x])
               /\ mesh.vertexAt[x] # mesh.vertexAt[opposite'[x]]
    <3>1. CASE x = c
      BY <3>1, <1>7, <1>9, <2>1, <2>2
    <3>2. CASE x = d /\ x # c
      BY <3>2, <1>7, <1>9, <2>1, <2>2
    <3>3. CASE x # c /\ x # d
      BY <3>3, <2>3, <1>9 DEF MatchingInv, PairedTable, PairsFaceOneEdge
    <3> QED
      BY <3>1, <3>2, <3>3
  <2> QED
    BY <1>10, <2>3 DEF PairsFaceOneEdge
<1>15. PairedTable'
  BY <1>9, <1>10, <1>14 DEF MatchingInv, PairedTable, OppositesArePairs
<1>16. MatchingMesh'
  BY <1>1, <1>10 DEF MatchingInv, MatchingMesh, DegenerateFace
<1>17. OpenEdgesAreOpen'
  <2>1. ASSUME NEW u \in VertexIDs, NEW j \in DOMAIN openEdges'[u]
        PROVE  LET e == openEdges'[u][j]
               IN  /\ e.corner < c + 1
                   /\ opposite'[e.corner] = NoCorner
                   /\ SourceOf(e.corner) = u
                   /\ SinkOf(e.corner) = e.sink
                   /\ \A l \in DOMAIN openEdges'[u] :
                        openEdges'[u][l].corner = e.corner => l = j
    <3> DEFINE e == openEdges'[u][j]
    <3>1. \A x \in VertexIDs : \A k \in DOMAIN openEdges[x] :
             /\ openEdges[x][k].corner \in AllCorners
             /\ openEdges[x][k].corner < c
             /\ opposite[openEdges[x][k].corner] = NoCorner
             /\ SourceOf(openEdges[x][k].corner) = x
             /\ SinkOf(openEdges[x][k].corner) = openEdges[x][k].sink
             /\ \A l \in DOMAIN openEdges[x] :
                  openEdges[x][l].corner = openEdges[x][k].corner => l = k
      <4>1. \A x \in VertexIDs : \A k \in DOMAIN openEdges[x] :
               openEdges[x][k].corner \in AllCorners
        <5> TAKE x \in VertexIDs
        <5>1. openEdges[x] \in Seq([sink : VertexIDs, corner : AllCorners])
          BY <1>5
        <5> TAKE k \in DOMAIN openEdges[x]
        <5>2. openEdges[x][k] \in [sink : VertexIDs, corner : AllCorners]
          BY <5>1, ElementOfList
        <5> QED
          BY <5>2
      <4> QED
        BY <1>1, <4>1 DEF MatchingInv, OpenEdgesAreOpen
    <3>2. CASE u = v
      <4>1. openEdges'[u] = w
        BY <1>3, <1>5, <1>11, <3>2
      <4>2. PICK k \in DOMAIN list \ {i} : e = list[k]
        BY <1>11, <4>1
      <4>3. e.corner # d /\ e.corner # c /\ e.corner < c + 1 /\ e.corner \in AllCorners
        <5>1. e.corner # d
          BY <1>3, <1>6, <3>1, <4>2
        <5>2. e.corner < c /\ e.corner \in AllCorners
          BY <1>3, <3>1, <4>2
        <5>3. e.corner \in Nat /\ c \in Nat
          BY <1>3, <5>2
        <5> QED
          BY <5>1, <5>2, <5>3
      <4>4. \A l \in DOMAIN w : w[l].corner = w[j].corner => l = j
        <5>1. \A p, q \in DOMAIN list : list[p].corner = list[q].corner => p = q
          BY <1>3, <3>1
        <5>2. j \in DOMAIN w
          BY <4>1
        <5> SUFFICES ASSUME NEW l \in DOMAIN w, w[l].corner = w[j].corner, l # j
                     PROVE  FALSE
          OBVIOUS
        <5>3. PICK m, n \in DOMAIN list \ {i} : m # n /\ w[j] = list[m] /\ w[l] = list[n]
          BY <1>11, <5>2
        <5> QED
          BY <5>1, <5>3
      <4> QED
        BY <1>3, <1>9, <3>1, <3>2, <4>1, <4>2, <4>3, <4>4
    <3>3. CASE u # v
      <4>1. openEdges'[u] = openEdges[u]
        BY <1>5, <1>11, <3>3
      <4>2. e.corner \in AllCorners /\ e.corner < c /\ SourceOf(e.corner) = u
        BY <3>1, <4>1
      <4>3. e.corner # d /\ e.corner # c /\ e.corner < c + 1
        <5>1. e.corner \in Nat /\ c \in Nat
          BY <1>3, <4>2
        <5>2. e.corner # d
          BY <1>7, <3>3, <4>2
        <5> QED
          BY <4>2, <5>1, <5>2
      <4> QED
        BY <1>9, <3>1, <4>1, <4>2, <4>3
    <3> QED
      BY <3>2, <3>3
  <2> QED
    BY <1>10, <2>1 DEF OpenEdgesAreOpen
<1>18. UnmatchedAreListed'
  <2>1. ASSUME NEW x \in AllCorners
        PROVE  /\ x >= c + 1 => opposite'[x] = NoCorner
               /\ (x < c + 1 /\ opposite'[x] = NoCorner) =>
                    \E j \in DOMAIN openEdges'[SourceOf(x)] :
                       openEdges'[SourceOf(x)][j].corner = x
    <3>1. x >= c => opposite[x] = NoCorner
      BY <1>1 DEF MatchingInv, UnmatchedAreListed
    <3>2. x >= c + 1 => opposite'[x] = NoCorner
      <4>1. x \in Nat /\ c \in Nat /\ d \in Nat
        BY <1>3, <1>6
      <4>2. x >= c + 1 => x >= c /\ x # c /\ x # d
        BY <1>7, <4>1
      <4> QED
        BY <1>9, <3>1, <4>2
    <3>3. ASSUME x < c + 1, opposite'[x] = NoCorner
          PROVE  \E j \in DOMAIN openEdges'[SourceOf(x)] :
                    openEdges'[SourceOf(x)][j].corner = x
      <4>1. x # c /\ x # d /\ x < c /\ opposite[x] = NoCorner
        <5>1. x \in Nat /\ c \in Nat
          BY <1>3
        <5>2. x # c /\ x # d /\ opposite[x] = NoCorner
          BY <1>1, <1>3, <1>6, <1>9, <3>3
        <5> QED
          BY <3>3, <5>1, <5>2
      <4>2. PICK k \in DOMAIN openEdges[SourceOf(x)] : openEdges[SourceOf(x)][k].corner = x
        BY <1>1, <4>1 DEF MatchingInv, UnmatchedAreListed
      <4>3. SourceOf(x) \in VertexIDs
        BY <1>3 DEF SourceOf
      <4>4. CASE SourceOf(x) = v
        <5>1. k \in DOMAIN list \ {i} /\ list[k].corner = x
          BY <4>1, <4>2, <4>4
        <5>2. openEdges'[SourceOf(x)] = w
          BY <1>5, <1>11, <4>3, <4>4
        <5> QED
          BY <1>11, <5>1, <5>2
      <4>5. CASE SourceOf(x) # v
        BY <1>5, <1>11, <4>2, <4>3, <4>5
      <4> QED
        BY <4>4, <4>5
    <3> QED
      BY <3>2, <3>3
  <2> QED
    BY <1>10, <2>1 DEF UnmatchedAreListed
<1>19. NothingLeftBehind'
  <2>1. ASSUME NEW x \in AllCorners, x < c + 1, opposite'[x] = NoCorner
        PROVE  x < c /\ opposite[x] = NoCorner
    <3>1. x \in Nat /\ c \in Nat
      BY <1>3
    <3>2. x # c /\ x # d /\ opposite[x] = NoCorner
      BY <1>1, <1>3, <1>6, <1>9, <2>1
    <3> QED
      BY <2>1, <3>1, <3>2
  <2> QED
    BY <1>1, <1>10, <2>1 DEF MatchingInv, NothingLeftBehind
<1> QED
  BY <1>1, <1>10, <1>3, <1>13, <1>15, <1>16, <1>17, <1>18, <1>19 DEF MatchingInv

LEMMA OpenKeepsInv == MatchingInv /\ OpenHalfEdge => MatchingInv'
<1> SUFFICES ASSUME MatchingInv, OpenHalfEdge PROVE MatchingInv'
  OBVIOUS
<1> DEFINE c == cursor
           v == SourceOf(c)
           entry == [sink |-> SinkOf(c), corner |-> c]
<1>1. phase = "opposites" /\ c \in AllCorners /\ Matching
  BY DEF OpenHalfEdge, Matching
<1>2. /\ mesh.numFaces \in Nat
      /\ cornerVertex = mesh.vertexAt
      /\ c \in Nat /\ c + 1 \in 0 .. 3 * mesh.numFaces
      /\ opposite[c] = NoCorner
      /\ v \in VertexIDs /\ SinkOf(c) \in VertexIDs
      /\ \A x \in AllCorners : x \in Nat /\ SourceOf(x) \in VertexIDs
  BY <1>1, CornerInHand DEF SourceOf
<1>3. /\ openEdges \in [VertexIDs -> Seq([sink : VertexIDs, corner : AllCorners])]
      /\ cornerVertex \in [AllCorners -> VertexIDs]
  BY <1>1 DEF MatchingInv, BaseTypeOK
<1>4. /\ UNCHANGED <<mesh, cornerVertex, vertexCorners, numVertices, opposite,
                     baseVisitedVertices, baseVisitedCorners, vertexHoleID, numHoles>>
      /\ cursor' = c + 1
      /\ AllCorners' = AllCorners /\ VertexIDs' = VertexIDs /\ MaxVertices' = MaxVertices
      /\ \A x : SourceOf(x)' = SourceOf(x) /\ SinkOf(x)' = SinkOf(x)
  BY DEF OpenHalfEdge, UnchangedByMatching, AllCorners, VertexIDs, MaxVertices,
         SourceOf, SinkOf
<1>5. HalfEdgeSource(c) = v /\ HalfEdgeSink(c) = SinkOf(c)
  BY <1>2 DEF HalfEdgeSource, HalfEdgeSink, SourceOf, SinkOf
<1>6. PairedTable'
  BY <1>4 DEF MatchingInv, PairedTable, OppositesArePairs, PairsFaceOneEdge
<1>7. \/ phase' = "opposites" /\ openEdges' = [openEdges EXCEPT ![v] = Append(@, entry)]
      \/ phase' = "rejected" /\ UNCHANGED openEdges
  BY <1>1, <1>5 DEF OpenHalfEdge
<1>8. CASE phase' = "rejected" /\ UNCHANGED openEdges
  <2>1. BaseTypeOK'
    BY <1>2, <1>4, <1>8 DEF MatchingInv, BaseTypeOK, Phases
  <2>2. (MatchingMesh /\ OpenEdgesAreOpen /\ UnmatchedAreListed /\ NothingLeftBehind)'
    BY <1>8 DEF MatchingMesh, OpenEdgesAreOpen, UnmatchedAreListed, NothingLeftBehind, Matching
  <2> QED
    BY <1>6, <1>8, <2>1, <2>2 DEF MatchingInv
<1>9. CASE phase' = "opposites" /\ openEdges' = [openEdges EXCEPT ![v] = Append(@, entry)]
  <2> DEFINE list == openEdges[v]
             w == Append(list, entry)
  <2>1. list \in Seq([sink : VertexIDs, corner : AllCorners])
    BY <1>2, <1>3
  <2>2. entry \in [sink : VertexIDs, corner : AllCorners]
    BY <1>1, <1>2
  <2>3. /\ w \in Seq([sink : VertexIDs, corner : AllCorners])
        /\ DOMAIN w = DOMAIN list \cup {Len(list) + 1}
        /\ \A j \in DOMAIN list : w[j] = list[j]
        /\ w[Len(list) + 1] = entry
        /\ Len(list) + 1 \notin DOMAIN list
    BY <2>1, <2>2
  <2>4. /\ openEdges'[v] = w
        /\ \A x \in VertexIDs : x # v => openEdges'[x] = openEdges[x]
        /\ openEdges' \in [VertexIDs -> Seq([sink : VertexIDs, corner : AllCorners])]
    BY <1>2, <1>3, <1>9, <2>3
  <2>5. \A x \in VertexIDs : \A k \in DOMAIN openEdges[x] :
           /\ openEdges[x][k].corner \in AllCorners
           /\ openEdges[x][k].corner < c
           /\ opposite[openEdges[x][k].corner] = NoCorner
           /\ SourceOf(openEdges[x][k].corner) = x
           /\ SinkOf(openEdges[x][k].corner) = openEdges[x][k].sink
           /\ \A l \in DOMAIN openEdges[x] :
                openEdges[x][l].corner = openEdges[x][k].corner => l = k
    <3>1. \A x \in VertexIDs : \A k \in DOMAIN openEdges[x] :
             openEdges[x][k].corner \in AllCorners
      <4> TAKE x \in VertexIDs
      <4> TAKE k \in DOMAIN openEdges[x]
      <4>1. openEdges[x][k] \in [sink : VertexIDs, corner : AllCorners]
        BY <1>3, ElementOfList
      <4> QED
        BY <4>1
    <3> QED
      BY <1>1, <3>1 DEF MatchingInv, OpenEdgesAreOpen
  <2>6. BaseTypeOK'
    BY <1>2, <1>4, <1>9, <2>4 DEF MatchingInv, BaseTypeOK, Phases
  <2>7. MatchingMesh'
    BY <1>1, <1>4, <1>9 DEF MatchingInv, MatchingMesh, DegenerateFace
  <2> HIDE DEF w
  <2>8. OpenEdgesAreOpen'
    <3>1. ASSUME NEW u \in VertexIDs, NEW j \in DOMAIN openEdges'[u]
          PROVE  LET e == openEdges'[u][j]
                 IN  /\ e.corner < c + 1
                     /\ opposite[e.corner] = NoCorner
                     /\ SourceOf(e.corner) = u
                     /\ SinkOf(e.corner) = e.sink
                     /\ \A l \in DOMAIN openEdges'[u] :
                          openEdges'[u][l].corner = e.corner => l = j
      <4>1. CASE u # v
        <5>1. openEdges'[u] = openEdges[u]
          BY <2>4, <4>1
        <5>2. openEdges[u][j].corner \in Nat /\ openEdges[u][j].corner < c
          BY <1>2, <2>5, <5>1
        <5>3. openEdges[u][j].corner < c + 1
          BY <1>2, <5>2
        <5> QED
          BY <2>5, <5>1, <5>3
      <4>2. CASE u = v
        <5>1. \A k \in DOMAIN list : list[k].corner < c /\ list[k].corner \in Nat
          BY <1>2, <2>5
        <5>2. \A k \in DOMAIN list : list[k].corner # c /\ list[k].corner < c + 1
          BY <1>2, <5>1
        <5>3. /\ opposite[c] = NoCorner /\ SourceOf(c) = v /\ c < c + 1
              /\ entry.corner = c /\ entry.sink = SinkOf(c)
          BY <1>2
        <5>4. openEdges'[u] = w
          BY <2>4, <4>2
        <5> HIDE DEF entry
        <5>5. CASE j = Len(list) + 1
          BY <2>3, <4>2, <5>2, <5>3, <5>4, <5>5
        <5>6. CASE j \in DOMAIN list
          <6>1. w[j] = list[j]
            BY <2>3, <5>6
          <6>2. \A l \in DOMAIN w : w[l].corner = list[j].corner => l = j
            BY <1>2, <2>3, <2>5, <5>2, <5>3, <5>6
          <6> QED
            BY <1>2, <2>5, <4>2, <5>2, <5>4, <5>6, <6>1, <6>2
        <5> QED
          BY <2>3, <5>4, <5>5, <5>6
      <4> QED
        BY <4>1, <4>2
    <3> QED
      BY <1>4, <3>1 DEF OpenEdgesAreOpen
  <2>9. UnmatchedAreListed'
    <3>1. ASSUME NEW x \in AllCorners
          PROVE  /\ x >= c + 1 => opposite[x] = NoCorner
                 /\ (x < c + 1 /\ opposite[x] = NoCorner) =>
                      \E j \in DOMAIN openEdges'[SourceOf(x)] :
                         openEdges'[SourceOf(x)][j].corner = x
      <4>1. x \in Nat /\ c \in Nat /\ SourceOf(x) \in VertexIDs
        BY <1>2
      <4>2. /\ x >= c => opposite[x] = NoCorner
            /\ (x < c /\ opposite[x] = NoCorner) =>
                 \E j \in DOMAIN openEdges[SourceOf(x)] : openEdges[SourceOf(x)][j].corner = x
        BY <1>1 DEF MatchingInv, UnmatchedAreListed
      <4>3. ASSUME NEW k \in DOMAIN openEdges[SourceOf(x)]
            PROVE  /\ k \in DOMAIN openEdges'[SourceOf(x)]
                   /\ openEdges'[SourceOf(x)][k] = openEdges[SourceOf(x)][k]
        BY <2>3, <2>4, <4>1, <4>3
      <4>4. CASE x = c
        <5>1. Len(list) + 1 \in DOMAIN w /\ w[Len(list) + 1].corner = c
          BY <2>3
        <5> QED
          BY <2>4, <4>1, <4>4, <5>1
      <4>5. CASE x # c
        <5>1. x < c + 1 => x < c
          BY <4>1, <4>5
        <5>2. x >= c + 1 => x >= c
          BY <4>1
        <5> QED
          BY <4>2, <4>3, <5>1, <5>2
      <4> QED
        BY <4>4, <4>5
    <3> QED
      BY <1>4, <3>1 DEF UnmatchedAreListed
  <2>10. NothingLeftBehind'
    <3>1. ASSUME NEW x \in AllCorners, x < c, opposite[x] = NoCorner,
                 \/ FacesSameEdge(mesh.vertexAt, c, x)
                 \/ FacesSameEdge(mesh.vertexAt, x, c)
          PROVE  mesh.vertexAt[x] = mesh.vertexAt[c]
      <4>1. SourceOf(x) = SinkOf(c) /\ SinkOf(x) = SourceOf(c)
        BY <3>1 DEF FacesSameEdge, SourceOf, SinkOf
      <4>2. PICK k \in DOMAIN openEdges[SinkOf(c)] : openEdges[SinkOf(c)][k].corner = x
        BY <1>1, <3>1, <4>1 DEF MatchingInv, UnmatchedAreListed
      <4>3. openEdges[SinkOf(c)][k].sink = SourceOf(c)
        BY <1>2, <2>5, <4>1, <4>2
      <4>4. k \notin Matches(c, SinkOf(c))
        BY <1>5 DEF OpenHalfEdge
      <4> QED
        BY <1>2, <4>2, <4>3, <4>4 DEF Matches, SourceOf
    <3>2. ASSUME NEW x \in AllCorners, NEW y \in AllCorners, x < c + 1, y < c + 1,
                 opposite[x] = NoCorner, opposite[y] = NoCorner,
                 FacesSameEdge(mesh.vertexAt, x, y)
          PROVE  mesh.vertexAt[x] = mesh.vertexAt[y]
      <4>1. x \in Nat /\ y \in Nat /\ c \in Nat
        BY <1>2
      <4>2. (x < c \/ x = c) /\ (y < c \/ y = c)
        BY <3>2, <4>1
      <4>3. CASE x < c /\ y < c
        BY <1>1, <3>2, <4>3 DEF MatchingInv, NothingLeftBehind
      <4>4. CASE x = c \/ y = c
        BY <3>1, <3>2, <4>2, <4>4
      <4> QED
        BY <4>2, <4>3, <4>4
    <3> QED
      BY <1>4, <1>9, <3>2 DEF NothingLeftBehind, Matching
  <2> QED
    BY <1>2, <1>3, <1>4, <1>6, <1>9, <2>6, <2>7, <2>8, <2>9, <2>10 DEF MatchingInv
<1> QED
  BY <1>7, <1>8, <1>9

-----------------------------------------------------------------------------
(* The other steps.                                                        *)

LEMMA LoadKeepsInv == MatchingInv /\ LoadFaces => MatchingInv'
<1> SUFFICES ASSUME MatchingInv, LoadFaces PROVE MatchingInv'
  OBVIOUS
<1>1. /\ UNCHANGED <<mesh, cursor, opposite, vertexCorners, openEdges,
                     baseVisitedVertices, baseVisitedCorners, vertexHoleID, numHoles>>
      /\ AllCorners' = AllCorners /\ VertexIDs' = VertexIDs /\ MaxVertices' = MaxVertices
      /\ \A x : SourceOf(x)' = SourceOf(x) /\ SinkOf(x)' = SinkOf(x)
      /\ phase = "faces" /\ cursor = 0
  BY DEF LoadFaces, MatchingInv, AllCorners, VertexIDs, MaxVertices, SourceOf, SinkOf
<1>2. PairedTable'
  BY <1>1 DEF MatchingInv, PairedTable, OppositesArePairs, PairsFaceOneEdge
<1>3. /\ mesh.numFaces \in Nat /\ mesh.numVertices \in Nat
      /\ mesh.vertexAt \in [AllCorners -> Nat]
      /\ MaxVertices \in Nat /\ mesh.numVertices <= MaxVertices
  BY DEF MatchingInv, BaseTypeOK, IsMesh, AllCorners, MaxVertices
<1>4. CASE phase' = "rejected" /\ UNCHANGED <<numVertices, cornerVertex>>
  <2>1. BaseTypeOK'
    BY <1>1, <1>4 DEF MatchingInv, BaseTypeOK, Phases
  <2>2. (MatchingMesh /\ OpenEdgesAreOpen /\ UnmatchedAreListed /\ NothingLeftBehind)'
    BY <1>4 DEF MatchingMesh, OpenEdgesAreOpen, UnmatchedAreListed, NothingLeftBehind, Matching
  <2> QED
    BY <1>2, <1>4, <2>1, <2>2 DEF MatchingInv
<1>5. CASE /\ ~ \E f \in 0 .. mesh.numFaces - 1 : DegenerateFace(f)
           /\ ~ \E c \in AllCorners : mesh.vertexAt[c] >= mesh.numVertices
           /\ phase' = "opposites"
           /\ numVertices' = mesh.numVertices
           /\ cornerVertex' = mesh.vertexAt
  <2>1. cornerVertex' \in [AllCorners -> VertexIDs]
    <3>1. \A c \in AllCorners : mesh.vertexAt[c] \in VertexIDs
      BY <1>3, <1>5 DEF VertexIDs
    <3> QED
      BY <1>3, <1>5, <3>1
  <2>2. BaseTypeOK'
    <3>1. numVertices' \in 0 .. MaxVertices
      BY <1>3, <1>5
    <3>2. cornerVertex' \in [AllCorners -> VertexIDs \cup {-1}]
      BY <2>1
    <3>3. cursor \in 0 .. 3 * mesh.numFaces /\ phase' \in Phases
      BY <1>5 DEF MatchingInv, BaseTypeOK, Phases
    <3> QED
      BY <1>1, <3>1, <3>2, <3>3 DEF MatchingInv, BaseTypeOK
  <2>3. MatchingMesh'
    BY <1>1, <1>5 DEF MatchingMesh, DegenerateFace
  <2>4. (OpenEdgesAreOpen /\ UnmatchedAreListed)'
    BY <1>1, <1>5 DEF MatchingInv, OpenEdgesAreOpen, UnmatchedAreListed, Matching
  <2>5. NothingLeftBehind'
    BY <1>1, <1>5 DEF MatchingInv, NothingLeftBehind, Matching
  <2> QED
    BY <1>1, <1>2, <1>5, <2>1, <2>2, <2>3, <2>4, <2>5 DEF MatchingInv
<1> QED
  BY <1>4, <1>5 DEF LoadFaces

LEMMA OppositesDoneKeepsInv == MatchingInv /\ OppositesDone => MatchingInv'
<1> SUFFICES ASSUME MatchingInv, OppositesDone PROVE MatchingInv'
  OBVIOUS
<1> USE DEF OppositesDone
<1>1. /\ UNCHANGED <<mesh, tableVars, openEdges, baseVisitedVertices, baseVisitedCorners,
                     vertexHoleID, numHoles>>
      /\ AllCorners' = AllCorners /\ VertexIDs' = VertexIDs /\ MaxVertices' = MaxVertices
      /\ phase = "opposites" /\ phase' = "vertices" /\ cursor' = 0
  BY DEF AllCorners, VertexIDs, MaxVertices, tableVars
<1>2. mesh.numFaces \in Nat /\ cursor \in 0 .. 3 * mesh.numFaces
      /\ AllCorners = 0 .. 3 * mesh.numFaces - 1
  BY DEF MatchingInv, BaseTypeOK, IsMesh, AllCorners, Corners
<1>3. BaseTypeOK'
  <2>1. cursor' \in 0 .. 3 * mesh.numFaces /\ phase' \in Phases
    BY <1>1, <1>2 DEF Phases
  <2> QED
    BY <1>1, <2>1 DEF MatchingInv, BaseTypeOK, tableVars
<1>4. PairedTable'
  BY <1>1 DEF MatchingInv, PairedTable, OppositesArePairs, PairsFaceOneEdge, tableVars
<1>5. (MatchingMesh /\ OpenEdgesAreOpen /\ UnmatchedAreListed)'
  BY <1>1 DEF MatchingMesh, OpenEdgesAreOpen, UnmatchedAreListed, Matching
<1>6. NothingLeftBehind'
  <2>1. \A c \in AllCorners : c < cursor
    BY <1>2
  <2> QED
    BY <1>1, <2>1 DEF MatchingInv, NothingLeftBehind, Matching, tableVars
<1>7. cornerVertex' \in [AllCorners' -> VertexIDs']
  BY <1>1 DEF MatchingInv, tableVars
<1> QED
  BY <1>1, <1>3, <1>4, <1>5, <1>6, <1>7 DEF MatchingInv

LEMMA VisitKeepsInv == MatchingInv /\ VisitFan => MatchingInv'
<1> SUFFICES ASSUME MatchingInv, VisitFan PROVE MatchingInv'
  OBVIOUS
<1>1. /\ UNCHANGED <<mesh, phase, opposite, openEdges, vertexHoleID, numHoles>>
      /\ phase = "vertices" /\ cursor \in AllCorners /\ cursor' = cursor + 1
      /\ AllCorners' = AllCorners /\ VertexIDs' = VertexIDs /\ MaxVertices' = MaxVertices
  BY DEF VisitFan, AllCorners, VertexIDs, MaxVertices
<1>2. /\ mesh.numFaces \in Nat /\ AllCorners = 0 .. 3 * mesh.numFaces - 1
      /\ MaxVertices \in Nat /\ numVertices \in 0 .. MaxVertices
  BY DEF MatchingInv, BaseTypeOK, IsMesh, AllCorners, Corners, MaxVertices
<1>3. cornerVertex \in [AllCorners -> VertexIDs]
  BY <1>1 DEF MatchingInv
<1>4. IsNonManifoldVertex(cursor) => numVertices \in VertexIDs /\ numVertices + 1 \in 0 .. MaxVertices
  BY <1>2 DEF VisitFan, NoVertexLeft, VertexIDs
<1>5. FanVertex(cursor) \in VertexIDs
  BY <1>1, <1>3, <1>4 DEF FanVertex
<1>6. numVertices' \in 0 .. MaxVertices
  BY <1>2, <1>4 DEF VisitFan
<1>7. cornerVertex' \in [AllCorners -> VertexIDs]
  BY <1>3, <1>5 DEF VisitFan
<1>8. DOMAIN vertexCorners' = DOMAIN vertexCorners
  BY DEF VisitFan
<1>9. baseVisitedVertices' \subseteq VertexIDs
  BY <1>5 DEF VisitFan, MatchingInv, BaseTypeOK
<1>10. BaseTypeOK'
  <2>1. cursor' \in 0 .. 3 * mesh.numFaces
    BY <1>1, <1>2
  <2>2. cornerVertex' \in [AllCorners -> VertexIDs \cup {-1}]
    BY <1>7
  <2> QED
    BY <1>1, <1>6, <1>8, <1>9, <2>1, <2>2 DEF MatchingInv, BaseTypeOK
<1> QED
  BY <1>1, <1>7, <1>10, AfterMatching DEF Matching

LEMMA LaterStepsKeepInv ==
  MatchingInv /\ (\/ OutOfVertices \/ SkipVisitedCorner \/ VerticesDone
                  \/ NumberHole \/ SkipHoleCorner \/ HolesDone) => MatchingInv'
<1> SUFFICES ASSUME MatchingInv,
                    \/ OutOfVertices \/ SkipVisitedCorner \/ VerticesDone
                    \/ NumberHole \/ SkipHoleCorner \/ HolesDone
             PROVE  MatchingInv'
  OBVIOUS
<1> USE DEF OutOfVertices, SkipVisitedCorner, VerticesDone, NumberHole, SkipHoleCorner, HolesDone
<1>1. /\ UNCHANGED <<mesh, opposite, cornerVertex, vertexCorners, numVertices, openEdges,
                     baseVisitedVertices>>
      /\ AllCorners' = AllCorners /\ VertexIDs' = VertexIDs /\ MaxVertices' = MaxVertices
  BY DEF AllCorners, VertexIDs, MaxVertices, tableVars
<1>2. phase \in {"vertices", "holes"} /\ phase' \in {"vertices", "holes", "ready", "rejected"}
  OBVIOUS
<1>3. cursor' \in 0 .. 3 * mesh.numFaces
  <2>1. mesh.numFaces \in Nat /\ AllCorners = 0 .. 3 * mesh.numFaces - 1
        /\ cursor \in 0 .. 3 * mesh.numFaces
    BY DEF MatchingInv, BaseTypeOK, IsMesh, AllCorners, Corners
  <2>2. \/ cursor' = cursor \/ cursor' = 0
        \/ cursor \in AllCorners /\ cursor' = cursor + 1
    OBVIOUS
  <2> QED
    BY <2>1, <2>2
<1>4. vertexHoleID' \in [VertexIDs -> Int] /\ numHoles' \in Nat
  <2>1. vertexHoleID \in [VertexIDs -> Int] /\ numHoles \in Nat /\ numHoles \in Int
    BY DEF MatchingInv, BaseTypeOK
  <2>2. CASE UNCHANGED <<vertexHoleID, numHoles>>
    BY <2>1, <2>2
  <2>3. CASE NumberHole
    <3> DEFINE onLoop == {BoundaryVertexOf(BoundaryLoop(cursor)[j]) :
                            j \in DOMAIN BoundaryLoop(cursor)}
    <3>1. /\ vertexHoleID' = [v \in VertexIDs |->
                 IF v \in onLoop THEN numHoles ELSE vertexHoleID[v]]
          /\ numHoles' = numHoles + 1
      BY <2>3, Zenon
    <3> HIDE DEF onLoop
    <3> QED
      BY <2>1, <3>1
  <2> QED
    BY <2>2, <2>3
<1>5. BaseTypeOK'
  BY <1>1, <1>2, <1>3, <1>4 DEF MatchingInv, BaseTypeOK, Phases
<1>6. cornerVertex' \in [AllCorners -> VertexIDs]
  BY <1>1, <1>2 DEF MatchingInv
<1> QED
  BY <1>1, <1>2, <1>5, <1>6, AfterMatching DEF Matching

LEMMA NextKeepsMatchingInv == MatchingInv /\ [BaseNext]_baseVars => MatchingInv'
<1> SUFFICES ASSUME MatchingInv, [BaseNext]_baseVars PROVE MatchingInv'
  OBVIOUS
<1>1. CASE UNCHANGED baseVars
  <2>1. /\ UNCHANGED <<mesh, phase, cursor, cornerVertex, opposite, vertexCorners, numVertices,
                       openEdges, baseVisitedVertices, vertexHoleID, numHoles>>
        /\ AllCorners' = AllCorners /\ VertexIDs' = VertexIDs /\ MaxVertices' = MaxVertices
        /\ \A x : SourceOf(x)' = SourceOf(x) /\ SinkOf(x)' = SinkOf(x)
    BY <1>1 DEF baseVars, tableVars, AllCorners, VertexIDs, MaxVertices, SourceOf, SinkOf
  <2>2. BaseTypeOK' /\ PairedTable'
    BY <2>1 DEF MatchingInv, BaseTypeOK, PairedTable, OppositesArePairs, PairsFaceOneEdge
  <2>3. MatchingMesh' /\ OpenEdgesAreOpen'
    BY <2>1 DEF MatchingInv, MatchingMesh, OpenEdgesAreOpen, Matching, DegenerateFace
  <2>4. UnmatchedAreListed' /\ NothingLeftBehind'
    BY <2>1 DEF MatchingInv, UnmatchedAreListed, NothingLeftBehind, Matching
  <2> QED
    BY <2>1, <2>2, <2>3, <2>4 DEF MatchingInv
<1> QED
  BY <1>1, LoadKeepsInv, MatchKeepsInv, OpenKeepsInv, OppositesDoneKeepsInv, VisitKeepsInv,
     LaterStepsKeepInv DEF BaseNext

-----------------------------------------------------------------------------
(* The inductive invariant holds in every reachable state.                 *)
LEMMA MatchingInvariant == BaseSpec => []MatchingInv
<1>1. BaseInit => MatchingInv
  BY InitEstablishesMatchingInv
<1>2. MatchingInv /\ [BaseNext]_baseVars => MatchingInv'
  BY NextKeepsMatchingInv
<1> QED
  BY <1>1, <1>2, PTL DEF BaseSpec

(* The variables of the three passes keep their types for every mesh: in   *)
(* particular no vertex a split makes lies outside the table.              *)
THEOREM BaseTypeCorrect == BaseSpec => []BaseTypeOK
<1>1. MatchingInv => BaseTypeOK
  BY DEF MatchingInv
<1> QED
  BY <1>1, MatchingInvariant, PTL

(* Whatever the triangles of a mesh, its opposite corners are in pairs at  *)
(* every step of computeEdgebreakerBaseOpposites and after it.             *)
THEOREM Pairing == BaseSpec => []OppositesArePairs
<1>1. MatchingInv => OppositesArePairs
  BY DEF MatchingInv, PairedTable
<1> QED
  BY <1>1, MatchingInvariant, PTL

(* Each pair faces one edge of the mesh from its two sides and is not made *)
(* of mirrored copies of one face.                                         *)
THEOREM PairsAreEdges == BaseSpec => []PairsFaceOneEdge
<1>1. MatchingInv => PairsFaceOneEdge
  BY DEF MatchingInv, PairedTable
<1> QED
  BY <1>1, MatchingInvariant, PTL

(* When the matching is over no two half-edges are left that would fit:    *)
(* one pass in corner order, with the first fit, is enough.                *)
THEOREM MatchingIsMaximal == BaseSpec => []NothingLeftToGlue
<1>1. MatchingInv => NothingLeftToGlue
  BY DEF MatchingInv, NothingLeftBehind, NothingLeftToGlue, Matching
<1> QED
  BY <1>1, MatchingInvariant, PTL

-----------------------------------------------------------------------------
(* The second pass: fans become vertices.                                  *)

(* Nothing is visited before the second pass.                              *)
NothingVisitedYet ==
  Matching => baseVisitedCorners = {} /\ baseVisitedVertices = {}

(* The numbers in use: those of the mesh and those the splits have made.   *)
(* An unvisited corner has the vertex the mesh gave it.                    *)
NumbersInUse ==
  phase \notin {"faces", "rejected"} =>
    /\ mesh.numVertices <= numVertices
    /\ \A c \in AllCorners : mesh.vertexAt[c] < mesh.numVertices
    /\ \A c \in AllCorners \ baseVisitedCorners : cornerVertex[c] = mesh.vertexAt[c]
    /\ EveryVertexIsUsed =>
         \A v \in 0 .. numVertices - 1 : \E c \in AllCorners : cornerVertex[c] = v

(* What is visited is whole fans, each with a vertex of its own.           *)
VisitedFans ==
  phase \notin {"faces", "rejected"} =>
    /\ baseVisitedCorners \subseteq AllCorners
    /\ KeepsSwings(opposite, baseVisitedCorners)
    /\ \A c \in baseVisitedCorners : cornerVertex[c] \in baseVisitedVertices
    /\ \A c, d \in baseVisitedCorners :
         cornerVertex[d] = cornerVertex[c] <=> d \in FanCorners(opposite, c)

(* A visited vertex is in use and has the leftmost corner of its fan.      *)
VisitedVerticesAreStored ==
  phase \notin {"faces", "rejected"} =>
    \A v \in baseVisitedVertices :
       /\ v < numVertices
       /\ vertexCorners[v] \in baseVisitedCorners
       /\ cornerVertex[vertexCorners[v]] = v
       /\ LeftMostFrom(opposite, vertexCorners[v]) = vertexCorners[v]

(* The second pass leaves no corner behind.                                *)
VisitedInOrder ==
  /\ phase = "vertices" => \A c \in AllCorners : c < cursor => c \in baseVisitedCorners
  /\ phase \in {"holes", "ready"} => baseVisitedCorners = AllCorners

FanInv ==
  /\ MatchingInv
  /\ NothingVisitedYet /\ NumbersInUse /\ VisitedFans /\ VisitedVerticesAreStored
  /\ VisitedInOrder /\ RoomForEveryFan

-----------------------------------------------------------------------------

(* What every step of the later passes knows of the table.                 *)
LEMMA TableInHand ==
  ASSUME MatchingInv
  PROVE  /\ mesh.numFaces \in Nat /\ AllCorners = Corners(mesh.numFaces)
         /\ AllCorners \in SUBSET Nat /\ IsFiniteSet(AllCorners)
         /\ Cardinality(AllCorners) = 3 * mesh.numFaces
         /\ IsTable(opposite, AllCorners)
         /\ mesh.vertexAt \in [AllCorners -> Nat]
         /\ numVertices \in Nat /\ numVertices <= MaxVertices
         /\ MaxVertices \in Nat /\ MaxVertices >= 3 * mesh.numFaces
         /\ mesh.numVertices \in Nat /\ mesh.numVertices <= MaxVertices
         /\ DOMAIN vertexCorners = VertexIDs
         /\ cursor \in Nat
         /\ phase \notin {"faces", "rejected"} => cornerVertex \in [AllCorners -> VertexIDs]
<1>1. /\ mesh.numFaces \in Nat /\ mesh.numVertices \in Nat
      /\ AllCorners = Corners(mesh.numFaces)
      /\ mesh.vertexAt \in [AllCorners -> Nat]
      /\ DOMAIN vertexCorners = VertexIDs
      /\ cursor \in 0 .. 3 * mesh.numFaces
      /\ numVertices \in 0 .. MaxVertices
  BY DEF MatchingInv, BaseTypeOK, IsMesh, AllCorners
<1>2. /\ MaxVertices \in Nat /\ MaxVertices >= 3 * mesh.numFaces
      /\ mesh.numVertices <= MaxVertices
  BY <1>1 DEF MaxVertices
<1>3. IsTable(opposite, AllCorners)
  BY DEF MatchingInv, PairedTable, OppositesArePairs, IsTable
<1>4. Cardinality(AllCorners) = 3 * mesh.numFaces
  <2>1. \A a, b \in Int : Cardinality(a .. b) = IF a > b THEN 0 ELSE b - a + 1
    BY FS_Interval
  <2>2. 3 * mesh.numFaces - 1 \in Int
    BY <1>1
  <2>3. Cardinality(0 .. 3 * mesh.numFaces - 1)
          = IF 0 > 3 * mesh.numFaces - 1 THEN 0 ELSE 3 * mesh.numFaces - 1 - 0 + 1
    BY <2>1, <2>2
  <2> QED
    BY <1>1, <2>3 DEF Corners
<1>5. phase \notin {"faces", "rejected"} => cornerVertex \in [AllCorners -> VertexIDs]
  BY DEF MatchingInv
<1> QED
  BY <1>1, <1>2, <1>3, <1>4, <1>5, CornersAreFinite

(* Steps that change neither the table nor what is visited.                *)
LEMMA FansStayVisited ==
  ASSUME FanInv,
         UNCHANGED <<mesh, opposite, cornerVertex, vertexCorners, numVertices,
                     baseVisitedVertices, baseVisitedCorners>>,
         phase \notin {"faces", "rejected"}, phase' # "faces"
  PROVE  (NumbersInUse /\ VisitedFans /\ VisitedVerticesAreStored)'
<1>1. AllCorners' = AllCorners /\ EveryVertexIsUsed' = EveryVertexIsUsed
  BY DEF AllCorners, EveryVertexIsUsed
<1>2. NumbersInUse'
  BY <1>1 DEF FanInv, NumbersInUse
<1>3. VisitedFans'
  BY <1>1 DEF FanInv, VisitedFans, KeepsSwings
<1>4. VisitedVerticesAreStored'
  BY DEF FanInv, VisitedVerticesAreStored
<1> QED
  BY <1>2, <1>3, <1>4

LEMMA LoadKeepsFans == FanInv /\ LoadFaces => FanInv'
<1> SUFFICES ASSUME FanInv, LoadFaces PROVE FanInv'
  OBVIOUS
<1>1. /\ UNCHANGED <<mesh, cursor, opposite, vertexCorners, openEdges,
                     baseVisitedVertices, baseVisitedCorners, vertexHoleID, numHoles>>
      /\ AllCorners' = AllCorners /\ EveryVertexIsUsed' = EveryVertexIsUsed
      /\ phase = "faces"
  BY DEF LoadFaces, AllCorners, EveryVertexIsUsed
<1>2. MatchingInv'
  BY LoadKeepsInv DEF FanInv
<1>3. baseVisitedCorners = {} /\ baseVisitedVertices = {}
  BY <1>1 DEF FanInv, NothingVisitedYet, Matching
<1>4. CASE phase' = "rejected" /\ Improper
  <2>1. RoomForEveryFan'
    BY <1>1, <1>4 DEF RoomForEveryFan, Improper, DegenerateFace
  <2>2. (NothingVisitedYet /\ NumbersInUse /\ VisitedFans /\ VisitedVerticesAreStored
         /\ VisitedInOrder)'
    BY <1>1, <1>3, <1>4 DEF NothingVisitedYet, NumbersInUse, VisitedFans,
       VisitedVerticesAreStored, VisitedInOrder
  <2> QED
    BY <1>2, <2>1, <2>2 DEF FanInv
<1>5. CASE /\ phase' = "opposites" /\ ~ Improper
           /\ numVertices' = mesh.numVertices
           /\ cornerVertex' = mesh.vertexAt
  <2>1. mesh.numVertices \in Nat /\ mesh.vertexAt \in [AllCorners -> Nat]
    BY TableInHand DEF FanInv
  <2>2. \A c \in AllCorners : mesh.vertexAt[c] < mesh.numVertices
    BY <1>5, <2>1 DEF Improper
  <2>3. NumbersInUse'
    BY <1>1, <1>5, <2>1, <2>2 DEF NumbersInUse, EveryVertexIsUsed
  <2>4. (NothingVisitedYet /\ VisitedFans /\ VisitedVerticesAreStored /\ VisitedInOrder)'
    BY <1>1, <1>3, <1>5 DEF NothingVisitedYet, VisitedFans, KeepsSwings,
       VisitedVerticesAreStored, VisitedInOrder
  <2>5. RoomForEveryFan'
    BY <1>5 DEF RoomForEveryFan
  <2> QED
    BY <1>2, <2>3, <2>4, <2>5 DEF FanInv
<1> QED
  BY <1>4, <1>5 DEF LoadFaces, Improper

(* The slots of a vertex are as many as the corners at it, and the corner  *)
(* in hand is not among the listed ones: there is a slot for it.           *)
LEMMA SlotForEveryHalfEdge ==
  ASSUME MatchingInv, phase = "opposites", cursor \in AllCorners
  PROVE  Len(openEdges[HalfEdgeSource(cursor)]) < Cardinality(CornersAt(HalfEdgeSource(cursor)))
<1> DEFINE v == HalfEdgeSource(cursor)
           list == openEdges[v]
           others == CornersAt(v) \ {NextCorner(cursor)}
           f == [i \in 1 .. Len(list) |-> NextCorner(list[i].corner)]
<1>1. /\ mesh.numFaces \in Nat /\ AllCorners = Corners(mesh.numFaces)
      /\ IsFiniteSet(AllCorners) /\ AllCorners \in SUBSET Nat
      /\ cornerVertex = mesh.vertexAt /\ cornerVertex \in [AllCorners -> VertexIDs]
      /\ openEdges \in [VertexIDs -> Seq([sink : VertexIDs, corner : AllCorners])]
      /\ Matching
  BY TableInHand DEF MatchingInv, MatchingMesh, BaseTypeOK, Matching
<1>2. NextCorner(cursor) \in AllCorners /\ v = SourceOf(cursor) /\ v \in VertexIDs
  BY <1>1, CornerArithmetic DEF HalfEdgeSource, SourceOf
<1>3. /\ list \in Seq([sink : VertexIDs, corner : AllCorners])
      /\ Len(list) \in Nat /\ DOMAIN list = 1 .. Len(list)
  <2>1. list \in Seq([sink : VertexIDs, corner : AllCorners])
    BY <1>1, <1>2
  <2> HIDE DEF list
  <2> QED
    BY <2>1, LenProperties
<1>4. ASSUME NEW i \in 1 .. Len(list)
      PROVE  /\ list[i].corner \in AllCorners
             /\ list[i].corner < cursor
             /\ cornerVertex[NextCorner(list[i].corner)] = v
             /\ \A j \in 1 .. Len(list) : list[j].corner = list[i].corner => j = i
  <2>1. list[i] \in [sink : VertexIDs, corner : AllCorners]
    BY <1>3, ElementOfList
  <2>2. /\ list[i].corner < cursor /\ SourceOf(list[i].corner) = v
        /\ \A j \in DOMAIN list : list[j].corner = list[i].corner => j = i
    BY <1>1, <1>2, <1>3 DEF MatchingInv, OpenEdgesAreOpen
  <2> QED
    BY <1>1, <1>3, <2>1, <2>2 DEF SourceOf
<1> HIDE DEF v, list
<1>5. IsFiniteSet(CornersAt(v)) /\ CornersAt(v) \in SUBSET AllCorners
  <2>1. CornersAt(v) \in SUBSET AllCorners
    BY DEF CornersAt
  <2> QED
    BY <1>1, <2>1, FS_Subset
<1>6. NextCorner(cursor) \in CornersAt(v)
  BY <1>2 DEF CornersAt, HalfEdgeSource, v
<1>7. f \in Injection(1 .. Len(list), others)
  <2>1. \A x, y \in AllCorners : NextCorner(x) = NextCorner(y) => x = y
    BY <1>1, NextAndPrevious
  <2>2. ASSUME NEW i \in 1 .. Len(list)
        PROVE  NextCorner(list[i].corner) \in others
    <3>1. NextCorner(list[i].corner) \in CornersAt(v)
      BY <1>1, <1>4, CornerArithmetic DEF CornersAt
    <3>2. list[i].corner # cursor
      BY <1>1, <1>4
    <3> QED
      BY <1>4, <2>1, <3>1, <3>2
  <2>3. \A i, j \in 1 .. Len(list) : f[i] = f[j] => i = j
    BY <1>4, <2>1
  <2>4. f \in [1 .. Len(list) -> others]
    BY <2>2
  <2> HIDE DEF f, others
  <2> QED
    BY <2>3, <2>4 DEF Injection, IsInjective
<1>8. /\ IsFiniteSet(others) /\ Cardinality(others) = Cardinality(CornersAt(v)) - 1
      /\ Cardinality(CornersAt(v)) \in Nat
  BY <1>5, <1>6, FS_RemoveElement, FS_CardinalityType
<1>9. Cardinality(1 .. Len(list)) <= Cardinality(others)
  <2> HIDE DEF f, others
  <2> QED
    BY <1>7, <1>8, FS_Injection
<1>10. Cardinality(1 .. Len(list)) = Len(list)
  <2>1. \A a, b \in Int : Cardinality(a .. b) = IF a > b THEN 0 ELSE b - a + 1
    BY FS_Interval
  <2>2. Len(list) \in Int /\ 1 \in Int /\ Len(list) >= 0
    BY <1>3
  <2>3. Cardinality(1 .. Len(list)) = IF 1 > Len(list) THEN 0 ELSE Len(list) - 1 + 1
    BY <2>1, <2>2
  <2> QED
    BY <2>2, <2>3
<1> QED
  BY <1>3, <1>8, <1>9, <1>10 DEF v, list

LEMMA MatchingKeepsFans ==
  FanInv /\ (MatchHalfEdge \/ OpenHalfEdge) => FanInv'
<1> SUFFICES ASSUME FanInv, MatchHalfEdge \/ OpenHalfEdge PROVE FanInv'
  OBVIOUS
<1>1. /\ UNCHANGED <<mesh, cornerVertex, vertexCorners, numVertices,
                     baseVisitedVertices, baseVisitedCorners>>
      /\ AllCorners' = AllCorners /\ EveryVertexIsUsed' = EveryVertexIsUsed
      /\ phase = "opposites"
  BY DEF MatchHalfEdge, OpenHalfEdge, UnchangedByMatching, AllCorners, EveryVertexIsUsed
<1>2. MatchingInv'
  BY MatchKeepsInv, OpenKeepsInv DEF FanInv
<1>3. baseVisitedCorners = {} /\ baseVisitedVertices = {}
  BY <1>1 DEF FanInv, NothingVisitedYet, Matching
<1>4. phase' = "opposites"
  <2>1. CASE MatchHalfEdge
    BY <1>1, <2>1 DEF MatchHalfEdge
  <2>2. CASE OpenHalfEdge
    <3>1. cursor \in AllCorners
      BY <2>2 DEF OpenHalfEdge
    <3>2. Len(openEdges[HalfEdgeSource(cursor)]) < Cardinality(CornersAt(HalfEdgeSource(cursor)))
      BY <1>1, <3>1, SlotForEveryHalfEdge DEF FanInv
    <3> QED
      BY <1>1, <2>2, <3>2 DEF OpenHalfEdge
  <2> QED
    BY <2>1, <2>2
<1>5. NumbersInUse'
  BY <1>1, <1>4 DEF FanInv, NumbersInUse
<1>6. (NothingVisitedYet /\ VisitedFans /\ VisitedVerticesAreStored /\ VisitedInOrder
       /\ RoomForEveryFan)'
  BY <1>1, <1>3, <1>4 DEF NothingVisitedYet, VisitedFans, KeepsSwings,
     VisitedVerticesAreStored, VisitedInOrder, RoomForEveryFan
<1> QED
  BY <1>2, <1>5, <1>6 DEF FanInv

LEMMA VisitKeepsFans == FanInv /\ VisitFan => FanInv'
<1> SUFFICES ASSUME FanInv, VisitFan PROVE FanInv'
  OBVIOUS
<1> DEFINE c == cursor
           fan == FanCorners(opposite, c)
           vertex == FanVertex(c)
           F == mesh.numFaces
<1>1. /\ UNCHANGED <<mesh, phase, opposite>>
      /\ phase = "vertices" /\ c \in AllCorners /\ c \notin baseVisitedCorners
      /\ cursor' = c + 1
      /\ AllCorners' = AllCorners /\ EveryVertexIsUsed' = EveryVertexIsUsed
      /\ baseVisitedVertices' = baseVisitedVertices \cup {vertex}
      /\ baseVisitedCorners' = baseVisitedCorners \cup fan
      /\ vertexCorners' = [vertexCorners EXCEPT ![vertex] = FanCorner(c)]
      /\ cornerVertex' = [d \in AllCorners |-> IF d \in fan THEN vertex ELSE cornerVertex[d]]
      /\ numVertices' = IF IsNonManifoldVertex(c) THEN numVertices + 1 ELSE numVertices
  BY DEF VisitFan, AllCorners, EveryVertexIsUsed
<1>2. MatchingInv'
  BY VisitKeepsInv DEF FanInv
<1>3. /\ F \in Nat /\ AllCorners = Corners(F) /\ AllCorners \in SUBSET Nat
      /\ IsTable(opposite, AllCorners)
      /\ mesh.vertexAt \in [AllCorners -> Nat] /\ mesh.numVertices \in Nat
      /\ numVertices \in Nat /\ cursor \in Nat
      /\ MaxVertices \in Nat /\ VertexIDs = 0 .. MaxVertices - 1
      /\ DOMAIN vertexCorners = VertexIDs
      /\ cornerVertex \in [AllCorners -> VertexIDs]
  BY <1>1, TableInHand DEF FanInv, VertexIDs
<1>4. /\ baseVisitedCorners \subseteq AllCorners
      /\ KeepsSwings(opposite, baseVisitedCorners)
      /\ \A d \in baseVisitedCorners : cornerVertex[d] \in baseVisitedVertices
      /\ \A d, e \in baseVisitedCorners :
           cornerVertex[e] = cornerVertex[d] <=> e \in FanCorners(opposite, d)
  BY <1>1 DEF FanInv, VisitedFans
<1>5. \A v \in baseVisitedVertices :
         /\ v < numVertices
         /\ vertexCorners[v] \in baseVisitedCorners
         /\ cornerVertex[vertexCorners[v]] = v
         /\ LeftMostFrom(opposite, vertexCorners[v]) = vertexCorners[v]
  BY <1>1 DEF FanInv, VisitedVerticesAreStored
<1>6. /\ mesh.numVertices <= numVertices
      /\ \A d \in AllCorners : mesh.vertexAt[d] < mesh.numVertices
      /\ \A d \in AllCorners \ baseVisitedCorners : cornerVertex[d] = mesh.vertexAt[d]
      /\ EveryVertexIsUsed =>
           \A v \in 0 .. numVertices - 1 : \E d \in AllCorners : cornerVertex[d] = v
  BY <1>1 DEF FanInv, NumbersInUse
<1>7. baseVisitedVertices \subseteq VertexIDs
  BY DEF FanInv, MatchingInv, BaseTypeOK
<1> HIDE DEF c, fan, vertex, F
<1>8. c \in fan /\ fan \subseteq AllCorners /\ KeepsSwings(opposite, fan)
  BY <1>1, <1>3, FanKeepsSwings DEF fan
<1>9. fan \subseteq AllCorners \ baseVisitedCorners
  <2>1. KeepsSwings(opposite, AllCorners \ baseVisitedCorners)
    BY <1>3, <1>4, RestKeepsSwings
  <2> QED
    BY <1>1, <1>3, <2>1, FanIsLeast DEF fan
<1>10. \A d \in fan : FanCorners(opposite, d) = fan
  BY <1>1, <1>3, FansAreDisjoint DEF fan
<1>11. \A d \in baseVisitedCorners : FanCorners(opposite, d) \subseteq baseVisitedCorners
  BY <1>3, <1>4, FanIsLeast
<1>12. \A d \in fan : cornerVertex[d] = cornerVertex[c]
  <2>1. \A d \in Corners(F) :
           opposite[d] # NoCorner => FacesSameEdge(mesh.vertexAt, d, opposite[d])
    BY <1>3 DEF FanInv, MatchingInv, PairedTable, PairsFaceOneEdge
  <2>2. c \in Corners(F) /\ IsTable(opposite, Corners(F))
    BY <1>1, <1>3
  <2>3. \A d \in FanCorners(opposite, c) : mesh.vertexAt[d] = mesh.vertexAt[c]
    <3> DEFINE at == mesh.vertexAt
    <3>1. \A d \in Corners(F) : opposite[d] # NoCorner => FacesSameEdge(at, d, opposite[d])
      BY <2>1
    <3>2. F \in Nat
      BY <1>3
    <3> HIDE DEF at
    <3>3. \A d \in FanCorners(opposite, c) : at[d] = at[c]
      BY <2>2, <3>1, <3>2, FanHasOneVertex
    <3> QED
      BY <3>3 DEF at
  <2>4. \A d \in fan : mesh.vertexAt[d] = mesh.vertexAt[c]
    BY <2>3 DEF fan
  <2> QED
    BY <1>6, <1>8, <1>9, <2>4
<1>13. vertex = IF cornerVertex[c] \in baseVisitedVertices THEN numVertices ELSE cornerVertex[c]
  BY DEF vertex, FanVertex, IsNonManifoldVertex
<1>14. numVertices' = IF cornerVertex[c] \in baseVisitedVertices THEN numVertices + 1 ELSE numVertices
  BY <1>1 DEF IsNonManifoldVertex
<1>15. vertex \notin baseVisitedVertices /\ vertex \in Nat /\ vertex < numVertices'
       /\ numVertices' \in Nat /\ numVertices <= numVertices'
  <2>1. cornerVertex[c] = mesh.vertexAt[c] /\ mesh.vertexAt[c] \in Nat
    BY <1>1, <1>3, <1>6
  <2>2. numVertices \notin baseVisitedVertices
    BY <1>3, <1>5
  <2> QED
    BY <1>1, <1>3, <1>6, <1>13, <1>14, <2>1, <2>2
<1>16. vertex \in VertexIDs
  <2>1. cornerVertex[c] \in baseVisitedVertices => numVertices < MaxVertices
    BY <1>3 DEF VisitFan, NoVertexLeft, IsNonManifoldVertex, c
  <2> QED
    BY <1>1, <1>3, <1>13, <2>1
<1>17. /\ \A d \in fan : cornerVertex'[d] = vertex
       /\ \A d \in AllCorners \ fan : cornerVertex'[d] = cornerVertex[d]
       /\ \A d \in baseVisitedCorners : cornerVertex'[d] = cornerVertex[d]
  BY <1>1, <1>4, <1>8, <1>9
<1>18. NumbersInUse'
  <2>1. \A d \in AllCorners' \ baseVisitedCorners' : cornerVertex'[d] = mesh'.vertexAt[d]
    BY <1>1, <1>6, <1>17
  <2>2. ASSUME EveryVertexIsUsed, NEW v \in 0 .. numVertices' - 1
        PROVE  \E d \in AllCorners : cornerVertex'[d] = v
    <3>1. CASE v = vertex
      BY <1>8, <1>17, <3>1
    <3>2. CASE v # vertex
      <4>1. v \in 0 .. numVertices - 1
        BY <1>3, <1>13, <1>14, <3>2
      <4>2. PICK d \in AllCorners : cornerVertex[d] = v
        BY <1>6, <2>2, <4>1
      <4>3. CASE d \notin fan
        BY <1>17, <4>2, <4>3
      <4>4. CASE d \in fan
        <5>1. v \in baseVisitedVertices
          BY <1>12, <1>13, <3>2, <4>2, <4>4
        <5>2. vertexCorners[v] \in AllCorners /\ cornerVertex'[vertexCorners[v]] = v
          BY <1>4, <1>5, <1>17, <5>1
        <5> QED
          BY <5>2
      <4> QED
        BY <4>3, <4>4
    <3> QED
      BY <3>1, <3>2
  <2>3. mesh'.numVertices <= numVertices'
    BY <1>1, <1>3, <1>6, <1>15
  <2> QED
    BY <1>1, <1>6, <2>1, <2>2, <2>3 DEF NumbersInUse
<1>19. VisitedFans'
  <2>1. baseVisitedCorners' \subseteq AllCorners'
    BY <1>1, <1>4, <1>8
  <2>2. KeepsSwings(opposite', baseVisitedCorners')
    BY <1>1, <1>4, <1>8 DEF KeepsSwings
  <2>3. \A d \in baseVisitedCorners' : cornerVertex'[d] \in baseVisitedVertices'
    BY <1>1, <1>4, <1>17
  <2>4. ASSUME NEW d \in baseVisitedCorners', NEW e \in baseVisitedCorners'
        PROVE  cornerVertex'[e] = cornerVertex'[d] <=> e \in FanCorners(opposite, d)
    <3>1. CASE d \in baseVisitedCorners /\ e \in baseVisitedCorners
      BY <1>4, <1>17, <3>1
    <3>2. CASE d \in baseVisitedCorners /\ e \in fan
      BY <1>4, <1>9, <1>11, <1>15, <1>17, <3>2
    <3>3. CASE d \in fan /\ e \in baseVisitedCorners
      BY <1>4, <1>9, <1>10, <1>15, <1>17, <3>3
    <3>4. CASE d \in fan /\ e \in fan
      BY <1>10, <1>17, <3>4
    <3> QED
      BY <1>1, <3>1, <3>2, <3>3, <3>4
  <2> QED
    BY <1>1, <2>1, <2>2, <2>3, <2>4 DEF VisitedFans
<1>20. VisitedVerticesAreStored'
  <2> SUFFICES ASSUME NEW v \in baseVisitedVertices'
               PROVE  /\ v < numVertices'
                      /\ vertexCorners'[v] \in baseVisitedCorners'
                      /\ cornerVertex'[vertexCorners'[v]] = v
                      /\ LeftMostFrom(opposite, vertexCorners'[v]) = vertexCorners'[v]
    BY <1>1 DEF VisitedVerticesAreStored
  <2>1. CASE v = vertex
    <3>1. vertexCorners'[v] = FanCorner(c)
      BY <1>1, <1>3, <1>16, <2>1
    <3>2. FanCorner(c) \in fan /\ LeftMostFrom(opposite, FanCorner(c)) = FanCorner(c)
      BY <1>1, <1>3, LeftMostOfFan DEF FanCorner, fan
    <3> QED
      BY <1>1, <1>15, <1>17, <2>1, <3>1, <3>2
  <2>2. CASE v # vertex
    <3>1. v \in baseVisitedVertices /\ v \in VertexIDs
      BY <1>1, <1>7, <2>2
    <3>2. vertexCorners'[v] = vertexCorners[v]
      BY <1>1, <1>3, <2>2, <3>1
    <3>3. v < numVertices'
      BY <1>3, <1>5, <1>15, <3>1
    <3> QED
      BY <1>1, <1>5, <1>17, <3>1, <3>2, <3>3
  <2> QED
    BY <2>1, <2>2
<1>21. VisitedInOrder'
  <2>1. ASSUME NEW d \in AllCorners, d < c + 1 PROVE d \in baseVisitedCorners'
    <3>1. d < c \/ d = c
      BY <1>3, <2>1 DEF c
    <3> QED
      BY <1>1, <1>8, <3>1 DEF FanInv, VisitedInOrder, c
  <2> QED
    BY <1>1, <2>1 DEF VisitedInOrder
<1>22. NothingVisitedYet' /\ RoomForEveryFan'
  BY <1>1 DEF NothingVisitedYet, RoomForEveryFan, Matching
<1> QED
  BY <1>2, <1>18, <1>19, <1>20, <1>21, <1>22 DEF FanInv

(* When the mesh uses all its vertices there is always a number left: each *)
(* number in use has a corner of its own, and the corner in hand is none   *)
(* of them.                                                                *)
LEMMA NumbersLeft ==
  ASSUME FanInv, OutOfVertices
  PROVE  ~ EveryVertexIsUsed
<1> SUFFICES ASSUME EveryVertexIsUsed PROVE FALSE
  OBVIOUS
<1> DEFINE c == cursor
           w == cornerVertex[c]
           others == AllCorners \ {c}
           Numbers == 0 .. numVertices - 1
           f == [v \in Numbers |-> IF v = w THEN vertexCorners[w]
                                   ELSE CHOOSE d \in AllCorners : cornerVertex[d] = v]
<1>1. /\ phase = "vertices" /\ c \in AllCorners /\ c \notin baseVisitedCorners
      /\ w \in baseVisitedVertices /\ numVertices >= MaxVertices
  BY DEF OutOfVertices, NoVertexLeft, IsNonManifoldVertex
<1>2. /\ mesh.numFaces \in Nat /\ IsFiniteSet(AllCorners)
      /\ Cardinality(AllCorners) = 3 * mesh.numFaces
      /\ numVertices \in Nat /\ MaxVertices \in Nat /\ MaxVertices >= 3 * mesh.numFaces
  BY TableInHand DEF FanInv
<1>3. /\ vertexCorners[w] \in baseVisitedCorners /\ cornerVertex[vertexCorners[w]] = w
      /\ baseVisitedCorners \subseteq AllCorners
  BY <1>1 DEF FanInv, VisitedVerticesAreStored, VisitedFans
<1>4. \A v \in Numbers : \E d \in AllCorners : cornerVertex[d] = v
  BY <1>1 DEF FanInv, NumbersInUse
<1> HIDE DEF c, w
<1>5. \A v \in Numbers : f[v] \in others /\ cornerVertex[f[v]] = v
  <2> SUFFICES ASSUME NEW v \in Numbers PROVE f[v] \in others /\ cornerVertex[f[v]] = v
    OBVIOUS
  <2>1. CASE v = w
    BY <1>1, <1>3, <2>1
  <2>2. CASE v # w
    <3>1. f[v] \in AllCorners /\ cornerVertex[f[v]] = v
      BY <1>4, <2>2
    <3>2. f[v] # c
      BY <2>2, <3>1 DEF w
    <3> QED
      BY <3>1, <3>2
  <2> QED
    BY <2>1, <2>2
<1>6. f \in Injection(Numbers, others)
  <2>1. f \in [Numbers -> others]
    <3>1. f = [v \in Numbers |-> f[v]]
      OBVIOUS
    <3> HIDE DEF f, others
    <3> QED
      BY <1>5, <3>1
  <2>2. \A u, v \in Numbers : f[u] = f[v] => u = v
    <3> HIDE DEF f
    <3> QED BY <1>5
  <2> HIDE DEF f, others, Numbers
  <2> QED
    BY <2>1, <2>2 DEF Injection, IsInjective
<1>7. IsFiniteSet(others) /\ Cardinality(others) = 3 * mesh.numFaces - 1
  BY <1>1, <1>2, FS_RemoveElement
<1>8. Cardinality(Numbers) <= Cardinality(others)
  <2> HIDE DEF f, others, Numbers
  <2> QED BY <1>6, <1>7, FS_Injection
<1>9. Cardinality(Numbers) = numVertices
  <2>1. \A a, b \in Int : Cardinality(a .. b) = IF a > b THEN 0 ELSE b - a + 1
    BY FS_Interval
  <2>2. 0 \in Int /\ numVertices - 1 \in Int
    BY <1>2
  <2>3. Cardinality(0 .. numVertices - 1)
          = IF 0 > numVertices - 1 THEN 0 ELSE numVertices - 1 - 0 + 1
    BY <2>1, <2>2
  <2> QED
    BY <1>2, <2>3
<1> QED
  BY <1>1, <1>2, <1>7, <1>8, <1>9

LEMMA LaterStepsKeepFans ==
  FanInv /\ (\/ OppositesDone \/ OutOfVertices \/ SkipVisitedCorner \/ VerticesDone
             \/ NumberHole \/ SkipHoleCorner \/ HolesDone) => FanInv'
<1> SUFFICES ASSUME FanInv,
                    \/ OppositesDone \/ OutOfVertices \/ SkipVisitedCorner \/ VerticesDone
                    \/ NumberHole \/ SkipHoleCorner \/ HolesDone
             PROVE  FanInv'
  OBVIOUS
<1> USE DEF OppositesDone, OutOfVertices, SkipVisitedCorner, VerticesDone, NumberHole,
            SkipHoleCorner, HolesDone
<1>1. /\ UNCHANGED <<mesh, opposite, cornerVertex, vertexCorners, numVertices,
                     baseVisitedVertices, baseVisitedCorners>>
      /\ AllCorners' = AllCorners /\ EveryVertexIsUsed' = EveryVertexIsUsed
  BY DEF AllCorners, EveryVertexIsUsed, tableVars
<1>2. /\ phase \in {"opposites", "vertices", "holes"}
      /\ phase' \in {"vertices", "holes", "ready", "rejected"}
  OBVIOUS
<1>3. MatchingInv'
  BY OppositesDoneKeepsInv, LaterStepsKeepInv DEF FanInv
<1>4. (NumbersInUse /\ VisitedFans /\ VisitedVerticesAreStored)'
  BY <1>1, <1>2, FansStayVisited
<1>5. NothingVisitedYet'
  BY <1>2 DEF NothingVisitedYet, Matching
<1>6. RoomForEveryFan'
  <2>1. phase' = "rejected" => OutOfVertices
    BY <1>2
  <2> QED
    BY <1>1, <2>1, NumbersLeft DEF RoomForEveryFan
<1>7. VisitedInOrder'
  <2>1. /\ mesh.numFaces \in Nat /\ AllCorners = 0 .. 3 * mesh.numFaces - 1
        /\ cursor \in 0 .. 3 * mesh.numFaces
    BY DEF FanInv, MatchingInv, BaseTypeOK, IsMesh, AllCorners, Corners
  <2>2. CASE OppositesDone
    BY <1>1, <2>1, <2>2 DEF VisitedInOrder
  <2>3. CASE OutOfVertices
    BY <2>3 DEF VisitedInOrder
  <2>4. CASE SkipVisitedCorner
    <3>1. \A d \in AllCorners : d < cursor + 1 => d < cursor \/ d = cursor
      BY <2>1
    <3> QED
      BY <1>1, <2>4, <3>1 DEF FanInv, VisitedInOrder
  <2>5. CASE VerticesDone
    <3>1. \A d \in AllCorners : d < cursor
      BY <2>1, <2>5
    <3>2. baseVisitedCorners = AllCorners
      BY <2>5, <3>1 DEF FanInv, VisitedInOrder, VisitedFans
    <3> QED
      BY <1>1, <2>5, <3>2 DEF VisitedInOrder
  <2>6. CASE NumberHole \/ SkipHoleCorner \/ HolesDone
    BY <1>1, <2>6 DEF FanInv, VisitedInOrder
  <2> QED
    BY <2>2, <2>3, <2>4, <2>5, <2>6
<1> QED
  BY <1>3, <1>4, <1>5, <1>6, <1>7 DEF FanInv

LEMMA NextKeepsFanInv == FanInv /\ [BaseNext]_baseVars => FanInv'
<1> SUFFICES ASSUME FanInv, [BaseNext]_baseVars PROVE FanInv'
  OBVIOUS
<1>1. CASE UNCHANGED baseVars
  <2>1. /\ UNCHANGED <<mesh, phase, cursor, cornerVertex, opposite, vertexCorners, numVertices,
                       openEdges, baseVisitedVertices, baseVisitedCorners, vertexHoleID,
                       numHoles>>
        /\ AllCorners' = AllCorners /\ EveryVertexIsUsed' = EveryVertexIsUsed
        /\ Improper' = Improper
    BY <1>1 DEF baseVars, tableVars, AllCorners, EveryVertexIsUsed, Improper, DegenerateFace
  <2>2. MatchingInv'
    BY NextKeepsMatchingInv DEF FanInv
  <2>3. (NumbersInUse /\ VisitedFans /\ VisitedVerticesAreStored)'
    <3>1. CASE phase \notin {"faces", "rejected"}
      BY <2>1, <3>1, FansStayVisited
    <3>2. CASE phase \in {"faces", "rejected"}
      BY <2>1, <3>2 DEF NumbersInUse, VisitedFans, VisitedVerticesAreStored
    <3> QED
      BY <3>1, <3>2
  <2>4. (NothingVisitedYet /\ VisitedInOrder /\ RoomForEveryFan)'
    BY <2>1 DEF FanInv, NothingVisitedYet, Matching, VisitedInOrder, RoomForEveryFan
  <2> QED
    BY <2>2, <2>3, <2>4 DEF FanInv
<1> QED
  BY <1>1, LoadKeepsFans, MatchingKeepsFans, VisitKeepsFans, LaterStepsKeepFans DEF BaseNext

LEMMA InitEstablishesFanInv == BaseInit => FanInv
<1> SUFFICES ASSUME BaseInit PROVE FanInv
  OBVIOUS
<1>1. MatchingInv
  BY InitEstablishesMatchingInv
<1>2. phase = "faces" /\ baseVisitedCorners = {} /\ baseVisitedVertices = {}
  BY DEF BaseInit
<1> QED
  BY <1>1, <1>2 DEF FanInv, NothingVisitedYet, NumbersInUse, VisitedFans,
     VisitedVerticesAreStored, VisitedInOrder, RoomForEveryFan

LEMMA FanInvariant == BaseSpec => []FanInv
BY InitEstablishesFanInv, NextKeepsFanInv, PTL DEF BaseSpec

(* Whatever the triangles, the second pass leaves every vertex exactly one *)
(* fan with its leftmost corner stored, and neither the vertex numbers nor *)
(* the slots for open half-edges run out on a mesh whose faces are proper  *)
(* and use all of its vertices.                                            *)
THEOREM FansAreAlwaysSound == BaseSpec => []FansAreSound
<1>1. FanInv => FansAreSound
  <2> SUFFICES ASSUME FanInv PROVE FansAreSound
    OBVIOUS
  <2>1. BaseTypeOK /\ RoomForEveryFan
    BY DEF FanInv, MatchingInv
  <2>2. CASE phase \notin {"holes", "ready"}
    BY <2>1, <2>2 DEF FansAreSound, OneFanPerVertex, StoredCornerIsLeftmost
  <2>3. CASE phase \in {"holes", "ready"}
    <3>1. /\ baseVisitedCorners = AllCorners
          /\ \A c \in AllCorners : cornerVertex[c] \in baseVisitedVertices
          /\ \A c, d \in AllCorners :
               cornerVertex[d] = cornerVertex[c] <=> d \in FanCorners(opposite, c)
          /\ \A v \in baseVisitedVertices :
               /\ vertexCorners[v] \in AllCorners /\ cornerVertex[vertexCorners[v]] = v
               /\ LeftMostFrom(opposite, vertexCorners[v]) = vertexCorners[v]
      BY <2>3 DEF FanInv, VisitedInOrder, VisitedFans, VisitedVerticesAreStored
    <3>2. \A c \in AllCorners : FanCorners(opposite, c) \subseteq AllCorners
      <4>1. mesh.numFaces \in Nat /\ AllCorners = Corners(mesh.numFaces) /\ IsTable(opposite, AllCorners)
        BY TableInHand DEF FanInv
      <4> QED
        BY <4>1, FanKeepsSwings
    <3>3. OneFanPerVertex
      <4>1. \A c \in AllCorners : CornersAt(cornerVertex[c]) = FanCorners(opposite, c)
        BY <3>1, <3>2 DEF CornersAt
      <4> QED
        BY <4>1 DEF OneFanPerVertex
    <3>4. StoredCornerIsLeftmost
      BY <3>1 DEF StoredCornerIsLeftmost, CornersAt
    <3> QED
      BY <2>1, <3>3, <3>4 DEF FansAreSound
  <2> QED
    BY <2>2, <2>3
<1> QED
  BY <1>1, FanInvariant, PTL

-----------------------------------------------------------------------------
(* The third pass: boundary loops get numbers.                             *)

TurnStep == [c \in BoundaryCorners |-> NextBoundaryCorner(c)]

TurnOf(D, o, c) ==
  LET turn[d \in D] == IF o[d] < 0 THEN d ELSE turn[NextCorner(o[d])]
  IN  turn[NextCorner(c)]

(* What the second pass makes of any mesh: a table in which the corners of *)
(* a vertex are the corners of one fan.                                    *)
TableIsManifold ==
  /\ mesh.numFaces \in Nat
  /\ IsTable(opposite, AllCorners)
  /\ cornerVertex \in [AllCorners -> VertexIDs]
  /\ \A c, d \in AllCorners :
       cornerVertex[d] = cornerVertex[c] <=> d \in FanCorners(opposite, c)

LEMMA FansMakeAManifold ==
  ASSUME FanInv, phase \in {"holes", "ready"}
  PROVE  TableIsManifold
<1>1. /\ mesh.numFaces \in Nat /\ IsTable(opposite, AllCorners)
      /\ cornerVertex \in [AllCorners -> VertexIDs]
  BY TableInHand DEF FanInv
<1>2. \A c, d \in AllCorners :
        cornerVertex[d] = cornerVertex[c] <=> d \in FanCorners(opposite, c)
  BY DEF FanInv, VisitedInOrder, VisitedFans
<1> QED
  BY <1>1, <1>2 DEF TableIsManifold

(* In the manifold table a vertex has at most one boundary corner that     *)
(* comes before it, and turning leads from one boundary corner to another, *)
(* never from two to the same.                                             *)
LEMMA ManifoldTurns ==
  ASSUME TableIsManifold
  PROVE  /\ BoundaryCorners \in SUBSET Nat /\ IsFiniteSet(BoundaryCorners)
         /\ BoundaryCorners \subseteq AllCorners
         /\ \A c \in BoundaryCorners : BoundaryVertexOf(c) \in VertexIDs
         /\ \A c, d \in BoundaryCorners : BoundaryVertexOf(c) = BoundaryVertexOf(d) => c = d
         /\ \A c \in BoundaryCorners :
              /\ NextBoundaryCorner(c) \in BoundaryCorners
              /\ BoundaryVertexOf(NextBoundaryCorner(c)) = cornerVertex[PreviousCorner(c)]
         /\ \A c, d \in BoundaryCorners : NextBoundaryCorner(c) = NextBoundaryCorner(d) => c = d
<1> DEFINE F == mesh.numFaces
           D == Corners(F)
           o == opposite
           B == BoundaryCorners
           turn == CHOOSE t : Turns(o, t)
<1>1. /\ F \in Nat /\ AllCorners = D /\ D \in SUBSET Nat /\ IsFiniteSet(D)
      /\ IsTable(o, D) /\ DOMAIN o = D
      /\ cornerVertex \in [D -> VertexIDs]
  BY CornersAreFinite DEF TableIsManifold, AllCorners, IsTable
<1>2. \A c, d \in D : cornerVertex[d] = cornerVertex[c] <=> d \in FanCorners(o, c)
  BY <1>1 DEF TableIsManifold
<1> HIDE DEF F, D, o
<1>3. B = {c \in D : o[c] = NoCorner}
  BY <1>1 DEF BoundaryCorners, o
<1> HIDE DEF B
<1>4. \A c \in D : /\ NextCorner(c) \in D /\ PreviousCorner(c) \in D
                   /\ PreviousCorner(NextCorner(c)) = c /\ NextCorner(PreviousCorner(c)) = c
  BY <1>1, CornerArithmetic, NextAndPrevious DEF D
<1>5. NoCorner < 0
  BY DEF NoCorner
<1>6. \A c \in B : /\ c \in D
                   /\ SwingRight(o, NextCorner(c)) < 0 /\ SwingLeft(o, PreviousCorner(c)) < 0
  <2> SUFFICES ASSUME NEW c \in B
               PROVE  /\ c \in D
                      /\ SwingRight(o, NextCorner(c)) < 0 /\ SwingLeft(o, PreviousCorner(c)) < 0
    OBVIOUS
  <2>1. c \in D /\ o[c] = NoCorner
    BY <1>3
  <2>2. SwingRight(o, NextCorner(c)) = NoCorner /\ SwingLeft(o, PreviousCorner(c)) = NoCorner
    BY <1>1, <2>1, SwingsCrossEdges DEF D
  <2> QED
    BY <1>5, <2>1, <2>2
<1>7. \A c, d \in B : NextCorner(d) \in FanCorners(o, NextCorner(c)) => c = d
  <2> SUFFICES ASSUME NEW c \in B, NEW d \in B, NextCorner(d) \in FanCorners(o, NextCorner(c))
               PROVE  c = d
    OBVIOUS
  <2>1. c \in D /\ d \in D /\ NextCorner(c) \in D
    BY <1>4, <1>6
  <2>2. NextCorner(d) = NextCorner(c)
    BY <1>1, <1>6, <2>1, OneRightmost DEF D
  <2> QED
    BY <1>4, <2>1, <2>2
<1>8. \A c, d \in B : PreviousCorner(d) \in FanCorners(o, PreviousCorner(c)) => c = d
  <2> SUFFICES ASSUME NEW c \in B, NEW d \in B,
                      PreviousCorner(d) \in FanCorners(o, PreviousCorner(c))
               PROVE  c = d
    OBVIOUS
  <2>1. c \in D /\ d \in D /\ PreviousCorner(c) \in D
    BY <1>4, <1>6
  <2>2. PreviousCorner(d) = PreviousCorner(c)
    BY <1>1, <1>6, <2>1, OneLeftmost DEF D
  <2> QED
    BY <1>4, <2>1, <2>2
<1>9. Turns(o, turn)
  <2>1. \E t : Turns(o, t)
    BY <1>1, TurnExists DEF D
  <2> QED
    BY <2>1
<1>10. \A c : NextBoundaryCorner(c) = turn[NextCorner(c)]
  <2>1. \A t : Turns(o, t) <=>
          t = [d \in AllCorners |-> IF opposite[d] < 0 THEN d ELSE t[NextCorner(opposite[d])]]
    BY <1>1 DEF Turns, o
  <2> HIDE DEF o
  <2> QED
    BY <2>1 DEF NextBoundaryCorner
<1> HIDE DEF turn
<1>11. \A c \in B : /\ NextBoundaryCorner(c) \in B
                    /\ NextCorner(NextBoundaryCorner(c)) \in FanCorners(o, PreviousCorner(c))
  <2> SUFFICES ASSUME NEW c \in B
               PROVE  /\ NextBoundaryCorner(c) \in B
                      /\ NextCorner(NextBoundaryCorner(c)) \in FanCorners(o, PreviousCorner(c))
    OBVIOUS
  <2>1. c \in D /\ o[c] = NoCorner
    BY <1>3
  <2>2. /\ turn[NextCorner(c)] \in D /\ o[turn[NextCorner(c)]] = NoCorner
        /\ NextCorner(turn[NextCorner(c)]) \in FanCorners(o, PreviousCorner(c))
    BY <1>1, <1>9, <2>1, TurnEnds DEF D
  <2> QED
    BY <1>3, <1>10, <2>2
<1>16. ASSUME NEW c \in B
       PROVE  BoundaryVertexOf(NextBoundaryCorner(c)) = cornerVertex[PreviousCorner(c)]
  <2> DEFINE n == NextBoundaryCorner(c)
  <2>1. n \in D /\ c \in D /\ NextCorner(n) \in FanCorners(o, PreviousCorner(c))
    BY <1>6, <1>11
  <2> HIDE DEF n
  <2>2. NextCorner(n) \in D /\ PreviousCorner(c) \in D
    BY <1>4, <2>1
  <2>3. cornerVertex[NextCorner(n)] = cornerVertex[PreviousCorner(c)]
    BY <1>2, <2>1, <2>2
  <2> QED
    BY <2>3 DEF BoundaryVertexOf, n
<1>12. ASSUME NEW c \in B, NEW d \in B, NextBoundaryCorner(c) = NextBoundaryCorner(d)
       PROVE  c = d
  <2> DEFINE e == NextCorner(NextBoundaryCorner(c))
             p == PreviousCorner(c)
             q == PreviousCorner(d)
  <2>1. p \in D /\ q \in D /\ e \in FanCorners(o, p) /\ e \in FanCorners(o, q)
    BY <1>4, <1>6, <1>11, <1>12
  <2> HIDE DEF e, p, q
  <2>2. FanCorners(o, p) = FanCorners(o, q)
    <3>1. FanCorners(o, e) = FanCorners(o, p) /\ FanCorners(o, e) = FanCorners(o, q)
      BY <1>1, <2>1, FansAreDisjoint DEF D
    <3> QED
      BY <3>1
  <2>3. q \in FanCorners(o, p)
    BY <1>1, <2>1, <2>2, FanKeepsSwings DEF D
  <2> QED
    BY <1>8, <2>3 DEF p, q
<1>13. ASSUME NEW c \in B, NEW d \in B, BoundaryVertexOf(c) = BoundaryVertexOf(d)
       PROVE  c = d
  <2>1. NextCorner(c) \in D /\ NextCorner(d) \in D
    BY <1>4, <1>6
  <2>2. NextCorner(d) \in FanCorners(o, NextCorner(c))
    BY <1>2, <1>13, <2>1 DEF BoundaryVertexOf
  <2> QED
    BY <1>7, <2>2
<1>14. \A c \in B : BoundaryVertexOf(c) \in VertexIDs
  <2>1. \A c \in D : NextCorner(c) \in D /\ cornerVertex[NextCorner(c)] \in VertexIDs
    BY <1>1, <1>4
  <2> QED
    BY <1>6, <2>1 DEF BoundaryVertexOf
<1>15. B \subseteq D /\ IsFiniteSet(B)
  <2>1. B \subseteq D
    BY <1>6
  <2> QED
    BY <1>1, <2>1, FS_Subset
<1> QED
  BY <1>1, <1>11, <1>12, <1>13, <1>14, <1>15, <1>16 DEF B

LEMMA BoundaryTurns ==
  ASSUME FanInv, phase \in {"holes", "ready"}
  PROVE  /\ BoundaryCorners \in SUBSET Nat /\ IsFiniteSet(BoundaryCorners)
         /\ BoundaryCorners \subseteq AllCorners
         /\ \A c \in BoundaryCorners : BoundaryVertexOf(c) \in VertexIDs
         /\ \A c, d \in BoundaryCorners : BoundaryVertexOf(c) = BoundaryVertexOf(d) => c = d
         /\ \A c \in BoundaryCorners : NextBoundaryCorner(c) \in BoundaryCorners
         /\ \A c, d \in BoundaryCorners : NextBoundaryCorner(c) = NextBoundaryCorner(d) => c = d
BY FansMakeAManifold, ManifoldTurns

LEMMA TurnsAreSteps ==
  ASSUME TableIsManifold
  PROVE  /\ TurnStep \in [BoundaryCorners -> BoundaryCorners]
         /\ IsStep(TurnStep, BoundaryCorners)
         /\ \A c \in BoundaryCorners : TurnStep[c] = NextBoundaryCorner(c)
<1>1. /\ \A c \in BoundaryCorners : NextBoundaryCorner(c) \in BoundaryCorners
      /\ \A c, d \in BoundaryCorners : NextBoundaryCorner(c) = NextBoundaryCorner(d) => c = d
  BY ManifoldTurns
<1>2. \A c \in BoundaryCorners : TurnStep[c] = NextBoundaryCorner(c)
  BY DEF TurnStep
<1>3. TurnStep \in [BoundaryCorners -> BoundaryCorners]
  BY <1>1 DEF TurnStep
<1>4. TurnStep \in [BoundaryCorners -> BoundaryCorners \cup {-1}]
  BY <1>3
<1> QED
  BY <1>1, <1>2, <1>3, <1>4 DEF IsStep

(* A loop that has no number yet is walked all round.                      *)
LEMMA LoopIsWalked ==
  ASSUME FanInv, phase \in {"holes", "ready"}, NEW c \in BoundaryCorners,
         \A d \in BoundaryCorners : HoleAt(NextBoundaryCorner(d)) = HoleAt(d),
         HoleAt(c) = -1
  PROVE  /\ IsWalk(TurnStep, BoundaryCorners, c, BoundaryLoop(c))
         /\ IsOver(TurnStep, c, BoundaryLoop(c))
<1> DEFINE B == BoundaryCorners
           Halts == {path \in Paths(B) :
                       \/ HoleAt(TurnStep[path[Len(path)]]) # -1
                       \/ \E i \in DOMAIN path :
                            BoundaryVertexOf(path[i])
                              = BoundaryVertexOf(TurnStep[path[Len(path)]])}
           loop == CHOOSE f : IsLoopFunction(f, TurnStep, B, Halts)
<1>1. /\ B \in SUBSET Nat /\ IsFiniteSet(B)
      /\ \A d, e \in B : BoundaryVertexOf(d) = BoundaryVertexOf(e) => d = e
      /\ TurnStep \in [B -> B] /\ IsStep(TurnStep, B)
      /\ \A d \in B : TurnStep[d] = NextBoundaryCorner(d)
  BY FansMakeAManifold, BoundaryTurns, TurnsAreSteps
<1>2. PICK w : IsWalk(TurnStep, B, c, w) /\ IsOver(TurnStep, c, w)
  BY <1>1, SomeWalkIsOver
<1>3. /\ w \in Seq(B) /\ Len(w) \in Nat /\ Len(w) >= 1 /\ w[1] = c
      /\ \A i \in 1 .. Len(w) - 1 : w[i + 1] = TurnStep[w[i]]
      /\ \A i, j \in 1 .. Len(w) : w[i] = w[j] => i = j
      /\ TurnStep[w[Len(w)]] = c
  BY <1>1, <1>2, WalkMeetsCornersOnce, WalkGoesRound DEF IsWalk
<1>4. \A i \in 1 .. Len(w) : w[i] \in B /\ HoleAt(w[i]) = -1
  <2> DEFINE S == {d \in B : HoleAt(d) = -1}
  <2>1. \A d \in S : TurnStep[d] \in S
    BY <1>1
  <2>2. 1 \in 1 .. Len(w) /\ w[1] \in S
    BY <1>3
  <2> HIDE DEF S
  <2>3. \A i \in 1 .. Len(w) : w[i] \in S
    BY <1>1, <1>2, <2>1, <2>2, WalkStaysWithin
  <2> QED
    BY <2>3 DEF S
<1>5. w \in Halts
  <2>1. w \in Paths(B)
    BY <1>3 DEF Paths
  <2>2. 1 \in DOMAIN w /\ w[1] = TurnStep[w[Len(w)]]
    BY <1>3
  <2> QED
    BY <2>1, <2>2
<1>6. ASSUME NEW k \in 1 .. Len(w) - 1 PROVE SubSeq(w, 1, k) \notin Halts
  <2> DEFINE part == SubSeq(w, 1, k)
  <2>1. /\ k \in Nat /\ k >= 1 /\ k \in 1 .. Len(w) /\ k + 1 \in 1 .. Len(w)
        /\ \A i \in 1 .. k : i \in 1 .. Len(w) /\ i # k + 1
    BY <1>3
  <2>2. Len(part) = k /\ DOMAIN part = 1 .. k /\ \A i \in 1 .. k : part[i] = w[i]
    <3>1. \A i \in 1 .. k : w[i] \in B
      BY <1>4, <2>1
    <3>2. 1 \in Int /\ k \in Int /\ 1 <= k /\ k - 1 + 1 = k /\ \A i \in 1 .. k : 1 + i - 1 = i
      BY <2>1
    <3>3. /\ part \in Seq(B) /\ Len(part) = k /\ \A i \in 1 .. k : part[i] = w[1 + i - 1]
      BY <3>1, <3>2, SubSeqProperties
    <3>4. DOMAIN part = 1 .. Len(part)
      BY <3>3
    <3> QED
      BY <3>2, <3>3, <3>4
  <2> HIDE DEF part
  <2>3. TurnStep[part[Len(part)]] = w[k + 1]
    <3>1. k \in 1 .. k
      BY <2>1
    <3> QED
      BY <1>3, <2>2, <3>1
  <2>4. \A i \in DOMAIN part : BoundaryVertexOf(part[i]) # BoundaryVertexOf(w[k + 1])
    <3> SUFFICES ASSUME NEW i \in 1 .. k
                 PROVE  BoundaryVertexOf(w[i]) # BoundaryVertexOf(w[k + 1])
      BY <2>2
    <3>1. w[i] \in B /\ w[k + 1] \in B /\ w[i] # w[k + 1]
      BY <1>3, <1>4, <2>1
    <3> QED
      BY <1>1, <3>1
  <2>5. HoleAt(w[k + 1]) = -1
    BY <1>4, <2>1
  <2>6. part \notin Halts
    BY <2>3, <2>4, <2>5
  <2> QED
    BY <2>6 DEF part
<1>7. IsLoopFunction(loop, TurnStep, B, Halts)
  <2> HIDE DEF Halts
  <2>1. \E f : IsLoopFunction(f, TurnStep, B, Halts)
    BY <1>1, LoopFunctionExists
  <2> QED
    BY <2>1
<1>8. BoundaryLoop(c) = loop[<<c>>]
  <2> DEFINE Found(f) ==
        f = [path \in Seq(BoundaryCorners) \ {<<>>} |->
               LET n == NextBoundaryCorner(LastOf(path))
               IN  IF \/ vertexHoleID[BoundaryVertexOf(n)] # -1
                      \/ \E i \in DOMAIN path :
                            BoundaryVertexOf(path[i]) = BoundaryVertexOf(n)
                   THEN path
                   ELSE f[Append(path, n)]]
  <2>1. ASSUME NEW f
        PROVE  IsLoopFunction(f, TurnStep, B, Halts) <=> Found(f)
    <3> DEFINE g == [path \in Paths(B) |->
                       IF path \in Halts THEN path
                       ELSE f[Append(path, TurnStep[path[Len(path)]])]]
               h == [path \in Paths(B) |->
                       LET n == NextBoundaryCorner(LastOf(path))
                       IN  IF \/ vertexHoleID[BoundaryVertexOf(n)] # -1
                              \/ \E i \in DOMAIN path :
                                    BoundaryVertexOf(path[i]) = BoundaryVertexOf(n)
                           THEN path
                           ELSE f[Append(path, n)]]
    <3>1. ASSUME NEW path \in Paths(B) PROVE g[path] = h[path]
      <4> DEFINE n == NextBoundaryCorner(LastOf(path))
      <4>1. path[Len(path)] \in B
        BY PathsInHand
      <4>2. TurnStep[path[Len(path)]] = n
        BY <1>1, <4>1 DEF LastOf
      <4> HIDE DEF n
      <4>3. path \in Halts <=>
              \/ vertexHoleID[BoundaryVertexOf(n)] # -1
              \/ \E i \in DOMAIN path : BoundaryVertexOf(path[i]) = BoundaryVertexOf(n)
        BY <4>2 DEF HoleAt
      <4> HIDE DEF Halts
      <4>4. g[path] = IF path \in Halts THEN path ELSE f[Append(path, n)]
        BY <4>2
      <4>5. h[path] = IF \/ vertexHoleID[BoundaryVertexOf(n)] # -1
                         \/ \E i \in DOMAIN path :
                               BoundaryVertexOf(path[i]) = BoundaryVertexOf(n)
                      THEN path ELSE f[Append(path, n)]
        BY DEF n
      <4> QED
        BY <4>3, <4>4, <4>5
    <3>2. g = h
      <4>1. g = [path \in Paths(B) |-> g[path]] /\ h = [path \in Paths(B) |-> h[path]]
        OBVIOUS
      <4> HIDE DEF g, h
      <4> QED
        BY <3>1, <4>1
    <3>3. IsLoopFunction(f, TurnStep, B, Halts) <=> f = g
      BY DEF IsLoopFunction
    <3>4. Found(f) <=> f = h
      BY DEF Paths
    <3> HIDE DEF g, h
    <3> QED
      BY <3>2, <3>3, <3>4
  <2>2. BoundaryLoop(c) = (CHOOSE f : Found(f))[<<c>>]
    BY DEF BoundaryLoop
  <2> HIDE DEF Found, Halts
  <2> QED
    BY <2>1, <2>2
<1> HIDE DEF loop, Halts
<1>9. loop[<<c>>] = w
  <2>1. HaltsAtItsEnd(w, Halts)
    BY <1>5, <1>6 DEF HaltsAtItsEnd
  <2> QED
    BY <1>1, <1>2, <1>7, <2>1, LoopFunctionWalks
<1> QED
  BY <1>2, <1>8, <1>9

(* The part of the pass that is done: whole loops have numbers, one each,  *)
(* and each number is some loop's.                                         *)
NumberedLoops ==
  phase \in {"holes", "ready"} =>
    /\ \A v \in VertexIDs : vertexHoleID[v] \in -1 .. numHoles - 1
    /\ \A v \in VertexIDs : vertexHoleID[v] # -1 =>
         \E c \in BoundaryCorners : BoundaryVertexOf(c) = v
    /\ \A c \in BoundaryCorners : HoleAt(NextBoundaryCorner(c)) = HoleAt(c)
    /\ \A n \in 0 .. numHoles - 1 : \E c \in BoundaryCorners : HoleAt(c) = n
    /\ \A S \in SUBSET BoundaryCorners : TurnsWithin(S) =>
         \A c \in BoundaryCorners, d \in S :
            HoleAt(c) = HoleAt(d) /\ HoleAt(d) # -1 => c \in S

NotNumberedYet ==
  phase \notin {"holes", "ready"} =>
    numHoles = 0 /\ \A v \in VertexIDs : vertexHoleID[v] = -1

(* The pass leaves no boundary corner behind.                              *)
NumberedInOrder ==
  /\ phase = "holes" => \A c \in BoundaryCorners : c < cursor => HoleAt(c) # -1
  /\ phase = "ready" => \A c \in BoundaryCorners : HoleAt(c) # -1

HoleInv == FanInv /\ NumberedLoops /\ NotNumberedYet /\ NumberedInOrder

(* The turns are those of the table, which the third pass only reads.      *)
LEMMA TurnsStay ==
  ASSUME UNCHANGED <<mesh, opposite, cornerVertex>>
  PROVE  /\ AllCorners' = AllCorners /\ VertexIDs' = VertexIDs
         /\ BoundaryCorners' = BoundaryCorners
         /\ \A c : /\ BoundaryVertexOf(c)' = BoundaryVertexOf(c)
                   /\ NextBoundaryCorner(c)' = NextBoundaryCorner(c)
         /\ \A S : TurnsWithin(S)' <=> TurnsWithin(S)
<1>1. AllCorners' = AllCorners /\ VertexIDs' = VertexIDs
  BY DEF AllCorners, VertexIDs, MaxVertices
<1>2. BoundaryCorners' = BoundaryCorners
  BY <1>1 DEF BoundaryCorners
<1>3. \A c : BoundaryVertexOf(c)' = BoundaryVertexOf(c)
  BY DEF BoundaryVertexOf
<1>4. ASSUME NEW c PROVE NextBoundaryCorner(c)' = NextBoundaryCorner(c)
  <2>1. NextBoundaryCorner(c) = TurnOf(AllCorners, opposite, c)
    BY DEF NextBoundaryCorner, TurnOf
  <2>2. NextBoundaryCorner(c)' = TurnOf(AllCorners', opposite', c)
    BY DEF NextBoundaryCorner, TurnOf
  <2> QED
    BY <1>1, <2>1, <2>2
<1>5. \A S : TurnsWithin(S)' <=> TurnsWithin(S)
  BY <1>4 DEF TurnsWithin
<1> QED
  BY <1>1, <1>2, <1>3, <1>4, <1>5

LEMMA NumberHoleKeepsLoops ==
  ASSUME HoleInv, NumberHole
  PROVE  NumberedLoops' /\ NumberedInOrder'
<1> DEFINE B == BoundaryCorners
           w == BoundaryLoop(cursor)
           L == LoopOf(w)
           hole(c) == HoleAt(c)
           onLoop == {BoundaryVertexOf(w[i]) : i \in DOMAIN w}
<1>1. /\ phase = "holes" /\ phase' = "holes"
      /\ cursor \in AllCorners /\ ~ NothingToNumber(cursor)
      /\ cursor' = cursor + 1 /\ numHoles' = numHoles + 1
      /\ vertexHoleID' = [v \in VertexIDs |-> IF v \in onLoop THEN numHoles ELSE vertexHoleID[v]]
      /\ UNCHANGED <<mesh, opposite, cornerVertex>>
  BY DEF NumberHole, tableVars
<1>2. FanInv
  BY DEF HoleInv
<1>3. /\ numHoles \in Nat /\ cursor \in Nat /\ DOMAIN opposite = AllCorners
      /\ \A c \in AllCorners : c \in Nat /\ opposite[c] \in AllCorners \cup {NoCorner}
  BY <1>2, TableInHand DEF FanInv, MatchingInv, BaseTypeOK, IsTable
<1>4. /\ B \in SUBSET Nat /\ IsFiniteSet(B) /\ B \subseteq AllCorners
      /\ \A c \in B : BoundaryVertexOf(c) \in VertexIDs
      /\ \A c, d \in B : BoundaryVertexOf(c) = BoundaryVertexOf(d) => c = d
      /\ \A c \in B : NextBoundaryCorner(c) \in B
  BY <1>1, <1>2, BoundaryTurns
<1>5. /\ TurnStep \in [B -> B] /\ IsStep(TurnStep, B)
      /\ \A c \in B : TurnStep[c] = NextBoundaryCorner(c)
  BY <1>1, <1>2, FansMakeAManifold, TurnsAreSteps
<1>6. /\ \A v \in VertexIDs : vertexHoleID[v] \in -1 .. numHoles - 1
      /\ \A v \in VertexIDs : vertexHoleID[v] # -1 => \E c \in B : BoundaryVertexOf(c) = v
      /\ \A c \in B : hole(NextBoundaryCorner(c)) = hole(c)
      /\ \A n \in 0 .. numHoles - 1 : \E c \in B : hole(c) = n
      /\ \A S \in SUBSET B : TurnsWithin(S) =>
           \A c \in B, d \in S : hole(c) = hole(d) /\ hole(d) # -1 => c \in S
      /\ \A c \in B : c < cursor => hole(c) # -1
  BY <1>1 DEF HoleInv, NumberedLoops, NumberedInOrder
<1>7. cursor \in B /\ hole(cursor) = -1
  <2>1. ~ (opposite[cursor] >= 0) /\ vertexHoleID[BoundaryVertexOf(cursor)] = -1
    BY <1>1 DEF NothingToNumber
  <2>2. opposite[cursor] \in AllCorners => opposite[cursor] >= 0
    BY <1>3
  <2> QED
    BY <1>1, <1>3, <2>1, <2>2 DEF BoundaryCorners, HoleAt
<1>8. IsWalk(TurnStep, B, cursor, w) /\ IsOver(TurnStep, cursor, w)
  BY <1>1, <1>2, <1>6, <1>7, LoopIsWalked
<1> HIDE DEF w
<1>9. /\ Len(w) \in Nat /\ DOMAIN w = 1 .. Len(w) /\ \A i \in 1 .. Len(w) : w[i] \in B
      /\ cursor \in L /\ L \subseteq B
      /\ \A c \in L : TurnStep[c] \in L
      /\ \A c \in B : TurnStep[c] \in L => c \in L
  <2> HIDE DEF B, L
  <2>1. w \in Seq(B)
    BY <1>8 DEF IsWalk
  <2>2. /\ cursor \in LoopOf(w) /\ LoopOf(w) \subseteq B
        /\ \A c \in LoopOf(w) : TurnStep[c] \in LoopOf(w)
        /\ \A c \in B : TurnStep[c] \in LoopOf(w) => c \in LoopOf(w)
    BY <1>4, <1>5, <1>7, <1>8, WalkGoesRound
  <2> QED
    BY <2>1, <2>2 DEF L
<1>10. \A c \in B : BoundaryVertexOf(c) \in onLoop <=> c \in L
  <2> SUFFICES ASSUME NEW c \in B PROVE BoundaryVertexOf(c) \in onLoop <=> c \in L
    OBVIOUS
  <2>1. ASSUME BoundaryVertexOf(c) \in onLoop PROVE c \in L
    <3>1. PICK i \in 1 .. Len(w) : BoundaryVertexOf(w[i]) = BoundaryVertexOf(c)
      BY <1>9, <2>1
    <3>2. w[i] = c
      BY <1>4, <1>9, <3>1
    <3> QED
      BY <3>1, <3>2 DEF LoopOf
  <2>2. ASSUME c \in L PROVE BoundaryVertexOf(c) \in onLoop
    <3>1. PICK i \in 1 .. Len(w) : w[i] = c
      BY <2>2 DEF LoopOf
    <3> QED
      BY <1>9, <3>1
  <2> QED
    BY <2>1, <2>2
<1>11. /\ AllCorners' = AllCorners /\ VertexIDs' = VertexIDs /\ B' = B
       /\ \A c : /\ BoundaryVertexOf(c)' = BoundaryVertexOf(c)
                 /\ NextBoundaryCorner(c)' = NextBoundaryCorner(c)
       /\ \A S : TurnsWithin(S)' <=> TurnsWithin(S)
  BY <1>1, TurnsStay
<1>12. \A v \in VertexIDs :
         vertexHoleID'[v] = IF v \in onLoop THEN numHoles ELSE vertexHoleID[v]
  BY <1>1
<1>13. \A c \in B : HoleAt(c)' = IF c \in L THEN numHoles ELSE hole(c)
  <2> SUFFICES ASSUME NEW c \in B
               PROVE  HoleAt(c)' = IF c \in L THEN numHoles ELSE hole(c)
    OBVIOUS
  <2>1. HoleAt(c)' = vertexHoleID'[BoundaryVertexOf(c)]
    BY <1>11 DEF HoleAt
  <2>2. hole(c) = vertexHoleID[BoundaryVertexOf(c)]
    BY DEF HoleAt
  <2> HIDE DEF hole, L, onLoop
  <2> QED
    BY <1>4, <1>10, <1>12, <2>1, <2>2
<1>14. \A v \in onLoop : \E c \in B : BoundaryVertexOf(c) = v
  BY <1>9
<1>15. \A c \in B : hole(c) \in -1 .. numHoles - 1
  BY <1>4, <1>6 DEF HoleAt
<1> HIDE DEF B, L, hole, onLoop
<1>16. \A v \in VertexIDs : vertexHoleID'[v] \in -1 .. numHoles' - 1
  <2> SUFFICES ASSUME NEW v \in VertexIDs PROVE vertexHoleID'[v] \in -1 .. numHoles
    BY <1>1, <1>3
  <2>1. vertexHoleID[v] \in -1 .. numHoles - 1
    BY <1>6
  <2>2. vertexHoleID'[v] = numHoles \/ vertexHoleID'[v] = vertexHoleID[v]
    BY <1>12
  <2> QED
    BY <1>3, <2>1, <2>2
<1>17. \A v \in VertexIDs : vertexHoleID'[v] # -1 => \E c \in B : BoundaryVertexOf(c) = v
  BY <1>6, <1>12, <1>14
<1>18. \A c \in B : HoleAt(NextBoundaryCorner(c))' = HoleAt(c)'
  <2> SUFFICES ASSUME NEW c \in B PROVE HoleAt(NextBoundaryCorner(c))' = HoleAt(c)'
    OBVIOUS
  <2>0. PICK n : n = NextBoundaryCorner(c)
    OBVIOUS
  <2>1. n \in B /\ hole(n) = hole(c) /\ (n \in L <=> c \in L)
    BY <1>4, <1>5, <1>6, <1>9, <2>0
  <2>2. HoleAt(NextBoundaryCorner(c))' = vertexHoleID'[BoundaryVertexOf(n)]
    BY <1>11, <2>0 DEF HoleAt
  <2>3. HoleAt(n)' = vertexHoleID'[BoundaryVertexOf(n)]
    BY <1>11 DEF HoleAt
  <2> QED
    BY <1>13, <2>1, <2>2, <2>3
<1>19. \A n \in 0 .. numHoles' - 1 : \E c \in B : HoleAt(c)' = n
  <2> SUFFICES ASSUME NEW n \in 0 .. numHoles PROVE \E c \in B : HoleAt(c)' = n
    BY <1>1, <1>3
  <2>1. CASE n = numHoles
    BY <1>7, <1>9, <1>13, <2>1
  <2>2. CASE n # numHoles
    <3>1. n \in 0 .. numHoles - 1 /\ n # -1
      BY <1>3, <2>2
    <3>2. PICK c \in B : hole(c) = n
      BY <1>6, <3>1
    <3>3. c \notin L
      <4> SUFFICES ASSUME c \in L PROVE FALSE
        OBVIOUS
      <4> DEFINE S == {d \in B : hole(d) = -1}
      <4>1. \A d \in S : TurnStep[d] \in S
        BY <1>4, <1>5, <1>6
      <4>2. cursor \in S /\ cursor \in L
        BY <1>7, <1>9
      <4> HIDE DEF S
      <4>3. L \subseteq S
        BY <1>4, <1>5, <1>7, <1>8, <4>1, <4>2, LoopIsLeast DEF L
      <4> QED
        BY <3>1, <3>2, <4>3 DEF S
    <3> QED
      BY <1>13, <3>2, <3>3
  <2> QED
    BY <2>1, <2>2
<1>20. ASSUME NEW S \in SUBSET B, TurnsWithin(S), NEW c \in B, NEW d \in S,
              HoleAt(c)' = HoleAt(d)', HoleAt(d)' # -1
       PROVE  c \in S
  <2>1. d \in B /\ \A e \in S : TurnStep[e] \in S
    BY <1>5, <1>20 DEF TurnsWithin
  <2>2. CASE d \in L
    <3>1. L \subseteq S
      BY <1>4, <1>5, <1>7, <1>8, <2>1, <2>2, LoopIsLeast DEF L
    <3>2. c \in L
      <4>1. HoleAt(c)' = numHoles
        BY <1>13, <1>20, <2>1, <2>2
      <4>2. hole(c) # numHoles
        BY <1>3, <1>15
      <4> QED
        BY <1>13, <4>1, <4>2
    <3> QED
      BY <3>1, <3>2
  <2>3. CASE d \notin L
    <3>1. HoleAt(d)' = hole(d) /\ hole(d) # numHoles
      BY <1>3, <1>13, <1>15, <2>1, <2>3
    <3>2. hole(c) = hole(d)
      BY <1>13, <1>20, <3>1
    <3> QED
      BY <1>6, <1>20, <3>1, <3>2
  <2> QED
    BY <2>2, <2>3
<1>21. NumberedLoops'
  <2>1. \A S \in SUBSET B' : TurnsWithin(S)' =>
          \A c \in B', d \in S : HoleAt(c)' = HoleAt(d)' /\ HoleAt(d)' # -1 => c \in S
    BY <1>11, <1>20
  <2>2. /\ \A v \in VertexIDs' : vertexHoleID'[v] \in -1 .. numHoles' - 1
        /\ \A v \in VertexIDs' : vertexHoleID'[v] # -1 => \E c \in B' : BoundaryVertexOf(c)' = v
        /\ \A c \in B' : HoleAt(NextBoundaryCorner(c))' = HoleAt(c)'
        /\ \A n \in 0 .. numHoles' - 1 : \E c \in B' : HoleAt(c)' = n
    BY <1>11, <1>16, <1>17, <1>18, <1>19
  <2> QED
    BY <2>1, <2>2 DEF NumberedLoops, B
<1>22. NumberedInOrder'
  <2>1. ASSUME NEW c \in B, c < cursor' PROVE HoleAt(c)' # -1
    <3>1. c \in Nat /\ (c < cursor \/ c = cursor)
      BY <1>1, <1>3, <1>4, <2>1
    <3>2. numHoles # -1
      BY <1>3
    <3> QED
      BY <1>6, <1>9, <1>13, <3>1, <3>2
  <2> QED
    BY <1>1, <1>11, <2>1 DEF NumberedInOrder, B
<1> QED
  BY <1>21, <1>22

BoundaryIsWalkable ==
  phase \in {"holes", "ready"} =>
    \A c \in BoundaryCorners : /\ c \in Nat /\ BoundaryVertexOf(c) \in VertexIDs
                               /\ NextBoundaryCorner(c) \in BoundaryCorners

LEMMA BoundaryCanBeWalked == FanInv => BoundaryIsWalkable
BY BoundaryTurns DEF BoundaryIsWalkable

(* A step that leaves table and hole numbers alone.                        *)
LEMMA LoopsStayNumbered ==
  ASSUME NumberedLoops, phase \in {"holes", "ready"},
         UNCHANGED <<mesh, opposite, cornerVertex, vertexHoleID, numHoles>>
  PROVE  NumberedLoops' /\ \A c : HoleAt(c)' = HoleAt(c)
<1>1. /\ VertexIDs' = VertexIDs /\ BoundaryCorners' = BoundaryCorners
      /\ \A c : /\ BoundaryVertexOf(c)' = BoundaryVertexOf(c)
                /\ NextBoundaryCorner(c)' = NextBoundaryCorner(c)
      /\ \A S : TurnsWithin(S)' <=> TurnsWithin(S)
  BY TurnsStay
<1>2. \A c : /\ HoleAt(c)' = HoleAt(c)
             /\ HoleAt(NextBoundaryCorner(c))' = HoleAt(NextBoundaryCorner(c))
  BY <1>1 DEF HoleAt
<1> QED
  BY <1>1, <1>2 DEF NumberedLoops

LEMMA NextKeepsHoleInv == HoleInv /\ [BaseNext]_baseVars => HoleInv'
<1> SUFFICES ASSUME HoleInv, [BaseNext]_baseVars PROVE HoleInv'
  OBVIOUS
<1>1. FanInv'
  BY NextKeepsFanInv DEF HoleInv
<1>2. CASE NumberHole
  <2>1. NumberedLoops' /\ NumberedInOrder' /\ phase' = "holes"
    BY <1>2, NumberHoleKeepsLoops DEF NumberHole
  <2> QED
    BY <1>1, <2>1 DEF HoleInv, NotNumberedYet
<1>3. CASE SkipHoleCorner \/ HolesDone \/ (UNCHANGED baseVars /\ phase \in {"holes", "ready"})
  <2>1. /\ phase \in {"holes", "ready"} /\ phase' \in {"holes", "ready"}
        /\ UNCHANGED <<mesh, opposite, cornerVertex, vertexHoleID, numHoles>>
    BY <1>3 DEF SkipHoleCorner, HolesDone, baseVars, tableVars
  <2>2. NumberedLoops' /\ \A c : HoleAt(c)' = HoleAt(c)
    BY <2>1, LoopsStayNumbered DEF HoleInv
  <2>3. BoundaryCorners' = BoundaryCorners
    BY <2>1, TurnsStay
  <2>4. /\ mesh.numFaces \in Nat /\ AllCorners = 0 .. 3 * mesh.numFaces - 1
        /\ cursor \in 0 .. 3 * mesh.numFaces
        /\ \A c \in BoundaryCorners : c \in AllCorners /\ opposite[c] = NoCorner
    BY DEF HoleInv, FanInv, MatchingInv, BaseTypeOK, IsMesh, AllCorners, Corners, BoundaryCorners
  <2>5. NumberedInOrder'
    <3>1. CASE SkipHoleCorner
      <4>1. /\ phase = "holes" /\ phase' = "holes" /\ cursor' = cursor + 1
            /\ opposite[cursor] >= 0 \/ HoleAt(cursor) # -1
        BY <3>1 DEF SkipHoleCorner, NothingToNumber, HoleAt
      <4>2. ASSUME NEW c \in BoundaryCorners, c < cursor' PROVE HoleAt(c) # -1
        <5>1. c < cursor \/ c = cursor
          BY <2>4, <4>1, <4>2
        <5>2. ~ (opposite[c] >= 0)
          BY <2>4 DEF NoCorner
        <5> QED
          BY <4>1, <5>1, <5>2 DEF HoleInv, NumberedInOrder
      <4> QED
        BY <2>2, <2>3, <4>1, <4>2 DEF NumberedInOrder
    <3>2. CASE HolesDone
      <4>1. phase = "holes" /\ phase' = "ready" /\ cursor \notin AllCorners
        BY <3>2 DEF HolesDone
      <4>2. \A c \in BoundaryCorners : c < cursor
        BY <2>4, <4>1
      <4>3. \A c \in BoundaryCorners : HoleAt(c) # -1
        BY <4>1, <4>2 DEF HoleInv, NumberedInOrder
      <4> QED
        BY <2>2, <2>3, <4>1, <4>3 DEF NumberedInOrder
    <3>3. CASE UNCHANGED baseVars
      <4>1. phase' = phase /\ cursor' = cursor
        BY <3>3 DEF baseVars
      <4> QED
        BY <2>2, <2>3, <4>1 DEF HoleInv, NumberedInOrder
    <3> QED
      BY <1>3, <3>1, <3>2, <3>3
  <2> QED
    BY <1>1, <2>1, <2>2, <2>5 DEF HoleInv, NotNumberedYet
<1>4. CASE VerticesDone
  <2>1. /\ phase = "vertices" /\ phase' = "holes" /\ cursor' = 0
        /\ UNCHANGED <<mesh, opposite, cornerVertex, vertexHoleID, numHoles>>
    BY <1>4 DEF VerticesDone, tableVars
  <2>2. numHoles = 0 /\ \A v \in VertexIDs : vertexHoleID[v] = -1
    BY <2>1 DEF HoleInv, NotNumberedYet
  <2>3. /\ VertexIDs' = VertexIDs /\ BoundaryCorners' = BoundaryCorners
        /\ \A c : BoundaryVertexOf(c)' = BoundaryVertexOf(c)
    BY <2>1, TurnsStay
  <2>4. /\ \A c \in BoundaryCorners' : c \in Nat /\ BoundaryVertexOf(c)' \in VertexIDs'
                                       /\ NextBoundaryCorner(c)' \in BoundaryCorners'
    <3>1. FanInv' => BoundaryIsWalkable'
      BY BoundaryCanBeWalked, PTL
    <3> QED
      BY <1>1, <2>1, <3>1 DEF BoundaryIsWalkable
  <2>5. \A c \in BoundaryCorners' : HoleAt(c)' = -1 /\ HoleAt(NextBoundaryCorner(c))' = -1
    BY <2>1, <2>2, <2>3, <2>4 DEF HoleAt
  <2>6. /\ \A v \in VertexIDs' : vertexHoleID'[v] = -1
        /\ numHoles' = 0
    BY <2>1, <2>2, <2>3
  <2>7. NumberedLoops'
    BY <2>5, <2>6 DEF NumberedLoops
  <2>8. NumberedInOrder'
    BY <2>1, <2>4 DEF NumberedInOrder
  <2> QED
    BY <1>1, <2>1, <2>7, <2>8 DEF HoleInv, NotNumberedYet
<1>5. CASE \/ LoadFaces \/ MatchHalfEdge \/ OpenHalfEdge \/ OppositesDone
           \/ VisitFan \/ OutOfVertices \/ SkipVisitedCorner
           \/ (UNCHANGED baseVars /\ phase \notin {"holes", "ready"})
  <2>1. /\ phase \notin {"holes", "ready"} /\ phase' \notin {"holes", "ready"}
        /\ UNCHANGED <<mesh, vertexHoleID, numHoles>>
    BY <1>5 DEF LoadFaces, MatchHalfEdge, OpenHalfEdge, OppositesDone, VisitFan, OutOfVertices,
       SkipVisitedCorner, UnchangedByMatching, baseVars
  <2>2. VertexIDs' = VertexIDs
    BY <2>1 DEF VertexIDs, MaxVertices
  <2> QED
    BY <1>1, <2>1, <2>2 DEF HoleInv, NumberedLoops, NotNumberedYet, NumberedInOrder
<1> QED
  BY <1>2, <1>3, <1>4, <1>5 DEF BaseNext

LEMMA InitEstablishesHoleInv == BaseInit => HoleInv
<1> SUFFICES ASSUME BaseInit PROVE HoleInv
  OBVIOUS
<1>1. FanInv
  BY InitEstablishesFanInv
<1>2. phase = "faces" /\ numHoles = 0 /\ \A v \in VertexIDs : vertexHoleID[v] = -1
  BY DEF BaseInit
<1> QED
  BY <1>1, <1>2 DEF HoleInv, NumberedLoops, NotNumberedYet, NumberedInOrder

LEMMA HoleInvariant == BaseSpec => []HoleInv
BY InitEstablishesHoleInv, NextKeepsHoleInv, PTL DEF BaseSpec

(* For every mesh, the third pass gives a number to the vertices on the    *)
(* boundary and to no others, one number to each boundary loop, and leaves *)
(* no number out.                                                          *)
THEOREM HolesAreAlwaysLoops == BaseSpec => []HolesAreBoundaryLoops
<1>1. HoleInv => HolesAreBoundaryLoops
  <2> SUFFICES ASSUME HoleInv, phase = "ready" PROVE HolesAreBoundaryLoops
    BY DEF HolesAreBoundaryLoops
  <2>1. /\ \A v \in VertexIDs : vertexHoleID[v] \in -1 .. numHoles - 1
        /\ \A v \in VertexIDs : vertexHoleID[v] # -1 =>
             \E c \in BoundaryCorners : BoundaryVertexOf(c) = v
        /\ \A c \in BoundaryCorners : HoleAt(NextBoundaryCorner(c)) = HoleAt(c)
        /\ \A n \in 0 .. numHoles - 1 : \E c \in BoundaryCorners : HoleAt(c) = n
        /\ \A S \in SUBSET BoundaryCorners : TurnsWithin(S) =>
             \A c \in BoundaryCorners, d \in S :
                HoleAt(c) = HoleAt(d) /\ HoleAt(d) # -1 => c \in S
        /\ \A c \in BoundaryCorners : HoleAt(c) # -1
    BY DEF HoleInv, NumberedLoops, NumberedInOrder
  <2>2. /\ numHoles \in Nat /\ 0 .. numVertices - 1 \subseteq VertexIDs
        /\ \A c \in BoundaryCorners : BoundaryVertexOf(c) \in VertexIDs
    <3>1. \A c \in BoundaryCorners : BoundaryVertexOf(c) \in VertexIDs
      BY BoundaryTurns DEF HoleInv
    <3>2. numVertices \in Nat /\ MaxVertices \in Nat /\ numVertices <= MaxVertices /\ numHoles \in Nat
      BY TableInHand DEF HoleInv, FanInv, MatchingInv, BaseTypeOK
    <3> QED
      BY <3>1, <3>2 DEF VertexIDs
  <2>3. \A v \in 0 .. numVertices - 1 :
          vertexHoleID[v] # -1 <=> \E c \in BoundaryCorners : BoundaryVertexOf(c) = v
    BY <2>1, <2>2 DEF HoleAt
  <2>4. {HoleAt(c) : c \in BoundaryCorners} = 0 .. numHoles - 1
    <3>1. \A c \in BoundaryCorners : HoleAt(c) \in 0 .. numHoles - 1
      <4> SUFFICES ASSUME NEW c \in BoundaryCorners PROVE HoleAt(c) \in 0 .. numHoles - 1
        OBVIOUS
      <4>1. HoleAt(c) \in -1 .. numHoles - 1 /\ HoleAt(c) # -1
        BY <2>1, <2>2 DEF HoleAt
      <4> QED
        BY <2>2, <4>1
    <3> QED
      BY <2>1, <3>1
  <2>5. \A S \in SUBSET BoundaryCorners :
          TurnsWithin(S) =>
            \A c \in BoundaryCorners : (\E d \in S : HoleAt(c) = HoleAt(d)) => c \in S
    BY <2>1
  <2> QED
    BY <2>1, <2>3, <2>4, <2>5 DEF HolesAreBoundaryLoops
<1> QED
  BY <1>1, HoleInvariant, PTL

=============================================================================
