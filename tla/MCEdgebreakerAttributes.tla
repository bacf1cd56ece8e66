---------------------- MODULE MCEdgebreakerAttributes ----------------------
EXTENDS EdgebreakerAttributes, SmallMeshes

(* Three faces on one edge, and three vertices that are corners of two     *)
(* fans each.                                                              *)
Fin == MeshOf(5, <<<<0, 1, 2>>, <<1, 0, 3>>, <<0, 1, 4>>>>)

(* A closed fan of three faces, and one of four.                           *)
Pyramid == MeshOf(4, <<<<0, 1, 2>>, <<0, 2, 3>>, <<0, 3, 1>>>>)
Tent == MeshOf(5, <<<<0, 1, 2>>, <<0, 2, 3>>, <<0, 3, 4>>, <<0, 4, 1>>>>)

MCMeshes ==
  {MeshOf(3, <<<<0, 1, 2>>>>), MeshOf(4, <<<<0, 1, 2>>, <<2, 1, 3>>>>),
   BowTie, Fin, Pyramid, Tent, Wheel, Tetrahedron, Annulus, MoebiusBand,
   OctahedronWithTwoHoles}

Data(entryAt) == [type |-> "data", entryAt |-> entryAt]
SecondPosition(m) == [type |-> "position", entryAt |-> m.vertexAt]

MeshCorners(m) == 0 .. 3 * m.numFaces - 1

(* Every face one of two charts.                                           *)
Charts(m) ==
  {[c \in MeshCorners(m) |-> chart[c \div 3]] : chart \in [0 .. m.numFaces - 1 -> {0, 1}]}

(* One of two entries at every corner of one vertex: seams that end at it. *)
AroundVertex(m, v) ==
  LET at == {c \in MeshCorners(m) : m.vertexAt[c] = v}
  IN  {[c \in MeshCorners(m) |-> IF c \in S THEN 1 ELSE 0] : S \in SUBSET at}

OneAttribute(m) ==
  (IF m.numFaces <= 2 THEN [MeshCorners(m) -> {0, 1}] ELSE {})
    \cup Charts(m) \cup AroundVertex(m, 0) \cup AroundVertex(m, 1)

TwoAttributes(m) ==
  {<<a, b>> : a \in {e \in Charts(m) : m.numFaces <= 4 /\ e[0] = 0}, b \in AroundVertex(m, 0)}

MCAttributesOf(m, n) ==
  CASE n = 0 -> {<<>>, <<SecondPosition(m)>>}
    [] n = 1 -> {<<Data(e)>> : e \in OneAttribute(m)}
                  \cup {<<SecondPosition(m), Data(e)>> : e \in AroundVertex(m, 1)}
    [] n = 2 -> {<<Data(p[1]), Data(p[2])>> : p \in TwoAttributes(m)}

=============================================================================
