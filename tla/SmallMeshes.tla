----------------------------- MODULE SmallMeshes -----------------------------
(***************************************************************************)
(* The triangle meshes the model-checking runs are made on.                *)
(***************************************************************************)
EXTENDS Integers, Sequences, FiniteSets

LOCAL Largest(S) == CHOOSE x \in S : \A y \in S : y <= x

(* A mesh from its faces, each a triple of vertices, and a vertex count.   *)
MeshOf(numVertices, faces) ==
  [numVertices |-> numVertices,
   numFaces |-> Len(faces),
   vertexAt |-> [c \in 0 .. 3 * Len(faces) - 1 |-> faces[(c \div 3) + 1][(c % 3) + 1]]]

Triangles(V) == {t \in V \X V \X V : t[1] # t[2] /\ t[2] # t[3] /\ t[1] # t[3]}

(* One rotation of every oriented triangle.                                *)
Oriented(V) == {t \in Triangles(V) : t[1] < t[2] /\ t[1] < t[3]}

(* Vertices are numbered in the order the corners meet them: two meshes    *)
(* that differ by a renaming of vertices are checked once.                 *)
NumberedByFirstUse(faces) ==
  LET at(i) == faces[((i - 1) \div 3) + 1][((i - 1) % 3) + 1]
  IN  \A i \in 1 .. 3 * Len(faces) :
         \/ at(i) = 0
         \/ \E j \in 1 .. i - 1 : at(j) >= at(i) - 1

UsedVertices(faces) == 1 + Largest(UNION {{faces[i][j] : j \in 1 .. 3} : i \in DOMAIN faces})

MeshesFrom(lists) ==
  {MeshOf(UsedVertices(faces), faces) : faces \in {l \in lists : NumberedByFirstUse(l)}}

UpToTwoFaces ==
  MeshesFrom({<<t>> : t \in {<<0, 1, 2>>}}
             \cup {<<<<0, 1, 2>>, t>> : t \in Triangles(0 .. 5)})

ThreeFaces(V) ==
  MeshesFrom({<<<<0, 1, 2>>, t, u>> : t, u \in Triangles(V)})

FourFaces(V) ==
  MeshesFrom({<<<<0, 1, 2>>, t, u, w>> : t, u, w \in Oriented(V)})

-----------------------------------------------------------------------------
(* Larger meshes, one per shape the traversal treats differently.          *)

Tetrahedron == MeshOf(4, <<<<0, 2, 1>>, <<0, 1, 3>>, <<1, 2, 3>>, <<0, 3, 2>>>>)

Octahedron ==
  MeshOf(6, <<<<0, 1, 2>>, <<0, 2, 3>>, <<0, 3, 4>>, <<0, 4, 1>>,
              <<5, 2, 1>>, <<5, 3, 2>>, <<5, 4, 3>>, <<5, 1, 4>>>>)

(* A band of six faces: two boundary loops, no interior vertex.            *)
Annulus ==
  MeshOf(6, <<<<0, 1, 3>>, <<1, 4, 3>>, <<1, 2, 4>>, <<2, 5, 4>>,
              <<2, 0, 5>>, <<0, 3, 5>>>>)

(* An octahedron with two opposite faces cut out.                          *)
OctahedronWithTwoHoles ==
  MeshOf(6, <<<<0, 2, 3>>, <<0, 3, 4>>, <<0, 4, 1>>,
              <<5, 2, 1>>, <<5, 3, 2>>, <<5, 1, 4>>>>)

(* The torus of Moebius: 7 vertices, 14 faces, every edge glued.           *)
Torus ==
  MeshOf(7, [i \in 1 .. 14 |->
               LET v == (i - 1) % 7 IN
               IF i <= 7 THEN <<v, (v + 1) % 7, (v + 3) % 7>>
                         ELSE <<v, (v + 3) % 7, (v + 2) % 7>>])

(* The same torus with one face, and with two disjoint edges' faces, cut   *)
(* out: a handle the traversal closes next to a boundary.                  *)
WithoutFaces(m, cut) ==
  LET keep == SelectSeq([i \in 1 .. m.numFaces |-> i - 1], LAMBDA f : f \notin cut)
  IN  MeshOf(m.numVertices,
             [i \in 1 .. Len(keep) |->
                 LET f == keep[i] IN
                 <<m.vertexAt[3 * f], m.vertexAt[3 * f + 1], m.vertexAt[3 * f + 2]>>])

(* A strip of five faces with a half twist: it has one side, so somewhere  *)
(* two faces run along an edge in the same direction.                      *)
MoebiusBand ==
  MeshOf(5, <<<<0, 1, 2>>, <<2, 1, 3>>, <<2, 3, 4>>, <<4, 3, 0>>, <<4, 0, 1>>>>)

(* Two fans that meet in vertex 0 only.                                    *)
BowTie == MeshOf(5, <<<<0, 1, 2>>, <<0, 3, 4>>>>)

(* The bow tie with a vertex no face uses.                                 *)
BowTieAndIsolatedVertex == MeshOf(6, <<<<0, 1, 2>>, <<0, 3, 4>>>>)

(* Two faces on an edge, with vertices before and after those they use.    *)
PairAndIsolatedVertices == MeshOf(7, <<<<0, 1, 2>>, <<2, 1, 4>>>>)

(* A closed fan of five faces around vertex 0.                             *)
Wheel ==
  MeshOf(6, <<<<0, 1, 2>>, <<0, 2, 3>>, <<0, 3, 4>>, <<0, 4, 5>>, <<0, 5, 1>>>>)

(* A triangulated disc the traversal has to split: a centre face with two  *)
(* faces on each of its sides.                                             *)
Star ==
  MeshOf(9, <<<<0, 1, 2>>, <<1, 0, 3>>, <<2, 1, 4>>, <<0, 2, 5>>,
              <<1, 3, 6>>, <<2, 4, 7>>, <<0, 5, 8>>>>)

LargerMeshes ==
  {Tetrahedron, Octahedron, Annulus, OctahedronWithTwoHoles, Torus,
   WithoutFaces(Torus, {0}), WithoutFaces(Torus, {0, 9}),
   MoebiusBand, BowTie, PairAndIsolatedVertices, Wheel, Star}

=============================================================================
