---------------------- MODULE MCEdgebreakerSymbolCoders ----------------------
EXTENDS EdgebreakerSymbolCoders, SmallMeshes

(* Six or more faces around a boundary vertex.                             *)
Fan(n) == MeshOf(n + 2, [i \in 1 .. n |-> <<0, i, i + 1>>])
MirroredFan(n) == MeshOf(n + 2, [i \in 1 .. n |-> <<0, i + 1, i>>])
Fans == {Fan(5), Fan(6), Fan(7), MirroredFan(5), MirroredFan(6), MirroredFan(7)}

(* A closed surface with two vertices of n edges.                          *)
Bipyramid(n) ==
  LET after(i) == IF i = n THEN 1 ELSE i + 1
  IN  MeshOf(n + 2, [i \in 1 .. 2 * n |->
                       IF i <= n THEN <<0, i, after(i)>>
                       ELSE <<n + 1, after(i - n), i - n>>])

MCMeshes == UpToTwoFaces \cup LargerMeshes \cup Fans \cup {Bipyramid(5), Bipyramid(9)}

=============================================================================
