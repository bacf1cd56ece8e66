----------------------- MODULE MCEdgebreakerBaseTable -----------------------
EXTENDS EdgebreakerBaseTable, SmallMeshes

(* Every mesh of up to three faces on four vertices, four faces (up to     *)
(* rotation) on four vertices, the larger shapes, and inputs that are      *)
(* turned away.                                                            *)
MCMeshes ==
  UpToTwoFaces \cup ThreeFaces(0 .. 3) \cup FourFaces(0 .. 3) \cup LargerMeshes
  \cup {BowTieAndIsolatedVertex, MeshOf(3, <<<<0, 0, 1>>>>), MeshOf(2, <<<<0, 1, 2>>>>)}

(* Small meshes with a vertex no face uses.                                *)
MeshesWithIsolatedVertices == {PairAndIsolatedVertices, BowTieAndIsolatedVertex}

=============================================================================
