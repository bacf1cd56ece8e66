SPECIFICATION BaseSpec
CONSTANT Meshes <- MeshesWithIsolatedVertices
INVARIANT ProperTrianglesAreAccepted
CHECK_DEADLOCK FALSE
