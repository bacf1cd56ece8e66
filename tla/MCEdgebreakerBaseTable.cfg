SPECIFICATION BaseSpec
CONSTANT Meshes <- MCMeshes
INVARIANTS OppositesArePairs PairsFaceOneEdge NothingLeftToGlue
           FansAreSound HolesAreBoundaryLoops
PROPERTY BaseTerminates
CHECK_DEADLOCK FALSE
