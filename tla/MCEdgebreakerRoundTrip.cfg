SPECIFICATION Spec
CONSTANTS
  Meshes <- MCMeshes
  AttributeCounts = {0, 1}
INVARIANTS WalkIsSound StreamIsAccepted MeshComesBack BoundaryIsExact
           SeamBitsReachTheirEdges
PROPERTIES SimulatedTableIsTheReaders ImplementsTransfer
CHECK_DEADLOCK FALSE
