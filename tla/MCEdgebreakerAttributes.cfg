SPECIFICATION AttributeSpec
CONSTANTS
  Meshes <- MCMeshes
  AttributeCounts = {0, 1, 2}
  AttributesOf <- MCAttributesOf
INVARIANTS ValuesArrive WalksAgree NothingIsRepeated
CHECK_DEADLOCK FALSE
