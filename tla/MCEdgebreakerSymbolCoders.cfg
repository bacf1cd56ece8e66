SPECIFICATION CodersSpec
CONSTANTS
  Meshes <- MCMeshes
  AttributeCounts = {0}
INVARIANTS EachSymbolIsNamed NothingIsLeftUnread CountsAreSound
CHECK_DEADLOCK FALSE
