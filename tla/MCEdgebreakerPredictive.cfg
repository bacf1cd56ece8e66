SPECIFICATION CodersSpec
CONSTANTS
  Meshes <- Fans
  AttributeCounts = {0}
INVARIANTS PredictiveNamesEachSymbol
CHECK_DEADLOCK FALSE
