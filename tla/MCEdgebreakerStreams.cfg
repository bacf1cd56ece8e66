SPECIFICATION ReaderSpec
CONSTANTS
  Streams <- MCStreams
INVARIANTS TableIsSound DecodedMeshIsComplete
PROPERTY ReadingEnds
CHECK_DEADLOCK FALSE
