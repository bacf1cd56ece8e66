SPECIFICATION Spec
CONSTANTS
  MaxBits = 3
  NarrowBits = 2
  WideBits = 4
  Clouds <- MCClouds
  Streams <- MCStreams
INVARIANTS CloudComesBack DecodedCloudIsSound
CHECK_DEADLOCK FALSE
