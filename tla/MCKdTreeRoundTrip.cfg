SPECIFICATION Spec
CONSTANTS
  WordBits = 2
  AxisThreshold = 4
  MinAxisBits = 1
  PollInterval = 2
  Headers <- MCHeaders
  Jobs <- MCJobs
INVARIANTS PointsComeBack ScratchIsSound RowsAreAnnounced
PROPERTY CodingEnds
CHECK_DEADLOCK FALSE
