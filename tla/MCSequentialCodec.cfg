SPECIFICATION Spec
CONSTANTS
  HalfRange = 8
  FitIn <- MCFitIn
  Leftovers = {0, 6}
  Jobs <- MCJobs
  Streams <- MCStreams
INVARIANTS GeometryComesBack PredictionsAgree NothingIsLeftOver
CHECK_DEADLOCK FALSE
