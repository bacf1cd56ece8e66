SPECIFICATION CoderSpec
CONSTANTS
  WordSize = 3
  ByteSize = 2
  MaxFields = 3
  Banks = {"rans", "folded"}
  Inputs <- MCInputs
  Jobs <- MCJobs
  MaxRawBits = 7
  MaxPrecisionBits = 12
  CacheSize = 2
INVARIANTS PackedFieldsAreExact CodedNumbersAreExact UncleanOnlyAfterRareLastBit SymbolsAreExact
PROPERTY CorrectionEnds
CHECK_DEADLOCK FALSE
