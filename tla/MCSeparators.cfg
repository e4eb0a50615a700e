SPECIFICATION FairSpec
CONSTANTS
  Programs <- MCPrograms
  Samples <- MCSamples
  Inputs <- MCInputs
  Digits = {"1"}
  Unbounded = 99
  MaxDecodes = 2
  Tokens = {"a", "1", ",", ";"}
  MaxLen = 4
INVARIANTS
  TypeOK
  InputAccounted
  OccursInRange
  FlagsClean
  RoundTrip
PROPERTY DecodeEnds
CHECK_DEADLOCK FALSE
