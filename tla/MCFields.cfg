SPECIFICATION Spec
CONSTANTS
  Programs <- MCPrograms
  Samples <- MCSamples
  Nil <- MCNil
INVARIANTS
  ReadsBack
  Rewritten
CHECK_DEADLOCK FALSE
