SPECIFICATION Spec
CONSTANTS
  Programs <- MCPrograms
  Samples <- MCSamples
  Nil <- MCNil
INVARIANTS
  EscapeIsInverse
CHECK_DEADLOCK FALSE
