SPECIFICATION Spec
CONSTANTS
  Programs <- MCPrograms
  MaxDepth = 40
  MaxEncodes = 2
INVARIANTS
  TypeOK
  LengthAgrees
  CalcsSettled
  OccurrenceFresh
  WritesInfoset
  OrderChangesOnBytes
CHECK_DEADLOCK FALSE
