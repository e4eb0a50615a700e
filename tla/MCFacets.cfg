SPECIFICATION Spec
CONSTANTS
  Types <- MCTypes
  Values <- MCValues
  MinLong <- MCMinLong
  MaxLong = 20
  Narrow <- MCNarrow
INVARIANTS
  MergedSaysEvery
  RefusesOnlyEmpty
  ImplicitHasLength
CHECK_DEADLOCK FALSE
