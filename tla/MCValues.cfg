SPECIFICATION Spec
CONSTANTS
  Size <- MCSize
  MaxMagnitude = 99999
  TextMax = 32767
  Ticks = 10
  FirstDay <- MCFirstDay
  LastDay <- MCLastDay
  MinYear = 0
  MaxYear = 9999
  MaxRolls = 2
  Fields <- MCFields
  Samples <- MCSamples
  Inputs <- MCInputs
INVARIANTS
  ReadsBack
  Stable
  RoundsRight
  DatesTrue
  LaxCarries
CHECK_DEADLOCK FALSE
