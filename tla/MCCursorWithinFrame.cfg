SPECIFICATION Spec
CONSTANTS
  Programs <- OverrunPrograms
  Patterns <- AllPatterns
  FillBit = 1
  MaxBytes = 4
  Extra = 1
INVARIANT CursorWithinFrame
CHECK_DEADLOCK FALSE
