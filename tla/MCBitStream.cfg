SPECIFICATION Spec
CONSTANTS
  Programs <- PassPrograms
  Patterns <- AllPatterns
  FillBit = 1
  MaxBytes = 4
  Extra = 1
INVARIANTS TypeOK RoundTrip EncodedIsAccepted ShortIsRejected CursorWithinData
CHECK_DEADLOCK FALSE
