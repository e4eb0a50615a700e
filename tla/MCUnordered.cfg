SPECIFICATION FairSpec
CONSTANTS
  Programs <- MCPrograms
  Inputs <- MCInputs
  NoTag = "none"
  Separator = ","
  Newline = "nl"
  Terminator = ";"
  Unbounded = 99
  MaxDecodes = 2
  Tokens = {"a", "b", "c", ",", "nl", ";"}
  MaxLen = 4
INVARIANTS TypeOK ItemsTile SearchDecides InitiatedInOrder RequiredPresent
PROPERTY DecodeEnds
CHECK_DEADLOCK FALSE
