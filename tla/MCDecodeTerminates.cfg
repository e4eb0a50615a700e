SPECIFICATION FairSpec
CONSTANTS
  Node <- MCNode
  Roots = {21}
  Kind <- MCKind
  Kids <- MCKids
  Test <- MCTest
  PreNode <- MCPreNode
  MinOccurs <- MCMin
  MaxOccurs <- MCMax
  Dispatch = {12}
  Framed = {14, 22}
  MayBeAbsent = {}
  Slots = {18, 23}
  NeverSuppressed = {}
  Nillable = {16}
  ZeroLength = {27}
  ChoiceFrame <- MCChoiceFrame
  NewVars <- MCNew
  SetVars <- MCSet
  ReadVars <- MCRead
  Var = {"x"}
  Val = {0, 1}
  Default = 0
  InputLen = 2
  MaxDecodes = 1
PROPERTY DecodeTerminates
CHECK_DEADLOCK FALSE
