SPECIFICATION FairSpec
CONSTANTS
  Node <- MCNode
  Roots = {1, 11, 21}
  Kind <- MCKind
  Kids <- MCKids
  Test <- MCTest
  PreNode <- MCPreNode
  MinOccurs <- MCMin
  MaxOccurs <- MCMax
  Dispatch = {12}
  Framed = {14, 22}
  MayBeAbsent = {22}
  Slots = {18, 23}
  NeverSuppressed = {24}
  Nillable = {16}
  ZeroLength = {27}
  ChoiceFrame <- MCChoiceFrame
  NewVars <- MCNew
  SetVars <- MCSet
  ReadVars <- MCRead
  Var = {"x"}
  Val = {0, 1}
  Default = 0
  InputLen = 2
  MaxDecodes = 2
INVARIANTS TypeOK FramesMatchCalls BranchesStartAlike
PROPERTIES CommittedIsFinal SdePropagates OnlySlotsRepeat Backtracks
CHECK_DEADLOCK FALSE
