SPECIFICATION Spec
CONSTANTS
  LowMod = 16
  HighMod = 8
  ImmMod = 4
  OemBlockSize = 2
  OemReserved = 5
  NonReserved = 4
  BlockSizes = {1, 2}
  MaxBlocks = 18
INVARIANT SuccessCorrects
INVARIANT AllOrNothing
INVARIANT FailureLeavesNoStage
CHECK_DEADLOCK FALSE
