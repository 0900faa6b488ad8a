SPECIFICATION Spec
CONSTANTS
  MaxSize = 7
  BlockSize = 2
  ChunkBlocks = 2
  Counters = 3
INVARIANT SuccessIsSealed
INVARIANT WrittenIsDigested
INVARIANT FailureLeavesNothing
CHECK_DEADLOCK FALSE
