SPECIFICATION Spec
CONSTANTS
  b1 = b1
  Builders = {b1}
  Foreign = Foreign
  NoFile = NoFile
  MaxFaults = 1
INVARIANT FailedBuildLeavesNoOutput
CHECK_DEADLOCK FALSE
