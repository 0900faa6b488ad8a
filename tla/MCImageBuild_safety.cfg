SPECIFICATION Spec
CONSTANTS
  b1 = b1
  b2 = b2
  Builders = {b1, b2}
  Foreign = Foreign
  NoFile = NoFile
  MaxFaults = 1
SYMMETRY Interchangeable
INVARIANT TypeOK
INVARIANT PublishedIsComplete
INVARIANT SuccessIsDurable
INVARIANT FailureRetracts
INVARIANT LeftoversReported
PROPERTY ImplementsPublication
CHECK_DEADLOCK FALSE
