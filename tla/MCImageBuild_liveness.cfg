SPECIFICATION FairSpec
CONSTANTS
  b1 = b1
  b2 = b2
  Builders = {b1, b2}
  Foreign = Foreign
  NoFile = NoFile
  MaxFaults = 0
PROPERTY Terminates
CHECK_DEADLOCK FALSE
