SPECIFICATION Spec
CONSTANTS
  FileSize = 3
  Byte = {0, 1}
  MaxHunks = 2
INVARIANT ResultIsPatched
INVARIANT AcceptsOnlyMixtures
INVARIANT RefusesNoMixture
CHECK_DEADLOCK FALSE
