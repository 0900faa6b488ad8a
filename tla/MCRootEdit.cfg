SPECIFICATION Spec
CONSTANTS
  f1 = f1
  f2 = f2
  t1 = t1
  t2 = t2
  FileSeq <- MCFileSeq
  TargetSeq <- MCTargetSeq
INVARIANT DoneIsInstalled
INVARIANT RefusedIsUntouched
INVARIANT PayloadBeforeHooks
INVARIANT PatchedIsLeftAlone
CHECK_DEADLOCK FALSE
