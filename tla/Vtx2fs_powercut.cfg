CONSTANTS
  NumEntries = 3
  NumBlocks = 5
  DirectExtents = 1
  IndexExtents = 1
  Names = {"a", "b"}
  MaxLen = 2
  MaxOps = 3
  MaxCrashes = 1
  MaxErrors = 0
  MaxSecretOps = 0
SPECIFICATION Spec
INVARIANTS
  PowerCutSafe
\* a behaviour ends when its operations are used up
CHECK_DEADLOCK FALSE
