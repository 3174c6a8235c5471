CONSTANTS
  NumEntries = 3
  NumBlocks = 5
  DirectExtents = 1
  IndexExtents = 1
  Names = {a, b}
  MaxLen = 2
  MaxOps = 5
  MaxCrashes = 1
  MaxErrors = 1
  MaxSecretOps = 3
SYMMETRY MCSymmetry
SPECIFICATION Spec
INVARIANTS
  TreeIntact
  NoSharedBlocks
  ReadsBack
  NoLeak
  SecretsSealed
PROPERTIES
  RefinesFileStore
\* a behaviour ends when its operations are used up
CHECK_DEADLOCK FALSE
