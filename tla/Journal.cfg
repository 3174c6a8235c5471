\* Records of ten words in blocks of four: three fit, and they straddle blocks.
CONSTANTS
  BlockWords = 4
  JournalBlocks = 8
  Targets = {t1, t2}
  MaxTxns = 5
  MaxCrashes = 2
  MaxErrors = 1
SPECIFICATION Spec
INVARIANTS
  OnlyWholeImages
PROPERTIES
  MountKeepsLatest
\* a behaviour ends when its transactions and crashes are used up
CHECK_DEADLOCK FALSE
