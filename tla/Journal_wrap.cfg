\* Two records fit.
CONSTANTS
  BlockWords = 4
  JournalBlocks = 5
  Targets = {t1, t2}
  MaxTxns = 4
  MaxCrashes = 1
  MaxErrors = 0
SPECIFICATION Spec
PROPERTIES
  MountAlwaysKeepsLatest
\* a behaviour ends when its transactions and crashes are used up
CHECK_DEADLOCK FALSE
