\* Four slots, so three user tasks, and creations that may fail; line 3 has no
\* handler.
CONSTANTS
  MaxTasks = 4
  Quantum = 2
  KmallocMayFail = TRUE
  None = None
  Lines = {0, 1, 2, 3, 12}
  Boards <- MCBoards
SPECIFICATION MCSpec
INVARIANTS
  ProcessorOwner
  StackDiscipline
  RingIntact
  BoundedBypass
  LinesReachTheirHandler
  NoStrayVector
PROPERTIES
  TerminatedStays
  EveryReadyTaskRuns
  EveryIrqServed
\* the machine stops after a fatal exception
CHECK_DEADLOCK FALSE
