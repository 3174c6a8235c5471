\* Four entries and the link, three events; the commands go round twice.
\* The run ends when the commands are used up.
CONSTANTS
  CmdTrbs = 5
  EvtTrbs = 3
  MaxCommands = 9
  MaxOthers = 2
SPECIFICATION RingSpec
CHECK_DEADLOCK FALSE
INVARIANTS
  CommandsOnceInOrder
  AnswersAreOwn
