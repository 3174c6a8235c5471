\* Two disks; two IDENTIFY and at least two reads or writes of two sectors.
\* The run ends when the calls are used up.
CONSTANTS
  NumPorts = 2
  Lbas = {0, 1}
  MaxCalls = 4
SPECIFICATION AhciSpec
CHECK_DEADLOCK FALSE
INVARIANTS
  OkMeansDone
PROPERTIES
  QuietAfterReturn
