\* Two ports, two slots, three connections: the third one may find no slot.
CONSTANTS
  NumRootPorts = 2
  NumSlots = 2
  StableCount = 3
  CountCap = 4
  MaxPlugs = 3
SPECIFICATION PortsSpec
INVARIANTS
  SlotOfItsPort
PROPERTIES
  SeenDeviceTried
