\* Four-byte packets, of which three are sent and one byte may be lost.
CONSTANTS
  MaxX = 1
  Imps2 = TRUE
  MaxPackets = 3
  MaxLost = 1
SPECIFICATION MouseSpec
CHECK_DEADLOCK FALSE
INVARIANTS
  NoPhantomClick
  ScrollNotInvented
  OffScreenOnlyWhilePending
PROPERTIES
  Settles
