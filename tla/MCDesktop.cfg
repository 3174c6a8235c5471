\* Ends with the session, or when the power button stops the machine.
\* A screen of 4 by 3 with two windows of 3 by 2; a ring of three slots.
CONSTANTS
  BufferSize = 3
  Keys = {"c", "enter", "back"}
  NoChar = NoChar
  ScreenW = 4
  ScreenH = 3
  BarRow = 0
  Names = {"info", "bash"}
  Shell = "bash"
  Place <- MCPlace
  Opener <- MCOpener
  PowerColumn = 3
  CommandMax = 3
  HistoryMax = 3
  ClearWord <- MCClear
  Enter = "enter"
  Backspace = "back"
  Printable = {"c"}
  Wheel <- MCWheel
SPECIFICATION MCSpec
INVARIANTS
  WindowsOnDesktop
  DragNeedsButton
  ScrollShowsALine
PROPERTIES
  RefinesFifo
CHECK_DEADLOCK FALSE
