\* Three files or directories besides the root; a window that shows one row.
CONSTANTS
  NumEntries = 4
  MaxRows = 2
  VisibleRows = 1
  MaxDepth = 2
  MaxText = 1
  Chars = {"a"}
  Words = {}
  MaxFolders = 3
  MaxFiles = 2
SPECIFICATION Spec
INVARIANTS
  RowsLive
  NavIntact
  EditorShowsItsFile
PROPERTIES
  DeletesTheChosen
