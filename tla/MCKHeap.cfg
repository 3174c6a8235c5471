\* Pages of 9 units: an arena of one page holds two blocks, of two pages five.
\* Tables of three entries: the identity map covers nine pages.
CONSTANTS
  NumPages = 8
  MaxRun = 2
  MemoryMaps <- MCMaps
  PageUnits = 9
  ArenaPages = 1
  Sizes = {1, 2, 9}
  Entries = 3
  Gibs = 1
  Regions <- MCRegions
SPECIFICATION MSpec
INVARIANTS
  PagesPartitioned
  AllocationsApart
  Tiling
  IdentityHolds
  TablesApart
