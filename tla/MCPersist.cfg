SPECIFICATION Spec
CONSTANTS
  root = root
  PG_VERSION = PG_VERSION
  base = base
  heap = heap
  control = control
  Root = root
  Marker = PG_VERSION
  Essential <- MCEssential
  Paths <- MCPaths
  Rank <- MCRank
  Parent <- MCParent
  Dirs <- MCDirs
  Initial <- MCInitial
  Dbs = {d1, d2}
  MaxVersion = 0
SYMMETRY Symmetry
INVARIANTS
  SavedIsOnHost
  ReopenedIsSaved
PROPERTY SuccessIsSaved
