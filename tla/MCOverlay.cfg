SPECIFICATION Spec
CONSTANTS
  v1 = v1
  none = none
  lowerBytes = lowerBytes
  Paths <- MCPaths
  Lower <- MCLower
  LowerData <- MCLowerData
  Inodes = {1, 2}
  f1 = f1
  f2 = f2
  Fds <- MCFds
  Written = {v1}
  Empty = none
  Gaps = {}
INVARIANTS
  ListingIsLookup
PROPERTY ImplementsPlainFs
SYMMETRY FdSymmetry
