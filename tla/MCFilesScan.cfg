SPECIFICATION Spec
CONSTANTS
  a = a
  b = b
  Names = {a, b}
  Dots = {dot, dotdot}
  dot = dot
  dotdot = dotdot
  StdIn <- MCStdIn
  Byte = {1}
  Zero = 0
  MaxFd = 4
  MaxLen = 3
  Positions = {0, 1, 3}
  MinCap = 2
  Batch = 3
  WriteVecs <- MCWriteVecs
  ReadVecs <- MCReadVecs
  Gaps = {"long"}
PROPERTY ScanGivesEachOnce
