SPECIFICATION Spec
CONSTANTS
  main = main
  run = run
  deep = deep
  leaf = leaf
  lj = lj
  Funcs = {main, run, deep, leaf, lj}
  Jumper = lj
  Table = {main, run, deep, leaf}
  Programs <- MCPrograms
  Backends = {"engine", "aot"}
  Exports = {main, deep}
  MaxDepth = 4
  MaxSp = 4
INVARIANTS  SetIsLeastCover NoFrameMissed
PROPERTIES ImplementsSjlj JumpLands
CHECK_DEADLOCK FALSE
