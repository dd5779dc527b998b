SPECIFICATION Spec
CONSTANTS
  wasm = wasm
  data = data
  manifest = manifest
  Files <- MCFiles
  Data = data
  Procs = {p1, p2}
SYMMETRY Symmetry
INVARIANTS
  LooksCompleteIsWhole
  TornIsBeingWritten
