SPECIFICATION Spec
CONSTANTS
  Users = {u1, u2}
  Pools = {p1, p2}
  Dsns = {d1, d2}
  Stmts = {s1, s2}
  MaxOpen = 2
  None = None
SYMMETRY Symmetry
INVARIANTS
  OneClusterPerDsn
  ToldKeptIsCommitted
  SessionIsOwned
CHECK_DEADLOCK FALSE
