SPECIFICATION Spec
CONSTANTS
  Conns = {c1, c2}
  Fds = {f1, f2}
  Workers = {w1, w2}
  None = None
  Foreign = {c2}
  mLocalHostOnly = TRUE
  MaxPieces = 3
  MaxUnits = 1
  MaxSize = 2
SYMMETRY Symmetry
INVARIANTS RequestsApart StrayIsOfClosed
CHECK_DEADLOCK FALSE
