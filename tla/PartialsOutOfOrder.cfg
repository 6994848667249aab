SPECIFICATION Spec
CONSTANTS
  Conns = {c1}
  Fds = {f1}
  Workers = {w1, w2}
  None = None
  Foreign = {}
  mLocalHostOnly = FALSE
  MaxPieces = 3
  MaxUnits = 1
  MaxSize = 2
INVARIANT BodyInOrder
CHECK_DEADLOCK FALSE
