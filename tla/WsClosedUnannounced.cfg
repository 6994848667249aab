SPECIFICATION Spec
CONSTANTS
  Clients = {c1}
  WsClients = {c1}
  Fds = {f1}
  None = None
  MAXRECV = 1
  MAXEVENTS = 64
  MaxBytes = 1
  MaxRuns = 1
INVARIANT ClosedOnlyAfterHandshake
CHECK_DEADLOCK FALSE
