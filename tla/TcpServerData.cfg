SPECIFICATION Spec
CONSTANTS
  Clients = {c1, c2}
  WsClients = {c2}
  Fds = {f1}
  None = None
  MAXRECV = 1
  MAXEVENTS = 64
  MaxBytes = 2
  MaxRuns = 1
INVARIANTS TypeOK TableConsistent CallbackOrder ClosedForCause
CHECK_DEADLOCK FALSE
