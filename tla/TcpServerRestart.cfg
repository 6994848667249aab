SPECIFICATION Spec
CONSTANTS
  Clients = {c1, c2}
  WsClients = {c2}
  Fds = {f1}
  None = None
  MAXRECV = 1
  MAXEVENTS = 2
  MaxBytes = 1
  MaxRuns = 2
INVARIANTS StoppedClean WakeupsKept
CHECK_DEADLOCK FALSE
