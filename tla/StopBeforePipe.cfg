SPECIFICATION FairSpec
CONSTANTS
  Clients = {c1}
  WsClients = {}
  Fds = {f1}
  None = None
  MAXRECV = 1
  MAXEVENTS = 64
  MaxBytes = 0
  MaxRuns = 1
PROPERTY StopReturns
CHECK_DEADLOCK FALSE
