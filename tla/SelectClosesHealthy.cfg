SPECIFICATION Spec
CONSTANTS
  Clients = {c1, c2}
  WsClients = {}
  MAXRECV = 1
  MaxBytes = 2
INVARIANT ClosedByClient
CHECK_DEADLOCK FALSE
