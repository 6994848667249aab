SPECIFICATION FairSpec
CONSTANTS
  Clients = {c1, c2}
  WsClients = {c2}
  MAXRECV = 1
  MaxBytes = 2
INVARIANT SetsMatchClients
PROPERTIES SelectCallbackOrder ShutdownNoticed 
CHECK_DEADLOCK FALSE
