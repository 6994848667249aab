SPECIFICATION FairSpec
CONSTANTS
  Clients = {c1, c2}
  WsClients = {}
  Fds = {f1, f2}
  None = None
  MAXRECV = 1
  MAXEVENTS = 1
  MaxBytes = 0
  MaxRuns = 1
INVARIANT BacklogKept
PROPERTIES StopWithPipeReturns ResetIsNoticed AcceptedOrEnded
CHECK_DEADLOCK FALSE
