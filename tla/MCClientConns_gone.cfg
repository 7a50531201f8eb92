SPECIFICATION FairSpec
CONSTANTS
  Clients = {c1, c2}
  Fds = {3, 4, 5}
  MaxSockets = 2
  None = None
PROPERTY GoneIsForgotten
CHECK_DEADLOCK FALSE
