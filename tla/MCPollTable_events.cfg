SPECIFICATION Spec
CONSTANTS
  Fds = {f1, f2, f3}
  TableSize = 6
  Slack = 1
  MaxBacklog = 1
  Master = Master
  None = None
PROPERTY EventsAreReal
CHECK_DEADLOCK FALSE
