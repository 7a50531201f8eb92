SPECIFICATION QuietSpec
CONSTANTS
  Fds = {f1}
  TableSize = 4
  Slack = 0
  MaxBacklog = 1
  Master = Master
  None = None
PROPERTY InputReported
CHECK_DEADLOCK FALSE
