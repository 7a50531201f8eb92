SPECIFICATION FairSpec
CONSTANTS
  Fds = {f1, f2, f3}
  TableSize = 4
  Slack = 0
  MaxBacklog = 1
  Master = Master
  None = None
INVARIANTS TypeOK WatchedOnce
PROPERTIES NoSlotWasted InputReportedOrError ImplementsPollSet
CHECK_DEADLOCK FALSE
