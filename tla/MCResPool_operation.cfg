SPECIFICATION FairSpec
CONSTANTS
  Resources = {r1, r2}
  Requests = {q1}
  PrivRequests = {p1}
  MaxRequests = 1
  PrivMax = 1
  MaxOps = 1
  MaxRefusals = 0
  ReleaseOutcomes <- SaneOrGone
  HasShutdownResources = TRUE
  Monitor = Monitor
  Dummy = Dummy
  None = None
INVARIANTS OperationReachesAll
PROPERTY RequestServed
CHECK_DEADLOCK FALSE
