SPECIFICATION FairSpec
CONSTANTS
  Resources = {r1}
  Requests = {q1}
  PrivRequests = {p1}
  MaxRequests = 0
  PrivMax = 1
  MaxOps = 0
  MaxRefusals = 0
  ReleaseOutcomes <- OnlySane
  HasShutdownResources = FALSE
  Monitor = Monitor
  Dummy = Dummy
  None = None
PROPERTY MonitorExits
CHECK_DEADLOCK FALSE
