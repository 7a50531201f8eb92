SPECIFICATION Spec
CONSTANTS
  Resources = {r1, r2}
  Requests = {q1, q2}
  PrivRequests = {p1}
  MaxRequests = 0
  PrivMax = 1
  MaxOps = 1
  MaxRefusals = 1
  ReleaseOutcomes <- OnlySane
  HasShutdownResources = TRUE
  Monitor = Monitor
  Dummy = Dummy
  None = None
PROPERTY RefusalIsTruthful
CHECK_DEADLOCK FALSE
