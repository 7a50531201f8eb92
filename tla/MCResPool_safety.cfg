SPECIFICATION Spec
CONSTANTS
  Resources = {r1, r2}
  Requests = {q1, q2, q3}
  PrivRequests = {p1}
  MaxRequests = 1
  PrivMax = 1
  MaxOps = 0
  MaxRefusals = 0
  ReleaseOutcomes <- AllOutcomes
  HasShutdownResources = FALSE
  Monitor = Monitor
  Dummy = Dummy
  None = None
SYMMETRY Symmetry
INVARIANTS TypeOK ResourceExclusive NoResourceLeak ReleaseNeverBlocks RequestInOnePlace
INVARIANTS PrivOvertakenOnce PrivFlagTellsRequest StopStartsAtMostOne
PROPERTY ImplementsAllocator
CHECK_DEADLOCK FALSE
