SPECIFICATION Spec
CONSTANTS
  p1 = p1
  p2 = p2
  Pods <- MCPods
  PodKind <- MCPodKind
  TimeoutSeconds = 2
  DefaultDrainTimeout = 5
  PollInterval = 1
  MaxTime = 3
  MaxUid = 1
  MaxRev = 1
INVARIANT EvictsFromNodeOnly
CHECK_DEADLOCK FALSE
