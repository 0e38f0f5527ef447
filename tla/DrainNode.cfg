SPECIFICATION FairSpec
CONSTANTS
  p1 = p1
  p2 = p2
  Pods <- MCPods
  PodKind <- MCPodKind
  TimeoutSeconds = 0
  DefaultDrainTimeout = 1
  PollInterval = 1
  MaxTime = 2
  MaxUid = 1
  MaxRev = 1
INVARIANT TypeOK Accounting CountedAreLeaving OnlyLateBindingsRemain
INVARIANT TimedOutIffPending AtMostOneLateRound
PROPERTY DrainEnds
CHECK_DEADLOCK FALSE
