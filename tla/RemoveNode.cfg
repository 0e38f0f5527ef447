SPECIFICATION Spec
CONSTANTS
  p1 = p1
  m1 = m1
  d1 = d1
  Pods <- MCPods
  PodKind <- MCPodKind
  MaxUid = 1
  MaxRev = 2
INVARIANT TypeOK RemovedOnlyAfterDrain OnlyLateBindingsRemain
CHECK_DEADLOCK FALSE
