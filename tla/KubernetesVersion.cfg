SPECIFICATION FairSpec
CONSTANTS
  c1 = c1
  c2 = c2
  v1 = v1
  v2 = v2
  r1 = r1
  r2 = r2
  None = None
  Blank = Blank
  Calls <- MCCalls
  Versions <- MCVersions
  Rests <- MCRests
  Target <- MCTarget
  MaxRev = 3
CHECK_DEADLOCK FALSE
INVARIANT TypeOK ReportedIsReplaced ExhaustedOnlyUnderContention
PROPERTY AtomicSpec EveryCallEnds
