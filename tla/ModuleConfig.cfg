SPECIFICATION Spec
CONSTANTS
  toggle = toggle
  merge = merge
  empty = empty
  pause = pause
  a = a
  b = b
  r1 = r1
  Object = Object
  Null = Null
  Calls <- MCCalls
  Kind <- MCKind
  Keys <- MCKeys
  Paths <- MCPaths
  Scalars <- MCScalars
  Patch <- MCPatch
  Rests <- MCRests
  MaxRev = 1
INVARIANT TypeOK PreviousIsReplaced SuccessMeansWritten
PROPERTY AtomicSpec
CHECK_DEADLOCK FALSE
