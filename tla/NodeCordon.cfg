SPECIFICATION Spec
CONSTANTS
  c1 = c1
  c2 = c2
  c3 = c3
  r1 = r1
  r2 = r2
  Calls <- MCCalls
  Kind <- MCKind
  Rests <- MCRests
  MaxRev = 2
SYMMETRY MCSymmetry
INVARIANT TypeOK SuccessWasTrue
PROPERTY AtomicSpec PreviousIsReplaced
CHECK_DEADLOCK FALSE
