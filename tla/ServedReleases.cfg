SPECIFICATION Spec
CONSTANTS
  c1 = c1
  c2 = c2
  k1 = k1
  k2 = k2
  Calls <- MCCalls
  Clients <- MCClients
  ClientOf <- MCClientOf
  MaxOperators = 1
  shutdownTimeout = 2
  MaxStarts = 2
INVARIANT TypeOK PreviousAnnotation ReadYourApproval
PROPERTY CutOffOnlyAfterGrace AtMostOnceSpec ProcessEnds
CHECK_DEADLOCK FALSE
