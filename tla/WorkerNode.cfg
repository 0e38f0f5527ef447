SPECIFICATION FairSpec
CONSTANTS
  a1 = a1
  a2 = a2
  w = w
  Someone = Someone
  None = None
  Calls <- MCCalls
  Kind <- MCKind
  Timeout <- MCTimeout
  pollInterval = 1
INVARIANT TypeOK CredsAreOwn AnswerMatchesPhase OverrunBounded
PROPERTY WaitEnds
CHECK_DEADLOCK FALSE
