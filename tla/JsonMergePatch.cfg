SPECIFICATION MergeSpec
CONSTANTS
  Keys = {k1, k2}
  Paths <- MCPaths
  Scalars = {s1, s2}
  Object = Object
  Null = Null
INVARIANT MatchesRFC7396
CHECK_DEADLOCK FALSE
SYMMETRY MCSymmetry
