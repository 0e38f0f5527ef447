SPECIFICATION Spec
CONSTANTS
  del = del
  force = force
  new = new
  r1 = r1
  r2 = r2
  Calls <- MCCalls
  Kind <- MCKind
  ModuleReleases <- MCReleases
SYMMETRY MCSymmetry
INVARIANT TypeOK RefusedTruthfully
PROPERTY RaceOnlyWithNewcomers
