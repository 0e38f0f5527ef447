SPECIFICATION ReadSpec
CONSTANTS
  n1 = n1
  n2 = n2
  g1 = g1
  ra = ra
  rb = rb
  p1 = p1
  p2 = p2
  p3 = p3
  p4 = p4
  m1 = m1
  x1 = x1
  x2 = x2
  s1 = s1
  None = None
  Nodes = {n1, n2}
  Groups = {g1}
  Roles = {ra, rb}
  Pods = {p1, p2, p3, p4}
  System = {p1, p2, p3}
  Labelled = {p1, p2}
  Modules = {m1}
  Releases = {x1, x2}
  Sources = {s1}
  Start <- MCStart
  MaxChanges = 2
INVARIANT AnswerRegular ErrorsJustified
CHECK_DEADLOCK FALSE
