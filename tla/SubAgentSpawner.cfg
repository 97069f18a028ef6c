SPECIFICATION Spec
CONSTANTS
  root = root
  s1 = s1
  s2 = s2
  s3 = s3
  s4 = s4
  s5 = s5
  Roots = {root}
  Calls = {s1, s2, s3, s4, s5}
  MaxDepth = 2
  MaxChildren = 2
  MaxInFlight = 2
INVARIANTS
  BoundedForest
  FanOutOvershoot
SYMMETRY CallSymmetry
CHECK_DEADLOCK FALSE
