SPECIFICATION SearchSpec
CONSTANTS
  a = a
  b = b
  c = c
  gone = gone
  Nodes = {a, b, c}
  Missing = {gone}
INVARIANTS
  SearchIsExact
CHECK_DEADLOCK FALSE
