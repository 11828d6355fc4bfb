SPECIFICATION Spec
CONSTANTS
  Cycles = {c1, c2}
  Pages = {p1, p2}
  Invocations = {i1, i2, i3}
  Lease = 0
  MaxTime = 2
SYMMETRY Symmetry
INVARIANTS
  RegisterComplete
  CleanedEmpty
PROPERTIES
  OneFate
  RegisterSpec
