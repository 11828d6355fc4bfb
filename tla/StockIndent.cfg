SPECIFICATION Spec
CONSTANTS
  Central = central
  Total = total
  Projects = {p1}
  RequestIds = {r1, r2}
  Indents = {m1}
  Invocations = {i1, i2}
  MaxQty = 1
  MaxVersion = 3
  Lease = 0
  MaxDelay = 0
  MaxTime = 0
  Drifts = {0}
SYMMETRY Symmetry
\* request ids, versions and the clock are bounded
CHECK_DEADLOCK FALSE
PROPERTIES
  IssuedStays
