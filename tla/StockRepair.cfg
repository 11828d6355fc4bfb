SPECIFICATION Spec
CONSTANTS
  Central = central
  Total = total
  Projects = {p1}
  RequestIds = {r1, r2}
  Indents = {m1}
  Invocations = {i1, i2}
  MaxQty = 1
  MaxVersion = 2
  Lease = 1
  MaxDelay = 1
  MaxTime = 2
  Drifts = {0, 1}
SYMMETRY Symmetry
\* request ids, versions and the clock are bounded
CHECK_DEADLOCK FALSE
INVARIANTS
  TypeOK
  StockCovered
  RepairComplete
PROPERTIES
  DriftOnlyRepaired
  OnlyStaleBatches
