SPECIFICATION Spec
CONSTANTS
  Bills = {b1}
  Payments = {y1, y2}
  Expenses = {x1}
  Procurements = {s1}
  References = {f1}
  Invocations = {i1, i2}
  Submitted = {"pending"}
  MaxAmount = 1
  MaxWrites = 6
  MaxVersion = 3
  MaxProject = 2
SYMMETRY Symmetry
\* ids and versions are bounded
CHECK_DEADLOCK FALSE
INVARIANTS
  TypeOK
  BillCovered
  TotalsPosted
  UniqueReference
PROPERTIES
  ApprovedFixed
  ArchivedFrozen
