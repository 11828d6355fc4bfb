SPECIFICATION AssignedSpec
CONSTANTS
  Gangs = {g1}
  Projects = {p1, p2}
  Days = {d1, d2}
  CashIds = {c1}
  Invocations = {i1, i2}
  MaxWage = 1
  MaxCash = 1
  MaxVersion = 6
  MaxAssign = 1
SYMMETRY Symmetry
\* a month whose ids are spent and registers paid accepts no more requests
CHECK_DEADLOCK FALSE
INVARIANTS
  AdvanceCovered
  SnapshotCurrent
  RegisterTotals
  ReservationHeld
