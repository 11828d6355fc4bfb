SPECIFICATION Spec
CONSTANTS
  Gangs = {g1, g2}
  Projects = {p1}
  Days = {d1}
  CashIds = {c1}
  Invocations = {i1, i2}
  MaxWage = 1
  MaxCash = 1
  MaxVersion = 4
  MaxAssign = 1
SYMMETRY Symmetry
\* a month whose ids are spent and registers paid accepts no more requests
CHECK_DEADLOCK FALSE
INVARIANTS
  TypeOK
  SettledOnce
  CashTotals
  WageTotals
PROPERTIES
  PaidRegisterStands
