SPECIFICATION EarningSpec
CONSTANTS
  Workers = {w1}
  Members = {}
  Projects = {p1}
  LastDay = 1
  DebitIds = {}
  AdvanceIds = {a1, a2}
  ActionIds = {r1, r2}
  Invocations = {i1, i2}
  MaxWage = 2
  MaxAmount = 2
  MaxVersion = 2
  MaxCycle = 2
SYMMETRY Symmetry
\* a month with spent ids and versions and a paid register accepts no more
CHECK_DEADLOCK FALSE
INVARIANTS
  TypeOK
  AdvanceTotals
  RecoveryCurrent
  ClearedOnce
