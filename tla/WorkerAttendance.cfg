SPECIFICATION Spec
CONSTANTS
  Workers = {w1}
  Members = {}
  Projects = {p1, p2}
  LastDay = 1
  DebitIds = {x1}
  AdvanceIds = {}
  ActionIds = {}
  Invocations = {i1, i2}
  MaxWage = 1
  MaxAmount = 1
  MaxVersion = 2
  MaxCycle = 2
SYMMETRY Symmetry
\* a month with spent ids and versions and a paid register accepts no more
CHECK_DEADLOCK FALSE
INVARIANTS
  OneProjectPerDate
  EntriesCurrent
