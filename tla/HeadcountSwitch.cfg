SPECIFICATION Spec
CONSTANTS
  Workers = {w1}
  Members = {w1}
  Projects = {p1}
  LastDay = 2
  DebitIds = {}
  AdvanceIds = {}
  ActionIds = {}
  Invocations = {i1, i2}
  MaxWage = 1
  MaxAmount = 1
  MaxVersion = 1
  MaxCycle = 1
SYMMETRY Symmetry
\* a month with spent ids and versions and a paid register accepts no more
CHECK_DEADLOCK FALSE
INVARIANTS
  HeadcountFollowsAttendance
