SPECIFICATION Spec
CONSTANTS
  Admins = {a1}
  Supervisors = {v1}
  Subs = {s1, s2}
  Invocations = {i1, i2}
  MaxVersion = 3
SYMMETRY Symmetry
\* subs and versions are bounded
CHECK_DEADLOCK FALSE
INVARIANTS
  TypeOK
  LoginKept
  OneProfile
PROPERTIES
  DenyLasts
  SuspendedFrozen
