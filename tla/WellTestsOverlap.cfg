CONSTANTS
  j1 = j1
  j2 = j2
  u1 = u1
  u2 = u2
  Tests = {t1, t2}
  Jobs = {j1}
  Units = {u1}
  JobUnit <- OneUnitEach
  Operators = {o1, o2}
  MaxTime = 2
SPECIFICATION Spec
SYMMETRY Symmetry
INVARIANT
  OneActivePerUnit
CHECK_DEADLOCK FALSE
