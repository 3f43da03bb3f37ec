CONSTANTS
  j1 = j1
  u1 = u1
  t1 = t1
  t2 = t2
  Tests = {t1, t2}
  Jobs = {j1}
  Units = {u1}
  JobUnit <- MCJobUnit
  Operators = {o1}
  MaxTime = 2
  Unit = u1
  Fixture <- MCFixture
SPECIFICATION DrawerSpec
INVARIANTS
  SelectionHasWindow
  WindowsSound
PROPERTIES
  ImplementsLifecycle
  DrawerCatchesUp
CHECK_DEADLOCK FALSE
