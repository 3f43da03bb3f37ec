CONSTANTS
  Sockets <- MCSockets
  None = None
  MaxStops = 1
  MaxFaults = 0
SPECIFICATION Spec
INVARIANT
  NoZombies
CHECK_DEADLOCK FALSE
