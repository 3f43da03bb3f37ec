CONSTANTS
  Cards = {c1}
  Panels = {p1}
  Sensors = {s1}
  Wires = {"payload"}
  MaxTime = 1
  MaxFaults = 0
  MaxUnmounts = 1
  MaxQueue = 3
SPECIFICATION Spec
INVARIANTS
  SubscribersAreJoined
