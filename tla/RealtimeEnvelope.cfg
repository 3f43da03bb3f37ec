CONSTANTS
  Cards = {c1}
  Panels = {}
  Sensors = {s1}
  Wires = {"envelope"}
  MaxTime = 2
  MaxFaults = 0
  MaxUnmounts = 0
  MaxQueue = 3
SPECIFICATION Spec
PROPERTIES
  MatchingEventsUpdate
