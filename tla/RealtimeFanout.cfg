CONSTANTS
  Cards = {c1}
  Panels = {p1}
  Sensors = {s1, s2}
  Wires = {"payload"}
  MaxTime = 2
  MaxFaults = 1
  MaxUnmounts = 1
  MaxQueue = 2
SPECIFICATION FairSpec
INVARIANTS
  TypeOK
  NoLeakedRoom
  ResyncAfterOutage
PROPERTIES
  ShownNeverBack
  CatchUp
  CardsRejoin
