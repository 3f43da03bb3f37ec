CONSTANTS
  Sockets <- MCSockets
  None = None
  MaxStops = 2
  MaxFaults = 3
SPECIFICATION FairSpec
INVARIANTS
  TypeOK
  PendingReconnectAlone
  HeldIsWatched
  ZombiesWereOrphaned
  StatusHonestUnlessOrphaned
PROPERTIES
  Recovers
CHECK_DEADLOCK FALSE
