CONSTANTS
  Sources <- OneSource
  Mappings <- OneMapping
  Bindings <- OneBinding
  CanonicalUnit <- OneTag
  Rules <- Rules1
  MaxFutureSkew = 5
  MaxLateWindow = 5
  Requests = {q1, q2}
  Samples <- RaceSamples
  Batches <- RaceBatches
  Clock = {1}
  ConflictOutcomes = {"aborts"}
  MaxSends = 3
  MaxFaults = 0
SPECIFICATION Spec
INVARIANT
  LatestIsNewest
CHECK_DEADLOCK FALSE
