CONSTANTS
  Sources <- OneSource
  Mappings <- OneMapping
  Bindings <- OneBinding
  CanonicalUnit <- OneTag
  Rules <- Rules1
  MaxFutureSkew = 5
  MaxLateWindow = 5
  Requests = {q1, q2}
  Samples <- CollidingSamples
  Batches <- CollidingBatches
  Clock = {1}
  ConflictOutcomes = {"aborts", "survives"}
  MaxSends = 3
  MaxFaults = 1
  Charts <- SomeCharts
  RawUpTo = 3
  BucketLadder <- Ladder
  CoarseBucket = 3
  BucketsMax = 2
  RowLimit = 2
SPECIFICATION FairSpec
INVARIANTS
  TypeOK
  LatestUnlessRaced
  OneAlarmUnlessOverlap
  NoGhostEvents
  CreateRaceCostsFew
  ResendsNeverConflict
  TrendsComplete
  ChartEndsAtLive
PROPERTIES
  ImplementsLedger
  RequestsEnd
CHECK_DEADLOCK FALSE
