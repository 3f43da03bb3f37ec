CONSTANTS
  a = a
  b = b
  disabled = disabled
  bare = bare
  unit1 = unit1
  unit2 = unit2
  null = null
  Keys <- MCKeys
  Mapped <- MCMapped
  Enabled <- MCEnabled
  JobOf <- MCJobOf
  Values <- MCValues
  NoValue = null
  Undefined = none
  NoReading = none
  Defaults <- MCDefaults
  Overrides <- MCOverrides
  Thresholds <- MCThresholds
  Profile <- MCProfile
  Emits <- MCEmits
  Capacity = 2
  MaxCleared = 1
  MaxTime = 4
  MaxAcks = 1
SPECIFICATION Spec
INVARIANTS
  TypeOK
  RuntimeHonest
  ScreenCurrent
  ViewsAgree
  CenterCurrent
  AckShown
  NeverReopened
  HistoryBounded
PROPERTIES
  KeepsLastReadings
  SilenceSurfaces
