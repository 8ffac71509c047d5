SPECIFICATION Spec
CONSTANTS
  Keys = {k1}
  NoKey = NoKey
  Values = {v}
  Empty = Empty
  MaxSegmentBytes = 2
  IndexIntervalBytes = 1
  RetentionMs = 1
  RetentionBytes = 3
  CompactionEnabled = TRUE
  MaxFetchBytes = 2
  MaxOffset = 5
  MaxClock = 2
  Faults = {}
INVARIANTS
  ReadComplete
  FetchProgress
PROPERTIES
  SizeRetentionJustified
  CycleCompletes
  SizeRetentionConverges
  TimeRetentionConverges
