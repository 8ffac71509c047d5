SPECIFICATION Spec
CONSTANTS
  Keys = {k1, k2}
  NoKey = NoKey
  Values = {v}
  Empty = Empty
  MaxSegmentBytes = 2
  IndexIntervalBytes = 1
  RetentionMs = 0
  RetentionBytes = 0
  CompactionEnabled = TRUE
  MaxFetchBytes = 2
  MaxOffset = 4
  MaxClock = 0
  Faults = {"crash"}
INVARIANT ReadComplete
