SPECIFICATION Spec
CONSTANTS
  Keys = {k1, k2}
  NoKey = NoKey
  Values = {v}
  Empty = Empty
  MaxSegmentBytes = 2
  IndexIntervalBytes = 1
  RetentionMs = 0
  RetentionBytes = 3
  CompactionEnabled = TRUE
  MaxFetchBytes = 2
  MaxOffset = 5
  MaxClock = 0
  Faults = {"crash", "append", "rename", "swap"}
INVARIANTS
  OffsetsUnique
  KeyViewExact
  IndexSound
PROPERTIES
  LEOMonotone
  ImplementsCommitLog
