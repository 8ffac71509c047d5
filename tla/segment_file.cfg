SPECIFICATION Spec
CONSTRAINT SharedBound
CONSTANTS
  Readers = {r1, r2}
  MaxOffset = 3
  MaxTears = 1
  Garbage = Garbage
INVARIANT AcknowledgedIntact
PROPERTIES
  ReadReturnsLog
  ReadsFinish
