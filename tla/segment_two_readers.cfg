SPECIFICATION Spec
CONSTANTS
  Readers = {r1, r2}
  MaxOffset = 3
  MaxTears = 0
  Garbage = Garbage
INVARIANT AppendOnly
