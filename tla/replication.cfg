SPECIFICATION Spec
CHECK_DEADLOCK FALSE
CONSTANTS
  Leader = l
  Followers = {f1}
  BatchSize = 1
  MaxOffset = 2
  MaxTasks = 2
INVARIANTS
  HighWatermarkReplicated
  FetchesContiguous
PROPERTIES
  HighWatermarkMonotone
  FollowersCatchUp
  StopReturns
