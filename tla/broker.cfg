SPECIFICATION Spec
CONSTANTS
  Connections = {c1, c2}
  Partitions = {p1, p2, p3}
  Consumed = {p1}
  Denied = {}
  Invalid = {}
  MaxPartitions = 2
  MaxFetch = 1
  MaxRecords = 3
  Faults = {"open", "read", "append", "crash"}
INVARIANTS
  OffsetsNeverShared
  PartitionsCapped
  AckNamesBatch
  HighWatermarkCovers
  CommittedWasDelivered
SYMMETRY Symmetry
