SPECIFICATION SeqSpec
CHECK_DEADLOCK FALSE
SYMMETRY Symmetry
CONSTRAINT RecordsOrTransactions
CONSTANTS
  TxIds = {t1}
  NoTxId = NoTxId
  Partitions = {p1, p2}
  Connections = {c1, c2}
  EpochLimit = 1
  MaxInits = 4
  MaxTxns = 2
  MaxSent = 3
  Faults = {"restart", "append"}
INVARIANTS
  CredentialsRecurLate
  MarkersAgree
  MarkerMatchesRegistration
  AppendedExactlyOnce
