----------------------- MODULE MCTransactionCoordinator -----------------------
(* Model values, small bounds and symmetry for ProducerSequences: no           *)
(* definition names a transactional id, a partition or a connection.           *)
EXTENDS ProducerSequences, TLC

Symmetry == Permutations(TxIds) \cup Permutations(Partitions) \cup Permutations(Connections)

\* Bound: transactions and numbered records share only the producer ids, so no
\* behaviour is followed further that has both.
RecordsOrTransactions == sent = {} \/ registered = {}
===============================================================================
