---------------------------- MODULE MCPartitionLog ----------------------------
(* Model values and small bounds for PartitionLog. *)
EXTENDS PartitionLog
===============================================================================
