----------------------------- MODULE MCReplication -----------------------------
(* Model values and small bounds for Replication. *)
EXTENDS Replication
================================================================================
