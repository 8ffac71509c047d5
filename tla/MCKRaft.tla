------------------------------ MODULE MCKRaft ------------------------------
(* Model values and small bounds for KRaft.  Node ids are only compared. *)
EXTENDS KRaft, TLC

Symmetry == Permutations(Nodes)
============================================================================
