------------------------------- MODULE MCBroker -------------------------------
(***************************************************************************)
(* Broker with interchangeable connections, and interchangeable partitions *)
(* among those that nobody consumes and everybody may use.                 *)
(***************************************************************************)
EXTENDS Broker, TLC

Symmetry == Permutations(Connections)
            \cup Permutations(Partitions \ (Consumed \cup Denied \cup Invalid))
===============================================================================
