-------------------------- MODULE MCGroupCoordinator --------------------------
(* Model values and small bounds for GroupCoordinator and its handlers. *)
EXTENDS GroupHandlers
===============================================================================
