------------------------------ MODULE MCServer ------------------------------
(* Model values and small bounds for Server. *)
EXTENDS Server

\* Bound: clients and viewers do not connect in the same behaviour.  They share
\* nothing but the process.
ClientsOrViewers == (\A c \in Clients : conn[c] = "away") \/ (\A v \in Viewers : socket[v] = "away")
=============================================================================
