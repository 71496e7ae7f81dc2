----------------------------- MODULE MCHomeHub -----------------------------
(***************************************************************************)
(* Two nodes of one vendor (their addresses differ in the last byte) and a *)
(* hub with room for two readings everywhere.  The sensor of one node      *)
(* measures half a degree: it sends 0.0 before its first sample and 0.50   *)
(* after it.  The other node has none and sends 0.0.                       *)
(* Ids and options have the sizes they have in the code.                   *)
(***************************************************************************)
EXTENDS HomeHub

CONSTANTS n1, n2

MCNodes   == {n1, n2}
MCMac     == [n \in MCNodes |-> <<0, 128, 225, 0, 0, IF n = n1 THEN 1 ELSE 2>>]
MCReports == [n \in MCNodes |-> IF n = n1 THEN 2 ELSE 1]
MCSensors == {n1}
MCMeasurable == {500}
MCFaults == [lost |-> 1, duplicated |-> 0, pollError |-> 0]
=============================================================================
