----------------------------- MODULE MCTempNode -----------------------------
(***************************************************************************)
(* TempNode for one node (nodes share nothing but the fault budget), two   *)
(* requests and one fault of each kind.  The samples are -1.05 and -0.95   *)
(* degrees: less than a degree apart, with different whole parts, one with *)
(* a leading zero in its decimals, and one whose sign is not that of its   *)
(* whole part; and 0, which stands for a sample that was not decoded.      *)
(***************************************************************************)
EXTENDS TempNode

CONSTANT n1

MCNodes   == {n1}
MCSamples == {-1050, -950, 0}
MCFaults  == [f \in Faults |-> 1]
=============================================================================
