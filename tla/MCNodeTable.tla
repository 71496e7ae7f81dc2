---------------------------- MODULE MCNodeTable ----------------------------
(***************************************************************************)
(* Three ids for two slots and rings of three entries: the table fills up  *)
(* and every ring wraps around.                                            *)
(***************************************************************************)
EXTENDS NodeTable
MCTimes == {0}
=============================================================================
