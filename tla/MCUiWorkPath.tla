---------------------------- MODULE MCUiWorkPath ----------------------------
(***************************************************************************)
(* A small instance of UiWorkPath: ids of at most one character, a pool    *)
(* and a queue that both fill up.  One request is as a node sends it; the  *)
(* other has an option shorter than "id=" and no payload, so that the      *)
(* handler reads what it never wrote.  One character is enough: ids differ *)
(* in their length.                                                        *)
(***************************************************************************)
EXTENDS UiWorkPath

CONSTANTS a, warm

MCChars  == {a}
MCTexts  == {"21.5"}
MCAtoF   == [t \in MCTexts |-> warm]
OneTemp  == {warm}
MCRequests == {[query |-> <<a, a, a, a>>, payload |-> "21.5"],
               [query |-> <<a, a>>, payload |-> NoPayload]}
=============================================================================
