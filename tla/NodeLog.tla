------------------------------ MODULE NodeLog ------------------------------
(***************************************************************************)
(* What the table of sensor nodes promises, with no slots, no linear       *)
(* search and no ring: the first MaxNodes ids that send a reading are      *)
(* admitted for good, the last HistorySize readings of each are kept in    *)
(* the order of arrival, and a reading is refused only when it comes from  *)
(* an id that is not admitted while MaxNodes others are.                   *)
(***************************************************************************)
EXTENDS Naturals, Sequences, FiniteSets

CONSTANTS Ids, Samples, MaxNodes, HistorySize

VARIABLES log,      \* log[id]: the last readings of id, oldest first
          outcome   \* what became of the last reading

logVars == <<log, outcome>>

Admitted == {id \in Ids : log[id] # <<>>}

Latest(s, n) == IF Len(s) <= n THEN s ELSE SubSeq(s, Len(s) - n + 1, Len(s))

LogInit == log = [id \in Ids |-> <<>>] /\ outcome = "none"

Record(id, sample) ==
    /\ id \in Admitted \/ Cardinality(Admitted) < MaxNodes
    /\ log' = [log EXCEPT ![id] = Latest(Append(@, sample), HistorySize)]
    /\ outcome' = "stored"

Refuse(id) ==
    /\ id \notin Admitted
    /\ Cardinality(Admitted) = MaxNodes
    /\ outcome' = "refused"
    /\ UNCHANGED log

LogNext == \E id \in Ids : Refuse(id) \/ \E s \in Samples : Record(id, s)

LogSpec == LogInit /\ [][LogNext]_logVars
=============================================================================
