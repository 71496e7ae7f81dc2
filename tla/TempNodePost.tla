---------------------------- MODULE TempNodePost ----------------------------
(***************************************************************************)
(* What temp_node_post (apps/hub/src/coap_server.c) makes of one CoAP POST *)
(* request: the message it hands to ui_update_submit.  A request is a      *)
(* URI-Query option, a sequence of characters such as "id=A1B2", and a     *)
(* payload text.  The operator Posted gives the SET of messages the built  *)
(* program may produce, because the handler reads memory it never wrote    *)
(* when the option is shorter than "id=" and when the payload is missing.  *)
(***************************************************************************)
EXTENDS Integers, Sequences

CONSTANTS
    Chars,             \* the characters of an option value
    Texts,             \* payload texts, as the node writes them
    Temps,             \* temperatures (values of a C float)
    AtoF,              \* the C library's atof on the payload texts
    NODE_ID_LEN,       \* size of a node_id buffer, its final NUL included
    OPTION_VALUE_LEN,  \* bytes struct coap_option can hold
    SIZE_MOD,          \* 2^(width of size_t)
    NoQuery,           \* the request carries no URI-Query option
    NoPayload          \* the request carries no payload

ASSUME PostAssumption ==
    /\ NODE_ID_LEN \in Nat \ {0}
    /\ OPTION_VALUE_LEN \in Nat
    /\ SIZE_MOD \in Nat
    /\ SIZE_MOD > NODE_ID_LEN + 3
    /\ SIZE_MOD > OPTION_VALUE_LEN
    /\ AtoF \in [Texts -> Temps]
    /\ NoPayload \notin Texts

PrefixLen == 3   \* "id=" is skipped without being looked at

\* Strings that fit a node_id buffer with their final NUL.
NodeIds == UNION {[1..n -> Chars] : n \in 0..(NODE_ID_LEN - 1)}

\* coap_find_options: an option that does not fit struct coap_option is an
\* error, which the handler treats as an option that is not there.
HasQuery(query) == query # NoQuery /\ Len(query) <= OPTION_VALUE_LEN

\* MIN(query_opt.len - 3, sizeof(node_id) - 1): the comparison is made in
\* size_t, where len - 3 wraps around for an option shorter than 3.
CopyLen(len) ==
    LET wanted == IF len >= PrefixLen THEN len - PrefixLen
                  ELSE SIZE_MOD + len - PrefixLen
    IN  IF wanted < NODE_ID_LEN - 1 THEN wanted ELSE NODE_ID_LEN - 1

\* The node ids the handler may extract.  From a short option it copies bytes
\* of query_opt.value that were never written, up to the first NUL in them.
ExtractedIds(query) ==
    LET n == CopyLen(Len(query))
    IN  IF ~HasQuery(query) THEN {<<>>}
        ELSE IF Len(query) < PrefixLen THEN UNION {[1..k -> Chars] : k \in 0..n}
        ELSE {[k \in 1..n |-> query[k + PrefixLen]]}

\* atof(payload_str); payload_str is never written when there is no payload.
ParsedTemps(payload) == IF payload = NoPayload THEN Temps ELSE {AtoF[payload]}

\* The messages ui_update_submit may receive for a request handled at "now".
Posted(request, now) ==
    {[id |-> i, temp |-> t, time |-> now] :
        i \in ExtractedIds(request.query), t \in ParsedTemps(request.payload)}
=============================================================================
