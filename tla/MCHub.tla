------------------------------- MODULE MCHub -------------------------------
(***************************************************************************)
(* A small instance of Hub: requests from two nodes, one with the id "a"   *)
(* and one without an id, for a table of one or two slots.                 *)
(***************************************************************************)
EXTENDS Hub

CONSTANTS a, pre, zero, warm, welcome, temperature

MCChars == {a, pre}
MCTexts == {"21.5", "0.0"}
MCTemps == {zero, warm}
MCAtoF  == [t \in MCTexts |-> IF t = "21.5" THEN warm ELSE zero]
MCTabs  == {welcome, temperature}
WithId  == [query |-> <<pre, pre, pre, a>>, payload |-> "21.5"]
NoId    == [query |-> NoQuery, payload |-> "21.5"]
Colder  == [query |-> <<pre, pre, pre, a>>, payload |-> "0.0"]
TwoNodes == {WithId, NoId}
TwoTemps == {WithId, Colder}
OneNode  == {WithId}
\* Two nodes whose ids are too long for the option and differ at the end, as
\* those of scripts/coap_client_send_temperature.py: "ESP32_0000", "ESP32_0001".
LongIds  == {[query |-> <<pre, pre, pre, a, last>>, payload |-> "21.5"] :
                last \in {a, pre}}
=============================================================================
