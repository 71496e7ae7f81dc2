----------------------------- MODULE MCNetBoot -----------------------------
(***************************************************************************)
(* NetBoot with a network that raises a handful of events: a failed and a  *)
(* successful connection, a lost link, two addresses in turn.              *)
(***************************************************************************)
EXTENDS NetBoot
MCBuilds   == {"hub", "wifiNode"}
WifiOnly   == {"wifiNode"}
CableNodes == {"ethernetNode"}
=============================================================================
