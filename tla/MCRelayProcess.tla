--------------------------- MODULE MCRelayProcess ---------------------------
(* Three requests, a queue and a ring smaller than that, one restart. *)
EXTENDS RelayProcess
=============================================================================
