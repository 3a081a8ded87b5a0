---------------------------- MODULE MCConnector ----------------------------
(* The connector with a primary and a backup relay. *)
EXTENDS Connector
=============================================================================
