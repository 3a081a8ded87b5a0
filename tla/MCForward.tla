----------------------------- MODULE MCForward -----------------------------
(* Forward is finite for any constants; this module only names them for TLC. *)
EXTENDS Forward, TLC
=============================================================================
