--------------------------- MODULE MCAdminSession ---------------------------
(* Two log-ins and two calls at once, through a trusted proxy. *)
EXTENDS AdminSession
=============================================================================
