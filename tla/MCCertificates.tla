-------------------------- MODULE MCCertificates --------------------------
(* Two nodes; enough key pairs for both CAs, a second try and a relay. *)
EXTENDS Certificates
=============================================================================
