------------------------------ MODULE MCLocalE2E ------------------------------
(***************************************************************************)
(* LocalE2E; its constants are numbers the configuration gives.            *)
(***************************************************************************)
EXTENDS LocalE2E
=============================================================================
