------------------------------ MODULE MCClient ------------------------------
(* The client with a keyboard of two keys. *)
EXTENDS Client
=============================================================================
