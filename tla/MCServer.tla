------------------------------ MODULE MCServer ------------------------------
(* The daemon with a socket that buffers two datagrams. *)
EXTENDS Server
=============================================================================
