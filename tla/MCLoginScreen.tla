--------------------------- MODULE MCLoginScreen ---------------------------
(* The login screen with frames of 0, 1, 3 and 4 seconds. *)
EXTENDS LoginScreen
=============================================================================
