---------------------------- MODULE MCIffFile ----------------------------
(* Files of up to two chunks, one of which is parsed. *)
EXTENDS IffFile

MCFormats == AllFormats
=============================================================================
