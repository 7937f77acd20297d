---------------------------- MODULE MCFarArchive ----------------------------
(* Archives of up to four entries. *)
EXTENDS FarArchive

\* The positions that mean an end of the list, the only ones the code passes
\* being -1, and one in the middle of it as well.
Ends == {-1, 0}
EndsAndMiddle == {-1, 0, 1}
=============================================================================
