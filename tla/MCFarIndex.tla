---------------------------- MODULE MCFarIndex ----------------------------
(* Files of up to two entries, with integers of eight bits. *)
EXTENDS FarIndex

\* One more entry than MAX_ENTRIES_DBPF is 13, whose size wraps to 4.
MCCounts == {0, 1, 2, 13}
MCIndexSizes == {4, 20, 40}
MCOffsets == {16, 64, 240}

MCDataSizes == {0, 27, 30}

\* What the Persist headers of entries of 27 and 30 bytes give, and what wraps
\* for one of 0 bytes.
MCStreamSizes == {18, 21, 247}
=============================================================================
