----------------------------- MODULE MCRefPack -----------------------------
(* A small instance of RefPack for TLC. *)
EXTENDS RefPack

\* Two-byte opcodes of 1, 0 and 2 literals with references of 3, 5 and 10 bytes, a
\* three-byte one (4 bytes), a four-byte one (5 and more), a run of four
\* literals, and the stop opcodes with 0 and 1 literals.
MCFirstByte == {1, 8, 30, 128, 192, 224, 252, 253}

\* Offsets 1, 2, 3, ones beyond the output, and (64) one literal in a
\* three-byte opcode.
MCNextByte == {0, 1, 2, 64}
=============================================================================
