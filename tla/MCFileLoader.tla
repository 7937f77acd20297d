---------------------------- MODULE MCFileLoader ----------------------------
EXTENDS FileLoader

MCXAFrames  == {0, 1, 2, 27, 28, 29, 57}
MCXARooms   == 0 .. 64
MCUTKFrames == {0, 1, 433}
MCUTKRooms  == {0, 1, 2, 15}
MCRooms     == 0 .. 26
MCCSTFiles  == UNION {[1 .. n -> {"^", "c", "0"}] : n \in 0 .. 4}

(* Skip says what calls of ReadBits in a row do: one call and then m bits  *)
(* more is all of these bits.                                              *)
ASSUME SkipIsReadBits ==
    \A room \in 1 .. 4, n \in 1 .. 8, m \in 0 .. 16 :
        \A i \in 1 .. room, b \in 0 .. 15 :
            (i = room \/ b >= 8) =>
                LET r == [in |-> i, bits |-> b] IN
                Skip(room, ReadBits(room, r, n), m) = Skip(room, r, n + m)
=============================================================================
