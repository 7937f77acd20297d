----------------------------- MODULE MCHitTools -----------------------------
EXTENDS HitTools

\* Without a symbol table; with one at the start, in the middle and at the end,
\* of no, of one and of two entries, at and off the steps of eight; without an
\* end; with one before its start, alone and with another behind; and with so
\* little behind ENTP that the table is not looked at.
Binary(s, p, e) == [size |-> s, ENTP |-> p, EENT |-> e]
MCHits == {
    Binary(16, 0, {}), Binary(26, 0, {}), Binary(24, 16, {20}), Binary(24, 20, {}), Binary(26, 18, {}),
    Binary(32, 16, {28}), Binary(32, 20, {24}), Binary(36, 20, {32}), Binary(40, 16, {36}), Binary(40, 16, {28}),
    Binary(44, 20, {40}), Binary(44, 28, {32}), Binary(37, 17, {29}), Binary(40, 21, {36}),
    Binary(44, 20, {16}), Binary(40, 20, {16, 24}), Binary(48, 24, {16, 28}), Binary(32, 0, {24}) }
=============================================================================
