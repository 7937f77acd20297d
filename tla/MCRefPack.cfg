SPECIFICATION Spec
CONSTANTS
    CompressedSizes = {0, 6, 9, 10}
    DecompressedSizes = {0, 4, 11, 13}
    HNSV = 0
    FirstByte <- MCFirstByte
    NextByte <- MCNextByte
    LiteralByte = {7, 8}
    Unset = Unset
INVARIANTS TypeOK Accounting CopyDisjoint RepeatsHistory FewCopies OkIsComplete
PROPERTIES ImplementsLZ77
CHECK_DEADLOCK FALSE
