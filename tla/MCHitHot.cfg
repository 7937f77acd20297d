SPECIFICATION Spec
CONSTANTS
    Hits        <- MCHits
    Capacity    = 2
    MaxLines    = 2
    Labels      = {"a"}
    MaxTokens   = 6
    SectionSize = 4
INVARIANTS
    HotUsed
CHECK_DEADLOCK FALSE
