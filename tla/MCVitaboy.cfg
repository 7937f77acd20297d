SPECIFICATION Spec
CONSTANTS
    Sims         <- MCSims
    MeshActivate <- MCActivate
    Deltas       <- MCDeltas
    StackDepth   = 3
    Counts       = {0, 1, 2}
    Entries      = {0, 1, 2, 86}
    Word         = 1024
    Lengths      = {0, 3}
INVARIANTS
    FileInOrder
    InContext
    Placed
    FramesInside
CHECK_DEADLOCK FALSE
