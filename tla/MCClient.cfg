SPECIFICATION Spec
CONSTANTS
    Keys = {k1, k2}
INVARIANTS TypeOK Handshake ReleaseOrder CleanExit ExitTells
PROPERTIES Leaves
CHECK_DEADLOCK FALSE
