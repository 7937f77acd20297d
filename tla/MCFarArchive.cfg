SPECIFICATION Spec
CONSTANTS
    MaxNodes = 4
    Positions <- Ends
INVARIANTS TypeOK InOrder NoneFreed EachOnce NoLeftover
CHECK_DEADLOCK FALSE
