SPECIFICATION Spec
CONSTANTS
    MaxNodes = 4
    Positions <- EndsAndMiddle
INVARIANTS InOrder
CHECK_DEADLOCK FALSE
