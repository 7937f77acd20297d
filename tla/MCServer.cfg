SPECIFICATION Spec
CONSTANTS
    MaxQueue = 2
    MaxDatagrams = 3
    MaxSignals = 2
INVARIANTS TypeOK ClosedOnce
PROPERTIES Responsive Drained KilledClean
CHECK_DEADLOCK FALSE
