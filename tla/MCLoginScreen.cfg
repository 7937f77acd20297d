SPECIFICATION SceneSpec
CONSTANTS
    TimeDeltas = {0, 1, 3, 4}
INVARIANTS Owned SamplesOutlast
CHECK_DEADLOCK FALSE
