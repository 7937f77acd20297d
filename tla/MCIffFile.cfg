SPECIFICATION Spec
CONSTANTS
    Word = 128
    Formats <- MCFormats
    Sizes = {0, 1, 5, 12, 13, 26, 50}
    Angles = 1
    Lengths = {0, 2}
    MaxElements = 2
    Dimensions = {2}
    SpriteSizes = {7, 22}
    Offsets = {4, 25, 30}
    MaxChunks = 2
INVARIANTS TypeOK StreamInside Owned
CHECK_DEADLOCK FALSE
