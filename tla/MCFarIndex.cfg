SPECIFICATION Spec
CONSTANTS
    Word = 256
    NameLimit = 48
    MaxArguments = 3
    ArchiveSizes = {24, 84, 104}
    Counts <- MCCounts
    Offsets <- MCOffsets
    IndexSizes <- MCIndexSizes
    DataSizes <- MCDataSizes
    StreamSizes <- MCStreamSizes
    Names = {0, 24, 56}
INVARIANTS TypeOK CursorInStep InputExtent
CHECK_DEADLOCK FALSE
