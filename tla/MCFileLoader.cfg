SPECIFICATION LoadSpec
CONSTANTS
    XAFrames   <- MCXAFrames
    XAChannels = {1, 2}
    XARooms    <- MCXARooms
    UTKFrames  <- MCUTKFrames
    UTKRooms   <- MCUTKRooms
    Widths     = {1, 2, 3, 4}
    Heights    = {1, 2}
    BMPRooms   <- MCRooms
    WAVRooms   <- MCRooms
    CSTFiles   <- MCCSTFiles
INVARIANTS
    Inside
    Settled
PROPERTY
    Ends
CHECK_DEADLOCK FALSE
