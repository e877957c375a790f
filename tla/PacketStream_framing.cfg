SPECIFICATION FairSpec
CONSTANTS
    Ids <- MCIds
    Lengths <- MCLengths
    LengthBits = 2
    RECV_BUFFER_SIZE = 3
    MaxSends = 3
INVARIANTS TypeOK ParsedAsSent
PROPERTIES EveryPacketParsed StreamIsChannel
CHECK_DEADLOCK FALSE
