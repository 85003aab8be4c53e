SPECIFICATION LaneSpec
CONSTANTS
    Byte = {0, 1, 2, 3}
    SOF = 3
    HeaderBytes = 2
    MaxPayload = 2
    ResponseBytes = 2
    Frames <- MCFrames
    Checksum <- MCChecksum
INVARIANT TrailingBytesRejected
