SPECIFICATION FairSpec
CONSTANTS
    FrameLen = 2
    SendSpace = 3
    Requests = 3
    Pushes = 2
    Corrupt = 3
INVARIANTS AllKept NoEdgeLost
PROPERTIES StreamSpec EverythingSent FramesHandled PeerNoticed
CHECK_DEADLOCK FALSE
