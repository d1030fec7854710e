SPECIFICATION Spec
CONSTANTS
    FrameLen = 2
    SendSpace = 1
    Requests = 1
    Pushes = 1
    Corrupt = 0
INVARIANT NoUseAfterDelete
CHECK_DEADLOCK FALSE
