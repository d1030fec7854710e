SPECIFICATION Spec
CONSTANTS
    Player = {p1}
    Input = {1}
    MaxFrames = 2
    MaxHistory = 4
    Ahead = 2
    FrameBound = 4
    InputBound = 4
INVARIANTS CatchUpAtMostTwo
CHECK_DEADLOCK FALSE
