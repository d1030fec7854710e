SPECIFICATION ReplaySpec
CONSTANTS
    Player = {p1, p2}
    Input = {1, 2}
    MaxFrames = 2
    MaxHistory = 4
    Ahead = 2
    FrameBound = 6
    InputBound = 3
    MaxSnapshots = 5
    Alpha = 5
SYMMETRY Symmetry
INVARIANTS PlayedAsSent ReplayExact ReconcileNears
PROPERTIES StoppedIsStill
CHECK_DEADLOCK FALSE
