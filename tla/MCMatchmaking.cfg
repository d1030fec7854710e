SPECIFICATION MatchSpec
CONSTANTS
    Player = {a, b}
    Fd = {f, g}
    NoFd = NoFd
    NoPlayer = NoPlayer
    Capacities = {1, 2}
    MaxRooms = 2
    Score = {1, 2}
    RangeInit = 0
    RangePerSec = 1
    MaxWait = 1
SYMMETRY Symmetry
INVARIANTS TypeOK MapMatchesRooms ListedOnce FramesFollowGame QueueInOrder NoGhosts
PROPERTIES NeverReopens MatchedMeet
