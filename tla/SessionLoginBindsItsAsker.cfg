SPECIFICATION Spec
CONSTANTS
    NoConn = NoConn
    NoPlayer = NoPlayer
    Fd = {f1, f2}
    Generation = {1, 2}
    Player = {p1, p2}
    MaxValue = 1
    MaxPending = 3
PROPERTY LoginBindsItsAsker
