SPECIFICATION Spec
CONSTANTS
    NoConn = NoConn
    NoPlayer = NoPlayer
    Fd = {f1, f2}
    Generation = {1}
    Player = {p1, p2}
    MaxValue = 1
    MaxPending = 2
SYMMETRY Symmetry
INVARIANTS TypeOK NoDanglingConn ConnLeadsToPlayer OnlineIsRegistered FdMapExact LeaversSaved
PROPERTIES RestoredOnLogin LeavesWithOwnConnection
