SPECIFICATION FairSpec
CONSTANTS
    Pools = {{w1}, {w1, w2}}
    MaxTasks = 3
INVARIANTS SceneSaved
PROPERTIES TasksSpec StopReturns
CHECK_DEADLOCK FALSE
