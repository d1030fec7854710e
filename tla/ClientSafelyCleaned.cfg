SPECIFICATION GameSpec
CONSTANTS
    Clients = 2
    MaxFaults = 0
    Modes = {"ramp"}
    Leaving = {}
    MaxCalls = 1
INVARIANT SafelyCleaned
CHECK_DEADLOCK FALSE
