SPECIFICATION FairGameSpec
CONSTANTS
    Clients = 1
    MaxFaults = 1
    Modes = {"single"}
    Leaving = {}
    MaxCalls = 1
PROPERTY StopIsHeard
CHECK_DEADLOCK FALSE
