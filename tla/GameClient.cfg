SPECIFICATION FairGameSpec
CONSTANTS
    Clients = 2
    MaxFaults = 1
    Modes = {"single", "ramp", "steady", "chaos", "framesync", "match"}
    Leaving = {"single"}
    MaxCalls = 4
INVARIANTS AnswersMatch OwnSocketOnly NoSocketLeft ReporterKeepsClient
PROPERTIES ModeEnds
CHECK_DEADLOCK FALSE
