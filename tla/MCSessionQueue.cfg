SPECIFICATION FairSpec
CONSTANTS
    None = None
    Requests = {r1, r2}
    MaxWakes = 1
    MaxTries = 2
    MaxStops = 1
    MaxFaults = 0
    MaxCrashes = 1
PROPERTY QueueMoves
CHECK_DEADLOCK FALSE
