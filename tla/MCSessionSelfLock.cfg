SPECIFICATION Spec
CONSTANTS
    None = None
    Requests = {r1, r2}
    MaxWakes = 2
    MaxTries = 2
    MaxStops = 0
    MaxFaults = 1
    MaxCrashes = 0
SYMMETRY RequestSymmetry
INVARIANT NoSelfLock
CHECK_DEADLOCK FALSE
