SPECIFICATION Spec
CONSTANTS
    None = None
    Packages = {p1, p2}
    First = p1
    Hosts = {n1, n2}
    Callers = {c1, c2}
    TripAfter = 1
    MaxOps = 2
    MaxFaults = 1
INVARIANTS ProbeReports
CHECK_DEADLOCK FALSE
