SPECIFICATION FairSpec
CONSTANTS
    None = None
    Root = root
    Agents = {a1}
    Executions = {x1, x2, x3, x4}
    Runners = {h1, h2}
    MaxActive = 1
    MaxStalls = 1
    MaxStops = 1
    MaxFaults = 1
    MaxUpsets = 2
CHECK_DEADLOCK FALSE
INVARIANTS TypeOK WorkIsAdmitted RestsClean
PROPERTIES ScopeEnds GivenUpForCause ImplementsScope
