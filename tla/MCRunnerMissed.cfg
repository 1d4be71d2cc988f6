SPECIFICATION Spec
CONSTANTS
    None = None
    Root = root
    Agents = {a1}
    Executions = {x1, x2, x3}
    Runners = {h1, h2}
    MaxActive = 1
    MaxStalls = 0
    MaxStops = 0
    MaxFaults = 0
    MaxUpsets = 0
INVARIANT NoneIsLeft
CHECK_DEADLOCK FALSE
