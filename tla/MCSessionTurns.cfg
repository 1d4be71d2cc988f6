SPECIFICATION Spec
CONSTANTS
    None = None
    Requests = {r1, r2, r3}
    MaxWakes = 2
    MaxTries = 2
    MaxStops = 1
    MaxFaults = 1
    MaxCrashes = 1
SYMMETRY RequestSymmetry
CHECK_DEADLOCK FALSE
INVARIANTS TypeOK SlotFollowsCanon OneExecutor NoOrphanTurn NoSteerLost DeletedStaysEmpty
PROPERTIES StartsInOrder
