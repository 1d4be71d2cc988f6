CONSTANTS
    Turns = {t1, t2, t3}
    Requests = {r1, r2}
    Fingerprints = {f1}
    Profiles = {"task"}
    MaxRecent = 1
    MaxSteers = 1
    Reached = {"running", "completed"}
    LiveRestore = FALSE
    None = None
SPECIFICATION Spec
SYMMETRY Symmetric
INVARIANTS TypeOK SlotExclusive OneTurnPerRequest ReplayWindow ContinueAgrees
PROPERTIES RestoreRevivesNewest
