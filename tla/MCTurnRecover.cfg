CONSTANTS
    Turns = {t1, t2}
    Requests = {r1, r2}
    Fingerprints = {f1}
    Profiles = {"task"}
    MaxRecent = 2
    MaxSteers = 0
    Reached = {"running", "completed", "interrupted"}
    LiveRestore = TRUE
    None = None
SPECIFICATION Spec
SYMMETRY Symmetric
PROPERTIES TerminalImmutable
