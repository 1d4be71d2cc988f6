CONSTANTS
    Turns = {t1, t2}
    Requests = {r1, r2}
    Fingerprints = {f1}
    Profiles = {"task"}
    MaxRecent = 1
    MaxSteers = 0
    Reached = {"completed"}
    LiveRestore = FALSE
    None = None
SPECIFICATION Spec
PROPERTY RestoreKeepsNewest
