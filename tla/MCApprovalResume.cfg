SPECIFICATION Spec
CONSTANTS
    w = w t1 = t1 t2 = t2 ag = ag k1 = k1 k2 = k2 kx = kx
    None = None
    Calls = {1, 2}
    External = {}
    Turns = {t1, t2}
    Agents = {}
    Tasks = {k1, k2}
    TurnOf <- ResumeTurnOf
    TaskOf <- ResumeTaskOf
    WhatOf <- SameTool
    Resumes <- ResumeResumes
    Sources <- ResumeSources
    Clients = {u1}
    Choices = {"once", "turn", "deny"}
    MaxRestarts = 2
CHECK_DEADLOCK FALSE
INVARIANTS TypeOK OneRunPerApproval DecisionsAgree
PROPERTIES ImplementsLedger
