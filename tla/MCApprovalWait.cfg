SPECIFICATION FairSpec
CONSTANTS
    w = w t1 = t1 t2 = t2 ag = ag k1 = k1 k2 = k2 kx = kx
    None = None
    Calls = {1, 2}
    External = {2}
    Turns = {t1, ag}
    Agents = {ag}
    Tasks = {k1, kx}
    TurnOf <- AgentMixedTurnOf
    TaskOf <- MixedTaskOf
    WhatOf <- SameTool
    Resumes <- AgentResumes
    Sources <- SharedSources
    Clients = {u1}
    Choices = {"turn", "deny"}
    MaxRestarts = 0
INVARIANTS RunsAreConsented
PROPERTIES WaitEnds
CHECK_DEADLOCK FALSE
