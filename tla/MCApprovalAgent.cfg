SPECIFICATION Spec
CONSTANTS
    w = w t1 = t1 t2 = t2 ag = ag k1 = k1 k2 = k2 kx = kx
    None = None
    Calls = {1, 2}
    External = {}
    Turns = {t1, ag}
    Agents = {ag}
    Tasks = {k1, kx}
    TurnOf <- AgentTurnOf
    TaskOf <- MixedTaskOf
    WhatOf <- SameTool
    Resumes <- AgentResumes
    Sources <- SharedSources
    Clients = {u1}
    Choices = {"once", "turn", "deny"}
    MaxRestarts = 0
PROPERTIES AgentApprovalKept
CHECK_DEADLOCK FALSE
