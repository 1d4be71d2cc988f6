SPECIFICATION Spec
CONSTANTS
  r = r
  a = a
  b = b
  c = c
  d = d
  q = q
  None = None
  Tasks = {r, a, d}
  Leases = {l1, l2}
  MaxRetry = 1
  LateWrites = FALSE
  LateErrors = FALSE
  Parent <- MCParent
  Root <- MCRoot
  AgentOf <- MCAgentOf
INVARIANTS LeaseSound OneLiveActivation
PROPERTIES ResultOfThisRound
SYMMETRY SameLeases
CONSTRAINT Unaccepted
VIEW Seen
