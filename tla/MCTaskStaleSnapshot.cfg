SPECIFICATION Spec
CONSTANTS
  r = r
  a = a
  b = b
  c = c
  d = d
  q = q
  None = None
  Tasks = {r, q}
  Leases = {l1}
  MaxRetry = 0
  LateWrites = TRUE
  LateErrors = FALSE
  Parent <- MCParent
  Root <- MCRoot
  AgentOf <- MCAgentOf
INVARIANTS EndedIsDurable
