SPECIFICATION Spec
CONSTANTS
  r = r
  a = a
  b = b
  c = c
  d = d
  q = q
  None = None
  Tasks = {r}
  Leases = {l1}
  MaxRetry = 1
  LateWrites = FALSE
  LateErrors = TRUE
  Parent <- MCParent
  Root <- MCRoot
  AgentOf <- MCAgentOf
INVARIANTS EndedIsDurable
