SPECIFICATION FairSpec
CONSTANTS
  r = r
  a = a
  b = b
  c = c
  d = d
  q = q
  None = None
  Tasks = {r, a, b}
  Leases = {l1}
  MaxRetry = 0
  LateWrites = FALSE
  LateErrors = FALSE
  Parent <- MCParent
  Root <- MCRoot
  AgentOf <- MCAgentOf
INVARIANTS TypeOK
PROPERTIES ScopesAreIsolated OrphansEnd
