SPECIFICATION Spec
CONSTANTS
  Envs = {e1}
  Scope <- SameBranch
  Requests = {r1}
  Leftovers <- NoLeftovers
  MaxFaults = 0
CHECK_DEADLOCK FALSE
INVARIANTS
  FailureTearsDown
