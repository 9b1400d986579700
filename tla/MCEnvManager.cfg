SPECIFICATION Spec
CONSTANTS
  Envs = {e1, e2}
  Scope <- SameBranch
  Requests = {r1, r2}
  Leftovers <- SomeLeftovers
  MaxFaults = 1
SYMMETRY Symmetry
CHECK_DEADLOCK FALSE
INVARIANTS
  ErrorLeavesNothing
  RunningIsServed
  DestroyLeavesNothing
  SomebodyIsAtWork
PROPERTIES
  ImplementsLifecycle
