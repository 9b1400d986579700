SPECIFICATION Spec
CONSTANTS
  Tests = {t1, t2}
  Faulty = {t1}
  Aborts = {a1}
  Refreshes = {g1}
CHECK_DEADLOCK FALSE
INVARIANTS
  OneActiveTest
  GoingRunsAreFollowed
PROPERTIES
  ImplementsLifecycle
  EndIsNoticed
