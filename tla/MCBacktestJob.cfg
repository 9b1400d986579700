SPECIFICATION Spec
CONSTANTS
  Trials = {t1, t2, t3}
  NConcurrent = 2
  MaxRetries = 0
  ExcludeKinds <- NoKinds
  IncludeKinds <- AllKinds
  Requests = {}
  DbFaults = FALSE
SYMMETRY TrialSymmetry
CHECK_DEADLOCK FALSE
INVARIANTS
  PermitsConserved
  CountersExact
  SummaryNeverOverstates
  NothingRunsAfterFinish
  VerdictMatchesTrials
PROPERTIES
  ImplementsLifecycle
