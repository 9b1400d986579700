SPECIFICATION Spec
CONSTANTS
  Trials = {t1, t2}
  NConcurrent = 1
  MaxRetries = 0
  ExcludeKinds <- NoKinds
  IncludeKinds <- AllKinds
  Requests = {}
  DbFaults = FALSE
CHECK_DEADLOCK FALSE
PROPERTIES
  DroppedSandboxStopped
