SPECIFICATION FairSpec
CONSTANTS
  Trials = {t1, t2}
  NConcurrent = 1
  MaxRetries = 0
  ExcludeKinds <- NoKinds
  IncludeKinds <- AllKinds
  Requests = {c1}
  DbFaults = FALSE
CHECK_DEADLOCK FALSE
PROPERTIES
  AbortedRunCollected
