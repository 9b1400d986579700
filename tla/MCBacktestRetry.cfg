SPECIFICATION Spec
CONSTANTS
  Trials = {t1}
  NConcurrent = 0
  MaxRetries = 2
  ExcludeKinds <- NoKinds
  IncludeKinds <- AllKinds
  Requests = {c1}
  DbFaults = TRUE
CHECK_DEADLOCK FALSE
INVARIANTS
  TypeOK
  SandboxOwned
PROPERTIES
  TerminalRowStable
  NoRerunAfterRewards
