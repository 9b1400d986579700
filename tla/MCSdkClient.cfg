SPECIFICATION Spec
CONSTANTS
  MaxItems = 4
  MaxBatch = 2
  MaxQueue = 2
  Scripts <- SomeScripts
  HasTimer = TRUE
  MaxLate = 1
INVARIANTS
  AtMostTwice
  ResolvedFlushDelivered
PROPERTIES
  KindsStayInOrder
  EventGoesFirst
  ImplementsPipe
  QueueDrains
