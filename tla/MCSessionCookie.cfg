SPECIFICATION Spec
CONSTANTS
  Requests = {r1, r2, r3}
  NetFaults = TRUE
CHECK_DEADLOCK FALSE
INVARIANTS
  CookieIsKept
  CookieIsLive
  OneExchangePerCookie
PROPERTIES
  ImplementsShared
  EveryRequestEnds
