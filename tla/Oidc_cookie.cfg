SPECIFICATION OidcSpec
CHECK_DEADLOCK TRUE
CONSTANTS
  app1 = app1
  app2 = app2
  Apps <- OneApp
  FaultyCalls <- OnlyTheRead
  LateCalls <- LateNew
  Losses <- NoLosses
  MaxFaults = 1
  MaxLosses = 0
  MaxIssued = 2
PROPERTIES CookiePreserved
