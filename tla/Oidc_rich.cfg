SPECIFICATION OidcSpec
CHECK_DEADLOCK TRUE
CONSTANTS
  app1 = app1
  app2 = app2
  Apps <- TwoApps
  FaultyCalls <- AllCalls
  LateCalls <- AllLate
  Losses <- AllLosses
  MaxFaults = 3
  MaxLosses = 1
  MaxIssued = 2
INVARIANTS OidcTypeOK OidcInv
PROPERTIES DeletedMeansGone
