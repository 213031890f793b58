SPECIFICATION Spec
CHECK_DEADLOCK FALSE
CONSTANTS
  app1 = app1
  ns1 = ns1
  ns2 = ns2
  NoChild = NoChild
  Apps <- OneApp
  CRs <- OneCR
  Specs <- ProxiedAndOpen
  Kinds <- TrafficAndPods
  UserActions <- AllUserActions
  FaultyCalls <- AllCalls
  LateCalls <- NoLate
  Losses <- NoLosses
  MaxFaults = 1
  MaxLosses = 0
  MaxUserOps = 3
  MaxRestarts = 0
  MaxIssued = 9
INVARIANTS TypeOK SettledMeansReconciled SettledMeansPresent
PROPERTIES NoStaleReport
