SPECIFICATION FairSpec
CHECK_DEADLOCK FALSE
CONSTANTS
  app1 = app1
  ns1 = ns1
  ns2 = ns2
  NoChild = NoChild
  Apps <- OneApp
  CRs <- OneCR
  Specs <- ProxiedOnly
  Kinds <- WithConfig
  UserActions <- LifecycleConfig
  FaultyCalls <- AllCalls
  LateCalls <- NoLate
  Losses <- LostClients
  MaxFaults = 1
  MaxLosses = 1
  MaxUserOps = 2
  MaxRestarts = 0
  MaxIssued = 9
PROPERTIES Converges DeletionCompletes
