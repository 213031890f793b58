SPECIFICATION Spec
CHECK_DEADLOCK TRUE
CONSTANTS
  app1 = app1
  ns1 = ns1
  ns2 = ns2
  NoChild = NoChild
  Apps <- OneApp
  CRs <- OneCR
  Specs <- ProxiedOnly
  Kinds <- Guarded
  UserActions <- Lifecycle
  FaultyCalls <- NotTheCleanup
  LateCalls <- NoLate
  Losses <- NoLosses
  MaxFaults = 1
  MaxLosses = 0
  MaxUserOps = 3
  MaxRestarts = 1
  MaxIssued = 9
INVARIANTS NoOrphanClient CredentialsInPlace SettledMeansCurrent SettledMeansServed PodsAreGated
PROPERTIES RegisteredMeansUsable
