SPECIFICATION Spec
CHECK_DEADLOCK FALSE
CONSTANTS
  app1 = app1
  ns1 = ns1
  ns2 = ns2
  NoChild = NoChild
  Apps <- OneApp
  CRs <- OneCR
  Specs <- ProxiedOnly
  Kinds <- JustPods
  UserActions <- CreateOnly
  FaultyCalls <- OnlyTheToken
  LateCalls <- NoLate
  Losses <- NoLosses
  MaxFaults = 1
  MaxLosses = 0
  MaxUserOps = 1
  MaxRestarts = 0
  MaxIssued = 9
INVARIANTS ReadyMeansRegistered
