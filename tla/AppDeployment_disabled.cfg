SPECIFICATION Spec
CHECK_DEADLOCK FALSE
CONSTANTS
  app1 = app1
  ns1 = ns1
  ns2 = ns2
  NoChild = NoChild
  Apps <- OneApp
  CRs <- OneCR
  Specs <- ProxiedAndOpen
  Kinds <- JustPods
  UserActions <- CreateEditDelete
  FaultyCalls <- NoCalls
  LateCalls <- NoLate
  Losses <- NoLosses
  MaxFaults = 0
  MaxLosses = 0
  MaxUserOps = 3
  MaxRestarts = 0
  MaxIssued = 9
INVARIANTS ClientHasOwner
