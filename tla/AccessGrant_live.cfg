SPECIFICATION FairSpec
CHECK_DEADLOCK FALSE
CONSTANTS
  Grants <- OneGrant
  Specs <- CalmSpecs
  Approvers = {boss}
  NoApprover = NoApprover
  NoTime = NoTime
  NoBinding = NoBinding
  MaxTTLProd = 1
  MaxTTLNonProd = 3
  ApprovalPoll = 0
  UserActions = {"create", "delete", "annotate"}
  PromptBindings = TRUE
  MaxTime = 3
  MaxUserOps = 3
  MaxFaults = 1
  MaxRestarts = 1
INVARIANTS
  BoundWhileActive
  ExpiredHasNoBinding
  UnapprovedHasNoBinding
PROPERTIES
  OverdueIsRemoved
  DeletionCompletes
  DeservingIsActivated
