SPECIFICATION FairSpec
CHECK_DEADLOCK FALSE
CONSTANTS
  Grants <- OneGrant
  Specs <- CalmSpecs
  Approvers = {boss}
  NoApprover = NoApprover
  NoTime = NoTime
  NoBinding = NoBinding
  MaxTTLProd = 1
  MaxTTLNonProd = 3
  ApprovalPoll = 0
  UserActions = {"create", "revoke"}
  PromptBindings = TRUE
  MaxTime = 2
  MaxUserOps = 2
  MaxFaults = 0
  MaxRestarts = 0
PROPERTIES
  OverdueIsRemoved
