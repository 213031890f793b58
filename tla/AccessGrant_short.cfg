SPECIFICATION Spec
CHECK_DEADLOCK FALSE
CONSTANTS
  Grants <- OneGrant
  Specs <- ShortSpecs
  Approvers = {boss}
  NoApprover = NoApprover
  NoTime = NoTime
  NoBinding = NoBinding
  MaxTTLProd = 1
  MaxTTLNonProd = 3
  ApprovalPoll = 0
  UserActions = {"create"}
  PromptBindings = FALSE
  MaxTime = 2
  MaxUserOps = 1
  MaxFaults = 0
  MaxRestarts = 0
INVARIANTS
  ExpiredHasNoBinding
