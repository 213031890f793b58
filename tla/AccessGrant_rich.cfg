SPECIFICATION Spec
CHECK_DEADLOCK FALSE
CONSTANTS
  Grants <- OneGrant
  Specs <- RichSpecs
  Approvers = {boss}
  NoApprover = NoApprover
  NoTime = NoTime
  NoBinding = NoBinding
  MaxTTLProd = 1
  MaxTTLNonProd = 3
  ApprovalPoll = 0
  UserActions = {"create", "recreate", "delete", "edit", "annotate", "withdraw", "revoke", "unbind"}
  PromptBindings = FALSE
  MaxTime = 2
  MaxUserOps = 3
  MaxFaults = 1
  MaxRestarts = 1
INVARIANTS
  TypeOK
  IInv
  ActiveGrantIsWatched
PROPERTIES
  ExpiryNeverExtended
  TerminalStable
  ActivationRespectsPolicy
  BindingCreatedUnderFinalizer
  NoResurrection
  ImplementsLifecycle

