CONSTANTS
  Grants = {g1, g2}
  Executions = {x1}
  Approvals = {a1}
  Humans = {priya, arun}
  Sponsor = priya
  Keys = {"batch_id"}
  ScalarKeys = {"batch_id"}
  Values = {"batch1"}
  ArgumentsOf <- MCArgumentsOf
  RequiresApproval <- MCRequiresApproval
  SodRules = {"delegation_sponsor"}
  TTL = 1
  ApprovalTTL = 1
  DelegationExpires = 1
  MaxTime = 1
  MaxEvaluations = 2
  TaskMoves = {"initial_invocation"}
  NoApproval = NoApproval
  NoGrant = NoGrant
SPECIFICATION Spec
INVARIANT ApprovalSingleUse
CHECK_DEADLOCK FALSE
