CONSTANTS
  Grants = {g1, g2}
  Executions = {x1, x2}
  Approvals = {a1}
  Humans = {priya, arun}
  Sponsor = priya
  Keys = {"batch_id"}
  ScalarKeys = {"batch_id"}
  Values = {"batch1", "batch2"}
  ArgumentsOf <- MCArgumentsOf
  RequiresApproval <- MCRequiresApproval
  SodRules = {"delegation_sponsor"}
  TTL = 2
  ApprovalTTL = 1
  DelegationExpires = 1
  MaxTime = 2
  MaxEvaluations = 2
  TaskMoves = {"initial_invocation", "terminal_success", "human_released", "runtime_restored"}
  NoApproval = NoApproval
  NoGrant = NoGrant
SPECIFICATION Spec
INVARIANTS
  TypeOK
  EffectAtMostOnce
  EffectIsAuthorised
  NothingAfterEnd
  AuditTrailTruthful
  EffectIsApproved
  NoLaterReuse
PROPERTIES
  RefinesSingleUseGrant
SYMMETRY Symmetry
CHECK_DEADLOCK FALSE
