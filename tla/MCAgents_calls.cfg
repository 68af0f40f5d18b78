CONSTANTS
  Runs = {r1}
  Others = {c1}
  MaxSteps = 3
  MaxCalls = 1
  Manifests <- DefaultManifests
  Policies <- MCPolicies
  Configs <- MCConfigs
  TaskMoves = {"initial_invocation", "terminal_success", "human_released"}
  Delegations = {d1}
  Offers <- MCOffers
  Approvals = {a1}
  Subjects <- MCSubjects
  DefaultRegion = "asia-south1"
  Requests <- MCRequests
  Claims <- MCClaims
  RequiredArgs <- MCRequiredArgs
  BackendArgs <- MCBackendArgs
  Workflow <- MCWorkflow
  CallArgs <- MCCallArgs
  SecretTools = {"vendor_bank_account.read"}
  Absent = Absent
  NoReply = NoReply
SPECIFICATION Spec
VIEW WithoutReply
INVARIANTS
  TypeOK
  CallsAreNarrow
  OutcomeIsTrue
PROPERTIES
  OnlyOffencesQuarantine
  ServicesAgree
CHECK_DEADLOCK FALSE
