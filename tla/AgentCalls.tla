----------------------------- MODULE AgentCalls -----------------------------
(***************************************************************************)
(* Agents and the two services: every tool call of an agent's workflow     *)
(* asks the control plane for a grant (phases A to I of evaluate_grant)    *)
(* and presents it to the execution gateway (steps 7 to 14 of execute),    *)
(* beside other clients that ask for anything and present their tokens     *)
(* with anything, while people create, approve and revoke, the worker      *)
(* moves the task, and policy versions are deployed.                       *)
(*                                                                         *)
(* Each request is one step here.  What happens between the reads and the  *)
(* writes of a request, the expiry of grants and approvals and the audit   *)
(* appends are in GrantLifecycle; the constraints on arguments in          *)
(* ArgumentPolicy, of which this module keeps the pinning; tokens that do  *)
(* not verify in GrantVerification.                                        *)
(***************************************************************************)
EXTENDS TaskStates, PurposePolicy, Integers, Sequences

CONSTANTS
  Runs,         \* runs of an agent's workflow
  Others,       \* other callers; each keeps the tokens it was given
  MaxSteps,     \* calls of the longest workflow
  MaxCalls,     \* bound on the requests of a caller that is no workflow
  Manifests,    \* agent |-> manifest
  Policies,     \* the versions of the policy document in order
  Configs,      \* deployments of the gateway
  TaskMoves,    \* the events the worker and release_task apply
  Delegations, Offers,    \* their ids, and what a sponsor may ask for
  Approvals, Subjects,    \* their ids, and what a human may approve
  DefaultRegion,  \* of a request that names none
  Requests,     \* [agent, version, tool, args, region] of the other callers
  Claims,       \* [agent, version, tool, args] they present a token with
  RequiredArgs, \* _REQUIRED_ARGS: tool |-> set of keys
  BackendArgs,  \* tool |-> the keys the configured ERP backend reads
  Workflow,     \* agent |-> the tools of its workflow in order
  CallArgs,     \* tool |-> the arguments its workflow calls it with
  SecretTools,  \* tools a secret or credential is behind
  Absent, NoReply

VARIABLES
  policyVersion,  \* of the control plane
  config,         \* the gateway's region, does its backend check the arguments
                  \* of a write, are the semantic rules enforced?
  task,
  delegations, approvals, grants,
  runs,           \* [agent, delegation, step, phase]
  asked,          \* the requests each other caller has made
  calls,          \* the calls of an adapter: [grant, claim, result]
  reply           \* the last answer of a service, if the last step was one

documents == <<delegations, approvals, grants>>
vars == <<policyVersion, config, task, documents, runs, asked, calls, reply>>

---------------------------------------------------------------------------
Agents   == DOMAIN Workflow
Writes   == {"reconciliation.write", "exception.write", "payment.instruct"}
Outcomes == {"completed", "failed", "mismatch", "blocked", "raised"}
Calling  == {"evaluate", "execute"}
Results  == {"record", "lacking", "notFound", "written", "writtenRaised", "raised"}

(* A grant is named by the caller it was given to and the caller's step.   *)
GrantIds == (Runs \cup Others) \X (1 .. MaxSteps)

(* Values of arguments are texts and amounts; the arguments are partial    *)
(* functions on the keys.                                                  *)
Args == {q.args : q \in Requests} \cup {m.args : m \in Claims}
        \cup {CallArgs[tool] : tool \in DOMAIN CallArgs}

Manifest == [version : STRING, capabilities : SUBSET STRING, denied : SUBSET STRING]

Offer == [purpose : STRING, agents : SUBSET STRING, regions : SUBSET STRING, bound : BOOLEAN]

Delegation ==
  [purpose : STRING, agents : SUBSET STRING, regions : SUBSET STRING, bound : BOOLEAN,
   status : {"active", "revoked", "expired"}]

Approval ==
  [delegation : Delegations, subject : Subjects, approver : {"sponsor", "controller"},
   usedBy : GrantIds \cup {Absent}]

Grant ==
  [delegation : Delegations, agent : STRING, version : STRING, tool : STRING, args : Args,
   region : STRING, policyVersion : DOMAIN Policies, status : {"issued", "consumed"}]

Run ==
  [agent : Agents, delegation : Delegations, step : 1 .. MaxSteps, phase : Calling \cup Outcomes]

Claim == [agent : STRING, version : STRING, tool : STRING, args : Args]

Call == [grant : GrantIds, claim : Claim, result : Results]

ASSUME CallersAssumption ==
  /\ Runs \cap Others = {}
  /\ MaxSteps \in Nat /\ MaxCalls \in Nat /\ MaxCalls <= MaxSteps

ASSUME ConstantsAssumption ==
  /\ DOMAIN Manifests \subseteq STRING /\ Manifests \in [DOMAIN Manifests -> Manifest]
  /\ DOMAIN Policies = 1 .. Len(Policies) /\ Len(Policies) \in Nat \ {0}
  /\ Offers \subseteq Offer
  /\ DefaultRegion \in STRING
  /\ Requests \subseteq [agent : STRING, version : STRING, tool : STRING, args : Args,
                          region : STRING]
  /\ Claims \subseteq Claim

(* The agents of the workflows have manifests, every workflow calls tools  *)
(* it has arguments for, and writes with its last call, if it writes.      *)
ASSUME WorkflowAssumption ==
  /\ Agents \subseteq DOMAIN Manifests
  /\ Workflow \in [Agents -> Seq(DOMAIN CallArgs)] /\ DOMAIN CallArgs \subseteq STRING
  /\ \A agent \in Agents :
       /\ Len(Workflow[agent]) \in 1 .. MaxSteps
       /\ \A k \in 1 .. Len(Workflow[agent]) - 1 : Workflow[agent][k] \notin Writes

(* No event type maps to the security event: only _deny applies it.        *)
ASSUME MovesAssumption == \A event \in TaskMoves : ~Transition("running", event, "quarantined")

ASSUME AbsentAssumption ==
  Absent \notin TaskState \cup GrantIds \cup Delegation \cup Approval \cup Grant \cup Run

(* The documents, the workflows and the calls have the types above.        *)
TypeOK ==
  /\ policyVersion \in DOMAIN Policies
  /\ config \in Configs
  /\ task \in TaskState \cup {Absent}
  /\ delegations \in [Delegations -> Delegation \cup {Absent}]
  /\ approvals \in [Approvals -> Approval \cup {Absent}]
  /\ grants \in [GrantIds -> Grant \cup {Absent}]
  /\ runs \in [Runs -> Run \cup {Absent}]
  /\ \A r \in Runs : runs[r] # Absent => runs[r].step <= Len(Workflow[runs[r].agent])
  /\ asked \in [Others -> 0 .. MaxCalls]
  /\ calls \subseteq Call

Live == task # Absent /\ task \notin Terminal /\ task # "quarantined"

Extends(args, granted) ==
  \A k \in DOMAIN granted : k \in DOMAIN args /\ args[k] = granted[k]

(* The rules of evaluate_semantic_intent fail.                             *)
Suspicious(tool, args) ==
  \/ tool \in SecretTools
  \/ \E k \in DOMAIN args : args[k] = "injected"
  \/ "amount_minor" \in DOMAIN args /\ args["amount_minor"] = "negative"

WithinLimits(args) ==
  /\ {"amount_minor", "currency"} \subseteq DOMAIN args
  /\ args["amount_minor"] = "within" /\ args["currency"] = "INR"

NoAnswer == reply' = NoReply

---------------------------------------------------------------------------
(* People, the worker and deployments. *)

CreateDelegation(d, offer) ==
  /\ delegations[d] = Absent
  /\ offer.purpose \in DOMAIN Policies[policyVersion]
  /\ delegations' = [delegations EXCEPT ![d] =
                       [purpose |-> offer.purpose, agents |-> offer.agents,
                        regions |-> offer.regions, bound |-> offer.bound,
                        status |-> "active"]]
  /\ task' = IF offer.bound /\ task = Absent THEN "created" ELSE task
  /\ UNCHANGED <<policyVersion, config, approvals, grants, runs, asked, calls>>
  /\ NoAnswer

(* revoke_delegation, and the passing of expires_at.                       *)
EndDelegation(d, status) ==
  /\ delegations[d] # Absent /\ delegations[d].status # "revoked"
  /\ delegations[d].status # status
  /\ delegations' = [delegations EXCEPT ![d].status = status]
  /\ UNCHANGED <<policyVersion, config, task, approvals, grants, runs, asked, calls>>
  /\ NoAnswer

(* create_approval checks neither delegation nor task; an approval under   *)
(* an id no delegation has is as none, for the ids are fresh, and so is    *)
(* one that is rejected, expired or of another type.                       *)
Approve(a, d, subject, approver) ==
  /\ approvals[a] = Absent /\ delegations[d] # Absent
  /\ approvals' = [approvals EXCEPT ![a] =
                     [delegation |-> d, subject |-> subject, approver |-> approver,
                      usedBy |-> Absent]]
  /\ UNCHANGED <<policyVersion, config, task, delegations, grants, runs, asked, calls>>
  /\ NoAnswer

(* The worker and release_task; the quarantine is the control plane's.     *)
MoveTask(event) ==
  /\ task # Absent
  /\ \E next \in TaskState : Transition(task, event, next) /\ task' = next
  /\ UNCHANGED <<policyVersion, config, documents, runs, asked, calls>>
  /\ NoAnswer

DeployPolicy ==
  /\ policyVersion < Len(Policies)
  /\ policyVersion' = policyVersion + 1
  /\ UNCHANGED <<config, task, documents, runs, asked, calls>>
  /\ NoAnswer

---------------------------------------------------------------------------
(* The decision of evaluate_grant on request q. *)

Policy == Policies[policyVersion]

RuleFor(q) ==
  ToolPolicy(Policy, delegations[q.delegation].purpose, q.agent, q.tool)

(* Phases A to A3. *)
ScopeRefusal(q) ==
  LET d == delegations[q.delegation] IN
  IF d = Absent THEN "DELEGATION_NOT_FOUND"
  ELSE IF d.status = "revoked" THEN "DELEGATION_REVOKED"
  ELSE IF d.status = "expired" THEN "DELEGATION_EXPIRED"
  ELSE IF ~d.bound \/ task = Absent THEN "TASK_NOT_BOUND_TO_DELEGATION"
  ELSE IF ~Live THEN "TASK_NOT_LIVE"
  ELSE "none"

(* An empty list allows every agent. *)
AllowsAgent(d, agent) == d.agents = {} \/ agent \in d.agents

Declared(q) == q.agent \in DOMAIN Manifests /\ CanRequestTool(Manifests[q.agent], q.tool)

(* Phases D to F2. *)
PolicyRefusal(q) ==
  LET d == delegations[q.delegation] IN
  IF ~AllowsAgent(d, q.agent) THEN "AGENT_NOT_ALLOWED"
  ELSE IF ~Declared(q) THEN "CAPABILITY_NOT_DECLARED"
  ELSE IF q.version # Manifests[q.agent].version THEN "AGENT_VERSION_NOT_ALLOWED"
  ELSE IF q.region \notin d.regions THEN "REGION_NOT_ALLOWED"
  ELSE IF ~InPolicy(Policy, d.purpose, q.agent, q.tool) THEN "OUTSIDE_BUSINESS_PURPOSE"
  ELSE "none"

Candidates(q) ==
  {a \in Approvals : /\ approvals[a] # Absent
                     /\ approvals[a].delegation = q.delegation
                     /\ approvals[a].usedBy = Absent
                     /\ Extends(q.args, approvals[a].subject)}

Independent(q) == {a \in Candidates(q) : approvals[a].approver # "sponsor"}

(* Phase G to I, for a tool of the policy. *)
CallRefusal(q) ==
  IF RuleFor(q).approval /\ Candidates(q) = {} THEN "APPROVAL_REQUIRED"
  ELSE IF RuleFor(q).approval /\ Independent(q) = {} THEN "SEPARATION_OF_DUTIES_VIOLATION"
  ELSE IF RuleFor(q).limited /\ ~WithinLimits(q.args) THEN "ARGUMENT_CONSTRAINT_FAILED"
  ELSE IF config.enforce /\ Suspicious(q.tool, q.args) THEN "SEMANTIC_POLICY_DENIED"
  ELSE "none"

Refusal(q) ==
  IF ScopeRefusal(q) # "none" THEN ScopeRefusal(q)
  ELSE IF PolicyRefusal(q) # "none" THEN PolicyRefusal(q)
  ELSE CallRefusal(q)

(* Mutant: asking too early or from elsewhere is an offence too. *)
AnyPolicyRefusal ==
  {"CAPABILITY_NOT_DECLARED", "OUTSIDE_BUSINESS_PURPOSE", "SEMANTIC_POLICY_DENIED",
   "REGION_NOT_ALLOWED", "AGENT_VERSION_NOT_ALLOWED"}

(* The denials made with quarantine_task. *)
Triggers == {"CAPABILITY_NOT_DECLARED", "OUTSIDE_BUSINESS_PURPOSE", "SEMANTIC_POLICY_DENIED"}

Quarantine(code) ==
  task' = IF code \in Triggers /\ task = "running" THEN "quarantined" ELSE task

Deny(q) ==
  /\ Refusal(q) # "none"
  /\ Quarantine(Refusal(q))
  /\ reply' = [service |-> "evaluate", grant |-> Absent, about |-> q, code |-> Refusal(q)]
  /\ UNCHANGED <<documents>>

(* Mutant: the approval is bound to the caller. *)
BindToCaller(a, id) == approvals' = [approvals EXCEPT ![a].usedBy = id[1]]

BindApproval(a, id) == approvals' = [approvals EXCEPT ![a].usedBy = id]

(* The approval is the first independent one of the list, in any order.    *)
Issue(id, q) ==
  /\ Refusal(q) = "none"
  /\ grants' = [grants EXCEPT ![id] =
                  [delegation |-> q.delegation, agent |-> q.agent, version |-> q.version,
                   tool |-> q.tool, args |-> q.args, region |-> q.region,
                   policyVersion |-> policyVersion, status |-> "issued"]]
  /\ IF RuleFor(q).approval
     THEN \E a \in Independent(q) : BindApproval(a, id)
     ELSE UNCHANGED approvals
  /\ reply' = [service |-> "evaluate", grant |-> id, about |-> q, code |-> "allow"]
  /\ UNCHANGED <<task, delegations>>

---------------------------------------------------------------------------
(* The checks of execute on grant g presented with claim m. *)

(* Mutant: the version in the header is not compared. *)
SameAgent(g, m) == m.agent = g.agent

ClaimedAgent(g, m) == m.agent = g.agent /\ m.version = g.version

(* Mutant: the keys of the arguments must be those that are required. *)
ExactArgs(m) == m.tool \in DOMAIN RequiredArgs => DOMAIN m.args = RequiredArgs[m.tool]

GivesRequired(m) == m.tool \in DOMAIN RequiredArgs => RequiredArgs[m.tool] \subseteq DOMAIN m.args

GatewayRefusal(g, m) ==
  LET d == delegations[g.delegation] IN
  IF g.region # config.region THEN "GRANT_REGION_MISMATCH"
  ELSE IF d.status = "revoked" THEN "DELEGATION_REVOKED"
  ELSE IF d.status = "expired" THEN "DELEGATION_EXPIRED"
  ELSE IF ~Live THEN "TASK_NOT_LIVE"
  ELSE IF ~ClaimedAgent(g, m) THEN "GRANT_AGENT_MISMATCH"
  ELSE IF m.tool # g.tool THEN "GRANT_TOOL_MISMATCH"
  ELSE IF m.tool \notin DOMAIN RequiredArgs THEN "UNKNOWN_TOOL"
  ELSE IF ~GivesRequired(m) THEN "ARGUMENT_PATH_UNKNOWN"
  ELSE IF ~Extends(m.args, g.args) THEN "ARGUMENT_CONSTRAINT_FAILED"
  ELSE IF g.status # "issued" THEN "GRANT_REPLAYED"
  ELSE "none"

(* What an adapter may do: a read finds the record, one that lacks what    *)
(* the next step of the workflow needs, or none; a write needs its         *)
(* arguments; anything, the audit append after it included, may fail with  *)
(* an internal error, whose body is no JSON.                               *)
AdapterResults(tool, args) ==
  {"raised"} \cup
  IF tool \in Writes
  THEN IF config.checksArgs /\ ~(BackendArgs[tool] \subseteq DOMAIN args)
       THEN {} ELSE {"written", "writtenRaised"}
  ELSE {"record", "lacking", "notFound"}

AnswerCode(result) ==
  CASE result \in {"record", "lacking", "written"} -> result
    [] result = "notFound" -> "notFound"
    [] OTHER -> "raised"

Refuse(id, m) ==
  /\ GatewayRefusal(grants[id], m) # "none"
  /\ reply' = [service |-> "execute", grant |-> id, about |-> m,
               code |-> GatewayRefusal(grants[id], m)]
  /\ UNCHANGED <<grants, calls>>

Serve(id, m, result) ==
  /\ GatewayRefusal(grants[id], m) = "none"
  /\ result \in AdapterResults(m.tool, m.args)
  /\ grants' = [grants EXCEPT ![id].status = "consumed"]
  /\ calls' = calls \cup {[grant |-> id, claim |-> m, result |-> result]}
  /\ reply' = [service |-> "execute", grant |-> id, about |-> m, code |-> AnswerCode(result)]

---------------------------------------------------------------------------
(* An agent's workflow: run_reconciliation_workflow,                       *)
(* run_exception_workflow and run_payment_approval_workflow call their     *)
(* tools in order through _evaluate_and_execute.                           *)

StartWorkflow(r, agent, d) ==
  /\ runs[r] = Absent
  /\ runs' = [runs EXCEPT ![r] = [agent |-> agent, delegation |-> d, step |-> 1,
                                  phase |-> "evaluate"]]
  /\ UNCHANGED <<policyVersion, config, task, documents, asked, calls>>
  /\ NoAnswer

Tool(r) == Workflow[runs[r].agent][runs[r].step]

Calls(r, phase) == runs[r] # Absent /\ runs[r].phase = phase

RequestOf(r) ==
  [delegation |-> runs[r].delegation, agent |-> runs[r].agent,
   version |-> Manifests[runs[r].agent].version, tool |-> Tool(r),
   args |-> CallArgs[Tool(r)], region |-> DefaultRegion]

ClaimOf(g) == [agent |-> g.agent, version |-> g.version, tool |-> g.tool, args |-> g.args]

Served == {"record", "lacking", "written"}

(* Mutant: an error ends the workflow as its other exits do. *)
CompletedOnError(tool) == "completed"

(* The workflow does not look for an error in its last answer only where   *)
(* it writes a reconciliation.                                             *)
OnError(tool) == IF tool = "reconciliation.write" THEN "completed" ELSE "failed"

(* What the workflow does next once the call of its step is answered: the  *)
(* next call, or its outcome.  An invoice without a purchase order and a   *)
(* batch that is not approved, or not with these terms, end it.            *)
After(r, code) ==
  IF code = "raised" THEN "raised"
  ELSE IF code \notin Served THEN OnError(Tool(r))
  ELSE IF code = "lacking" /\ Tool(r) = "invoice.read" THEN "mismatch"
  ELSE IF code = "lacking" /\ Tool(r) = "payment_batch.read" THEN "blocked"
  ELSE IF runs[r].step = Len(Workflow[runs[r].agent]) THEN "completed"
  ELSE "evaluate"

Advance(r, code) ==
  runs' = [runs EXCEPT ![r].phase = After(r, code),
                       ![r].step = IF After(r, code) = "evaluate" THEN @ + 1 ELSE @]

WorkflowDenied(r) ==
  /\ Calls(r, "evaluate")
  /\ Deny(RequestOf(r))
  /\ Advance(r, Refusal(RequestOf(r)))
  /\ UNCHANGED <<policyVersion, config, asked, calls>>

GrantOf(r) == <<r, runs[r].step>>

WorkflowGranted(r) ==
  /\ Calls(r, "evaluate")
  /\ Issue(GrantOf(r), RequestOf(r))
  /\ runs' = [runs EXCEPT ![r].phase = "execute"]
  /\ UNCHANGED <<policyVersion, config, asked, calls>>

WorkflowRefused(r) ==
  /\ Calls(r, "execute")
  /\ LET m == ClaimOf(grants[GrantOf(r)]) IN
       /\ Refuse(GrantOf(r), m)
       /\ Advance(r, GatewayRefusal(grants[GrantOf(r)], m))
  /\ UNCHANGED <<policyVersion, config, task, delegations, approvals, asked>>

WorkflowServed(r, result) ==
  /\ Calls(r, "execute")
  /\ Serve(GrantOf(r), ClaimOf(grants[GrantOf(r)]), result)
  /\ Advance(r, AnswerCode(result))
  /\ UNCHANGED <<policyVersion, config, task, delegations, approvals, asked>>

(* A service cannot be reached, or fails before it does anything.          *)
CallFails(r) ==
  /\ Calls(r, "evaluate") \/ Calls(r, "execute")
  /\ runs' = [runs EXCEPT ![r].phase = "raised"]
  /\ UNCHANGED <<policyVersion, config, task, documents, asked, calls>>
  /\ NoAnswer

---------------------------------------------------------------------------
(* Any other caller: each of its requests may be about anything, and it    *)
(* presents the tokens it was given when and how it likes.                 *)

RequestAbout(d, q) ==
  [delegation |-> d, agent |-> q.agent, version |-> q.version, tool |-> q.tool,
   args |-> q.args, region |-> q.region]

Asks(c) == asked[c] < MaxCalls /\ asked' = [asked EXCEPT ![c] = @ + 1]

OtherDenied(c, q) ==
  /\ Asks(c)
  /\ Deny(q)
  /\ UNCHANGED <<policyVersion, config, runs, calls>>

OtherGranted(c, q) ==
  /\ Asks(c)
  /\ Issue(<<c, asked[c] + 1>>, q)
  /\ UNCHANGED <<policyVersion, config, runs, calls>>

Holds(c, id) == id[1] = c /\ grants[id] # Absent

OtherRefused(c, id, m) ==
  /\ Holds(c, id)
  /\ Refuse(id, m)
  /\ UNCHANGED <<policyVersion, config, task, delegations, approvals, runs, asked>>

OtherServed(c, id, m, result) ==
  /\ Holds(c, id)
  /\ Serve(id, m, result)
  /\ UNCHANGED <<policyVersion, config, task, delegations, approvals, runs, asked>>

---------------------------------------------------------------------------
Init ==
  /\ policyVersion = 1
  /\ config \in Configs
  /\ task = Absent
  /\ delegations = [d \in Delegations |-> Absent]
  /\ approvals = [a \in Approvals |-> Absent]
  /\ grants = [id \in GrantIds |-> Absent]
  /\ runs = [r \in Runs |-> Absent]
  /\ asked = [c \in Others |-> 0]
  /\ calls = {}
  /\ reply = NoReply

People ==
  \/ \E d \in Delegations, offer \in Offers : CreateDelegation(d, offer)
  \/ \E d \in Delegations, status \in {"revoked", "expired"} : EndDelegation(d, status)
  \/ \E a \in Approvals, d \in Delegations, s \in Subjects, by \in {"sponsor", "controller"} :
       Approve(a, d, s, by)
  \/ \E event \in TaskMoves : MoveTask(event)
  \/ DeployPolicy

Workflows(r) ==
  \/ \E agent \in Agents, d \in Delegations : StartWorkflow(r, agent, d)
  \/ WorkflowDenied(r) \/ WorkflowGranted(r) \/ WorkflowRefused(r)
  \/ \E result \in Results : WorkflowServed(r, result)
  \/ CallFails(r)

OtherCalls(c) ==
  \/ \E d \in Delegations, q \in Requests :
       \/ OtherDenied(c, RequestAbout(d, q))
       \/ OtherGranted(c, RequestAbout(d, q))
  \/ \E id \in GrantIds, m \in Claims :
       \/ OtherRefused(c, id, m)
       \/ \E result \in Results : OtherServed(c, id, m, result)

Next ==
  \/ People
  \/ \E r \in Runs : Workflows(r)
  \/ \E c \in Others : OtherCalls(c)

Spec == Init /\ [][Next]_vars
=============================================================================
