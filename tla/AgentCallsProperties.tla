------------------------ MODULE AgentCallsProperties ------------------------
(***************************************************************************)
(* What the control plane and the gateway together owe the sponsor of a    *)
(* delegation, and what an agent's workflow owes its caller.               *)
(***************************************************************************)
EXTENDS AgentCalls

(* Grant g is no wider than the delegation it was issued under, the        *)
(* manifest of its agent and the policy of its time.                       *)
Narrow(g) ==
  LET d == delegations[g.delegation]
      policy == Policies[g.policyVersion]
  IN  /\ d # Absent /\ d.bound
      /\ d.agents = {} \/ g.agent \in d.agents
      /\ g.region \in d.regions
      /\ g.agent \in DOMAIN Manifests
      /\ g.version = Manifests[g.agent].version
      /\ g.tool \in Manifests[g.agent].capabilities \ Manifests[g.agent].denied
      /\ InPolicy(policy, d.purpose, g.agent, g.tool)

(* What the policy of its time says of the tool of grant g.                *)
RuleOf(g) ==
  ToolPolicy(Policies[g.policyVersion], delegations[g.delegation].purpose, g.agent, g.tool)

(* A human other than the sponsor approved what grant id lets run, under   *)
(* the same delegation, and the approval is spent on that grant.           *)
ApprovedFor(id, args) ==
  \E a \in Approvals :
    /\ approvals[a] # Absent /\ approvals[a].usedBy = id
    /\ approvals[a].approver # "sponsor"
    /\ approvals[a].delegation = grants[id].delegation
    /\ Extends(args, approvals[a].subject)

CallIsNarrow(call) ==
  LET g == grants[call.grant] IN
  /\ g # Absent /\ g.status = "consumed"
  /\ call.claim.agent = g.agent /\ call.claim.version = g.version
  /\ call.claim.tool = g.tool
  /\ Extends(call.claim.args, g.args)
  /\ g.region = config.region
  /\ Narrow(g)
  /\ RuleOf(g).approval => ApprovedFor(call.grant, call.claim.args)

(* Whatever reaches an adapter, from a workflow or from any other caller,  *)
(* was claimed by the agent, version and tool of a grant that is consumed  *)
(* and was no wider than manifest, delegation and policy allowed, with the *)
(* arguments it was granted for and the approval these need.               *)
CallsAreNarrow == \A call \in calls : CallIsNarrow(call)

(* Request q asks for what its agent's manifest or the purpose rules out,  *)
(* or is blocked by the semantic rules that are enforced.                  *)
Offence(q) ==
  \/ q.agent \notin DOMAIN Manifests
  \/ q.tool \in Manifests[q.agent].denied
  \/ q.tool \notin Manifests[q.agent].capabilities
  \/ ~InPolicy(Policy, delegations[q.delegation].purpose, q.agent, q.tool)
  \/ config.enforce /\ Suspicious(q.tool, q.args)

HeldByOffence ==
  /\ task = "running" /\ task' = "quarantined" =>
       /\ reply'.service = "evaluate"
       /\ Offence(reply'.about)
       /\ delegations[reply'.about.delegation].status = "active"
       /\ delegations[reply'.about.delegation].bound
       /\ UNCHANGED grants
  /\ reply' # NoReply /\ reply'.service = "evaluate" /\ reply'.code = "allow" =>
       ~Offence(reply'.about)

(* A running task is held only because of a request that is out of bounds  *)
(* under a delegation of the task that is in force, so a wrong version, a  *)
(* wrong region, a missing approval or a late request never stops a task   *)
(* other requests are served for; and no grant comes of such a request.    *)
OnlyOffencesQuarantine == [][HeldByOffence]_vars

ServedAsGranted ==
  \A id \in GrantIds :
    /\ grants[id] # Absent /\ \A call \in calls : call.grant # id
    /\ delegations[grants[id].delegation].status = "active" /\ Live
    /\ grants[id].region = config.region
    /\ grants[id].tool \in DOMAIN RequiredArgs
    /\ RequiredArgs[grants[id].tool] \subseteq DOMAIN grants[id].args
    /\ reply' # NoReply /\ reply'.service = "execute"
    /\ reply'.grant = id /\ reply'.about = ClaimOf(grants[id])
    => reply'.code \in {"record", "lacking", "notFound", "written", "raised"}

(* The two services agree: a token that is presented as it was granted,    *)
(* for the first time and while its delegation and task are live, is       *)
(* served, by a gateway of its region that knows the tool and was asked    *)
(* for with the arguments the tool requires.                               *)
ServicesAgree == [][ServedAsGranted]_vars

(* The call of step k of run r was served.                                 *)
StepServed(r, k) ==
  \E call \in calls : call.grant = <<r, k>> /\ AnswerCode(call.result) \in Served

(* What a workflow reports is what happened: when it reports that it       *)
(* failed, or stopped, it has written nothing, so that it can be run       *)
(* again; when it reports that it is complete, every step it looks at was  *)
(* served.                                                                 *)
OutcomeIsTrue ==
  \A r \in Runs : runs[r] # Absent =>
    /\ runs[r].phase \in {"failed", "mismatch", "blocked"} =>
         \A call \in calls : call.grant[1] = r => call.claim.tool \notin Writes
    /\ runs[r].phase = "completed" =>
         \A k \in 1 .. Len(Workflow[runs[r].agent]) :
           Workflow[runs[r].agent][k] # "reconciliation.write" => StepServed(r, k)
=============================================================================
