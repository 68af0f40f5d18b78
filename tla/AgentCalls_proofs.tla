-------------------------- MODULE AgentCalls_proofs --------------------------
(***************************************************************************)
(* Theorems about AgentCalls for every set of workflows, callers,          *)
(* manifests, policy versions, requests and claims.                        *)
(***************************************************************************)
EXTENDS AgentCallsProperties, TLAPS

---------------------------------------------------------------------------
(* The inductive invariant. *)

(* A place of a caller is empty until the caller comes to it.              *)
PlacesFresh ==
  /\ \A r \in Runs, k \in 1 .. MaxSteps :
       grants[<<r, k>>] # Absent =>
         /\ runs[r] # Absent
         /\ k <= runs[r].step
         /\ runs[r].phase = "evaluate" => k # runs[r].step
  /\ \A c \in Others, k \in 1 .. MaxSteps : grants[<<c, k>>] # Absent => k <= asked[c]

(* A workflow that executes has the grant of its step.                     *)
ExecutesGrant ==
  \A r \in Runs : runs[r] # Absent /\ runs[r].phase = "execute" =>
    grants[<<r, runs[r].step>>] # Absent

(* It is a grant for the tool of that step.                                *)
GrantForStep ==
  \A r \in Runs : runs[r] # Absent /\ runs[r].phase = "execute" =>
    grants[<<r, runs[r].step>>].tool = Tool(r)

(* Every grant, not only the ones that are used, is within its bounds and  *)
(* has the approval it needs.                                              *)
Sound(id) ==
  /\ Narrow(grants[id])
  /\ RuleOf(grants[id]).approval => ApprovedFor(id, grants[id].args)

GrantsSound == \A id \in GrantIds : grants[id] # Absent => Sound(id)

(* The steps before the current one were served.                           *)
PastServed ==
  \A r \in Runs : runs[r] # Absent => \A k \in 1 .. runs[r].step - 1 : StepServed(r, k)

(* The calls of a workflow are those of its steps, in which it may have    *)
(* written nothing yet.                                                    *)
OwnCalls ==
  \A call \in calls, r \in Runs : call.grant[1] = r =>
    /\ runs[r] # Absent
    /\ call.grant[2] <= runs[r].step
    /\ call.claim.tool = Workflow[runs[r].agent][call.grant[2]]
    /\ runs[r].phase \in Calling => call.grant[2] < runs[r].step

(* Nothing but a call of an adapter consumes a grant.                      *)
ConsumedByCall ==
  \A id \in GrantIds : grants[id] # Absent /\ grants[id].status # "issued" =>
    \E call \in calls : call.grant = id

AgentInv ==
  /\ TypeOK
  /\ PlacesFresh /\ ExecutesGrant /\ GrantForStep /\ GrantsSound /\ ConsumedByCall
  /\ CallsAreNarrow
  /\ PastServed /\ OwnCalls
  /\ OutcomeIsTrue

---------------------------------------------------------------------------
(* Types. *)

Request ==
  [delegation : Delegations, agent : STRING, version : STRING, tool : STRING, args : Args,
   region : STRING]

(* What runs[r] is, when it is there, in one place.                        *)
LEMMA RunFacts ==
  ASSUME TypeOK, NEW r \in Runs, runs[r] # Absent
  PROVE  /\ runs[r] \in Run
         /\ runs[r].agent \in Agents /\ runs[r].delegation \in Delegations
         /\ runs[r].step \in 1 .. Len(Workflow[runs[r].agent])
         /\ Len(Workflow[runs[r].agent]) \in 1 .. MaxSteps
         /\ runs[r].step \in 1 .. MaxSteps
         /\ GrantOf(r) \in GrantIds /\ GrantOf(r) = <<r, runs[r].step>>
<1>1. runs[r] \in Run BY DEF TypeOK
<1>2. runs[r].agent \in Agents /\ runs[r].delegation \in Delegations
      /\ runs[r].step \in 1 .. MaxSteps
  BY <1>1 DEF Run
<1>3. Len(Workflow[runs[r].agent]) \in 1 .. MaxSteps BY <1>2, WorkflowAssumption
<1>4. runs[r].step <= Len(Workflow[runs[r].agent]) BY DEF TypeOK
<1>5. runs[r].step \in 1 .. Len(Workflow[runs[r].agent])
  BY <1>2, <1>3, <1>4, CallersAssumption
<1>6. GrantOf(r) \in GrantIds BY <1>2 DEF GrantOf, GrantIds
<1> QED BY <1>1, <1>2, <1>3, <1>5, <1>6 DEF GrantOf

LEMMA ToolType ==
  ASSUME TypeOK, NEW r \in Runs, runs[r] # Absent
  PROVE  Tool(r) \in DOMAIN CallArgs /\ Tool(r) \in STRING
<1>1. runs[r].agent \in Agents /\ runs[r].step \in 1 .. Len(Workflow[runs[r].agent])
  BY RunFacts
<1>2. Workflow[runs[r].agent] \in Seq(DOMAIN CallArgs) BY <1>1, WorkflowAssumption
<1> QED BY <1>1, <1>2, WorkflowAssumption DEF Tool

LEMMA WorkflowRequest ==
  ASSUME TypeOK, NEW r \in Runs, runs[r] # Absent
  PROVE  RequestOf(r) \in Request
<1>1. runs[r].agent \in DOMAIN Manifests BY RunFacts, WorkflowAssumption
<1>2. Manifests[runs[r].agent] \in Manifest /\ runs[r].agent \in STRING
  BY <1>1, ConstantsAssumption
<1>3. CallArgs[Tool(r)] \in Args BY ToolType DEF Args
<1> QED BY <1>2, <1>3, RunFacts, ToolType, ConstantsAssumption DEF RequestOf, Request, Manifest

LEMMA OtherRequest ==
  ASSUME NEW d \in Delegations, NEW q \in Requests
  PROVE  RequestAbout(d, q) \in Request
  BY ConstantsAssumption DEF RequestAbout, Request

LEMMA DenyType ==
  ASSUME TypeOK, NEW q, Deny(q)
  PROVE  task' \in TaskState \cup {Absent}
  BY DEF TypeOK, Deny, Quarantine, TaskState

LEMMA IssueType ==
  ASSUME TypeOK, NEW id \in GrantIds, NEW q \in Request, Issue(id, q)
  PROVE  /\ grants' \in [GrantIds -> Grant \cup {Absent}]
         /\ approvals' \in [Approvals -> Approval \cup {Absent}]
         /\ grants'[id] \in Grant
<1> DEFINE g == [delegation |-> q.delegation, agent |-> q.agent, version |-> q.version,
                 tool |-> q.tool, args |-> q.args, region |-> q.region,
                 policyVersion |-> policyVersion, status |-> "issued"]
<1>1. g \in Grant BY DEF TypeOK, Request, Grant
<1>2. grants' = [grants EXCEPT ![id] = g] BY DEF Issue
<1>3. approvals' \in [Approvals -> Approval \cup {Absent}]
  <2>1. CASE UNCHANGED approvals BY <2>1 DEF TypeOK
  <2>2. ASSUME NEW a \in Independent(q), BindApproval(a, id)
        PROVE  approvals' \in [Approvals -> Approval \cup {Absent}]
    <3>1. a \in Approvals /\ approvals[a] \in Approval
      BY DEF Independent, Candidates, TypeOK
    <3>2. [approvals[a] EXCEPT !.usedBy = id] \in Approval BY <3>1 DEF Approval
    <3> QED BY <2>2, <3>1, <3>2 DEF BindApproval, TypeOK
  <2> QED BY <2>1, <2>2 DEF Issue
<1> QED BY <1>1, <1>2, <1>3 DEF TypeOK

LEMMA ServeType ==
  ASSUME TypeOK, NEW id \in GrantIds, NEW m \in Claim, NEW result, grants[id] # Absent,
         Serve(id, m, result)
  PROVE  /\ grants' \in [GrantIds -> Grant \cup {Absent}]
         /\ calls' \subseteq Call
         /\ result \in Results
<1>1. grants[id] \in Grant BY DEF TypeOK
<1>2. [grants[id] EXCEPT !.status = "consumed"] \in Grant BY <1>1 DEF Grant
<1>3. result \in Results BY DEF Serve, AdapterResults, Results
<1>4. [grant |-> id, claim |-> m, result |-> result] \in Call BY <1>3 DEF Call
<1> QED BY <1>2, <1>3, <1>4 DEF Serve, TypeOK

LEMMA AfterType ==
  ASSUME NEW r, NEW code
  PROVE  /\ After(r, code) \in Outcomes \cup {"evaluate"}
         /\ After(r, code) = "evaluate" =>
              code \in Served /\ runs[r].step # Len(Workflow[runs[r].agent])
  BY DEF After, OnError, Outcomes

LEMMA AdvanceType ==
  ASSUME TypeOK, NEW r \in Runs, runs[r] # Absent, NEW code, Advance(r, code)
  PROVE  /\ runs' \in [Runs -> Run \cup {Absent}]
         /\ \A s \in Runs : runs'[s] # Absent => runs'[s].step <= Len(Workflow[runs'[s].agent])
         /\ runs'[r] = [runs[r] EXCEPT !.phase = After(r, code),
                        !.step = IF After(r, code) = "evaluate" THEN @ + 1 ELSE @]
         /\ runs'[r] \in Run
<1> DEFINE new == [runs[r] EXCEPT !.phase = After(r, code),
                     !.step = IF After(r, code) = "evaluate" THEN @ + 1 ELSE @]
<1>1. runs' = [runs EXCEPT ![r] = new] BY DEF Advance, TypeOK
<1>2. runs[r] \in Run BY RunFacts
<1>3. /\ new.agent = runs[r].agent /\ new.delegation = runs[r].delegation
      /\ new.phase = After(r, code)
      /\ new.step = IF After(r, code) = "evaluate" THEN runs[r].step + 1 ELSE runs[r].step
  BY <1>2 DEF Run
<1>4. new.step \in 1 .. MaxSteps /\ new.step <= Len(Workflow[new.agent])
  BY <1>3, RunFacts, AfterType, CallersAssumption
<1>5. new \in Run BY <1>2, <1>3, <1>4, AfterType DEF Run, Calling
<1> QED BY <1>1, <1>4, <1>5 DEF TypeOK

LEMMA PhaseType ==
  ASSUME TypeOK, NEW r \in Runs, runs[r] # Absent, NEW phase \in Calling \cup Outcomes,
         runs' = [runs EXCEPT ![r].phase = phase]
  PROVE  /\ runs' \in [Runs -> Run \cup {Absent}]
         /\ \A s \in Runs : runs'[s] # Absent => runs'[s].step <= Len(Workflow[runs'[s].agent])
         /\ runs'[r] \in Run
         /\ runs'[r].agent = runs[r].agent /\ runs'[r].step = runs[r].step
         /\ runs'[r].phase = phase
<1> DEFINE new == [runs[r] EXCEPT !.phase = phase]
<1>1. runs[r] \in Run BY RunFacts
<1>2. new \in Run /\ new.agent = runs[r].agent /\ new.step = runs[r].step /\ new.phase = phase
  BY <1>1 DEF Run
<1>3. runs' = [runs EXCEPT ![r] = new] OBVIOUS
<1>4. new.step <= Len(Workflow[new.agent]) BY <1>2 DEF TypeOK
<1> HIDE DEF new
<1> QED BY <1>2, <1>3, <1>4 DEF TypeOK

LEMMA InitType == Init => TypeOK
<1> SUFFICES ASSUME Init PROVE TypeOK OBVIOUS
<1>1. 1 \in DOMAIN Policies BY ConstantsAssumption
<1>2. asked \in [Others -> 0 .. MaxCalls] BY CallersAssumption DEF Init
<1> QED BY <1>1, <1>2 DEF Init, TypeOK

LEMMA PeopleType == TypeOK /\ People => TypeOK'
<1> SUFFICES ASSUME TypeOK, People PROVE TypeOK' OBVIOUS
<1> USE DEF documents, NoAnswer
<1>1. ASSUME NEW d \in Delegations, NEW offer \in Offers, CreateDelegation(d, offer)
      PROVE  TypeOK'
  <2>1. [purpose |-> offer.purpose, agents |-> offer.agents, regions |-> offer.regions,
         bound |-> offer.bound, status |-> "active"] \in Delegation
    BY ConstantsAssumption DEF Offer, Delegation
  <2>2. delegations' \in [Delegations -> Delegation \cup {Absent}]
    BY <1>1, <2>1 DEF CreateDelegation, TypeOK
  <2>3. task' \in TaskState \cup {Absent}
    BY <1>1 DEF CreateDelegation, TypeOK, TaskState
  <2> QED BY <1>1, <2>2, <2>3 DEF CreateDelegation, TypeOK
<1>2. ASSUME NEW d \in Delegations, NEW status \in {"revoked", "expired"},
             EndDelegation(d, status)
      PROVE  TypeOK'
  <2>1. delegations[d] \in Delegation BY <1>2 DEF EndDelegation, TypeOK
  <2>2. [delegations[d] EXCEPT !.status = status] \in Delegation BY <2>1 DEF Delegation
  <2>3. delegations' \in [Delegations -> Delegation \cup {Absent}]
    BY <1>2, <2>2 DEF EndDelegation, TypeOK
  <2> QED BY <1>2, <2>3 DEF EndDelegation, TypeOK
<1>3. ASSUME NEW a \in Approvals, NEW d \in Delegations, NEW s \in Subjects,
             NEW by \in {"sponsor", "controller"}, Approve(a, d, s, by)
      PROVE  TypeOK'
  <2>1. [delegation |-> d, subject |-> s, approver |-> by, usedBy |-> Absent] \in Approval
    BY DEF Approval
  <2>2. approvals' \in [Approvals -> Approval \cup {Absent}]
    BY <1>3, <2>1 DEF Approve, TypeOK
  <2> QED BY <1>3, <2>2 DEF Approve, TypeOK
<1>4. ASSUME NEW event \in TaskMoves, MoveTask(event) PROVE TypeOK'
  BY <1>4 DEF MoveTask, TypeOK
<1>5. CASE DeployPolicy
  <2>1. policyVersion' \in DOMAIN Policies
    BY <1>5, ConstantsAssumption DEF DeployPolicy, TypeOK
  <2> QED BY <1>5, <2>1 DEF DeployPolicy, TypeOK
<1> QED BY <1>1, <1>2, <1>3, <1>4, <1>5 DEF People

LEMMA WorkflowsType ==
  ASSUME TypeOK, ExecutesGrant, NEW r \in Runs, Workflows(r)
  PROVE  TypeOK'
<1> USE DEF documents, NoAnswer
<1>1. ASSUME NEW agent \in Agents, NEW d \in Delegations, StartWorkflow(r, agent, d)
      PROVE  TypeOK'
  <2> DEFINE new == [agent |-> agent, delegation |-> d, step |-> 1, phase |-> "evaluate"]
  <2>1. Len(Workflow[agent]) \in 1 .. MaxSteps BY WorkflowAssumption
  <2>2. new \in Run /\ new.step <= Len(Workflow[new.agent])
    BY <2>1, CallersAssumption DEF Run, Calling
  <2>3. runs' \in [Runs -> Run \cup {Absent}] BY <1>1, <2>2 DEF StartWorkflow, TypeOK
  <2>4. \A s \in Runs : runs'[s] # Absent => runs'[s].step <= Len(Workflow[runs'[s].agent])
    BY <1>1, <2>2 DEF StartWorkflow, TypeOK
  <2> QED BY <1>1, <2>3, <2>4 DEF StartWorkflow, TypeOK
<1>2. CASE WorkflowDenied(r)
  <2>1. runs[r] # Absent BY <1>2 DEF WorkflowDenied, Calls
  <2>2. task' \in TaskState \cup {Absent} BY <1>2, DenyType DEF WorkflowDenied
  <2>3. Advance(r, Refusal(RequestOf(r))) BY <1>2 DEF WorkflowDenied
  <2> HIDE DEF TypeOK
  <2>4. /\ runs' \in [Runs -> Run \cup {Absent}]
        /\ \A s \in Runs : runs'[s] # Absent => runs'[s].step <= Len(Workflow[runs'[s].agent])
    BY <2>1, <2>3, AdvanceType
  <2> QED BY <1>2, <2>2, <2>4 DEF WorkflowDenied, Deny, TypeOK
<1>3. CASE WorkflowGranted(r)
  <2>1. runs[r] # Absent BY <1>3 DEF WorkflowGranted, Calls
  <2>2. Issue(GrantOf(r), RequestOf(r)) BY <1>3 DEF WorkflowGranted
  <2>3. /\ grants' \in [GrantIds -> Grant \cup {Absent}]
        /\ approvals' \in [Approvals -> Approval \cup {Absent}]
    BY <2>1, <2>2, RunFacts, WorkflowRequest, IssueType
  <2>4. runs' = [runs EXCEPT ![r].phase = "execute"] BY <1>3 DEF WorkflowGranted
  <2>5. /\ runs' \in [Runs -> Run \cup {Absent}]
        /\ \A s \in Runs : runs'[s] # Absent => runs'[s].step <= Len(Workflow[runs'[s].agent])
    BY <2>1, <2>4, PhaseType DEF Calling
  <2> QED BY <1>3, <2>3, <2>5 DEF WorkflowGranted, Issue, TypeOK
<1>4. CASE WorkflowRefused(r)
  <2>1. runs[r] # Absent BY <1>4 DEF WorkflowRefused, Calls
  <2>2. \E code : Advance(r, code) BY <1>4 DEF WorkflowRefused
  <2>3. /\ runs' \in [Runs -> Run \cup {Absent}]
        /\ \A s \in Runs : runs'[s] # Absent => runs'[s].step <= Len(Workflow[runs'[s].agent])
    BY <2>1, <2>2, AdvanceType
  <2> QED BY <1>4, <2>3 DEF WorkflowRefused, Refuse, TypeOK
<1>5. ASSUME NEW result \in Results, WorkflowServed(r, result) PROVE TypeOK'
  <2>1. runs[r] # Absent /\ runs[r].phase = "execute" BY <1>5 DEF WorkflowServed, Calls
  <2>2. grants[GrantOf(r)] # Absent /\ GrantOf(r) \in GrantIds
    BY <2>1, RunFacts DEF ExecutesGrant
  <2>3. grants[GrantOf(r)] \in Grant BY <2>2 DEF TypeOK
  <2>4. ClaimOf(grants[GrantOf(r)]) \in Claim BY <2>3 DEF ClaimOf, Claim, Grant
  <2>5. Serve(GrantOf(r), ClaimOf(grants[GrantOf(r)]), result) BY <1>5 DEF WorkflowServed
  <2>6. grants' \in [GrantIds -> Grant \cup {Absent}] /\ calls' \subseteq Call
    BY <2>2, <2>4, <2>5, ServeType
  <2>7. Advance(r, AnswerCode(result)) BY <1>5 DEF WorkflowServed
  <2>8. /\ runs' \in [Runs -> Run \cup {Absent}]
        /\ \A s \in Runs : runs'[s] # Absent => runs'[s].step <= Len(Workflow[runs'[s].agent])
    BY <2>1, <2>7, AdvanceType
  <2> QED BY <1>5, <2>6, <2>8 DEF WorkflowServed, TypeOK
<1>6. CASE CallFails(r)
  <2>1. runs[r] # Absent BY <1>6 DEF CallFails, Calls
  <2>2. runs' = [runs EXCEPT ![r].phase = "raised"] BY <1>6 DEF CallFails
  <2>3. /\ runs' \in [Runs -> Run \cup {Absent}]
        /\ \A s \in Runs : runs'[s] # Absent => runs'[s].step <= Len(Workflow[runs'[s].agent])
    BY <2>1, <2>2, PhaseType DEF Outcomes
  <2> QED BY <1>6, <2>3 DEF CallFails, TypeOK
<1> QED BY <1>1, <1>2, <1>3, <1>4, <1>5, <1>6 DEF Workflows

LEMMA AsksType ==
  ASSUME TypeOK, NEW c \in Others, Asks(c)
  PROVE  /\ asked' \in [Others -> 0 .. MaxCalls]
         /\ asked'[c] = asked[c] + 1 /\ asked[c] + 1 \in 1 .. MaxSteps
         /\ \A d \in Others : d # c => asked'[d] = asked[d]
         /\ <<c, asked[c] + 1>> \in GrantIds
<1>1. asked[c] \in 0 .. MaxCalls /\ asked[c] < MaxCalls BY DEF Asks, TypeOK
<1>2. asked[c] + 1 \in 1 .. MaxSteps BY <1>1, CallersAssumption
<1> QED BY <1>1, <1>2, CallersAssumption DEF Asks, TypeOK, GrantIds

LEMMA OthersType ==
  ASSUME TypeOK, NEW c \in Others, OtherCalls(c)
  PROVE  TypeOK'
<1> USE DEF documents
<1>1. ASSUME NEW d \in Delegations, NEW q \in Requests, OtherDenied(c, RequestAbout(d, q))
      PROVE  TypeOK'
  <2>1. asked' \in [Others -> 0 .. MaxCalls] BY <1>1, AsksType DEF OtherDenied
  <2>2. task' \in TaskState \cup {Absent} BY <1>1, DenyType DEF OtherDenied
  <2> QED BY <1>1, <2>1, <2>2 DEF OtherDenied, Deny, TypeOK
<1>2. ASSUME NEW d \in Delegations, NEW q \in Requests, OtherGranted(c, RequestAbout(d, q))
      PROVE  TypeOK'
  <2>1. asked' \in [Others -> 0 .. MaxCalls] /\ <<c, asked[c] + 1>> \in GrantIds
    BY <1>2, AsksType DEF OtherGranted
  <2>2. Issue(<<c, asked[c] + 1>>, RequestAbout(d, q)) BY <1>2 DEF OtherGranted
  <2>3. /\ grants' \in [GrantIds -> Grant \cup {Absent}]
        /\ approvals' \in [Approvals -> Approval \cup {Absent}]
    BY <2>1, <2>2, OtherRequest, IssueType
  <2> QED BY <1>2, <2>1, <2>3 DEF OtherGranted, Issue, TypeOK
<1>3. ASSUME NEW id \in GrantIds, NEW m \in Claims, OtherRefused(c, id, m) PROVE TypeOK'
  BY <1>3 DEF OtherRefused, Refuse, TypeOK
<1>4. ASSUME NEW id \in GrantIds, NEW m \in Claims, NEW result \in Results,
             OtherServed(c, id, m, result)
      PROVE  TypeOK'
  <2>1. grants[id] # Absent /\ Serve(id, m, result) BY <1>4 DEF OtherServed, Holds
  <2>2. m \in Claim BY ConstantsAssumption
  <2>3. grants' \in [GrantIds -> Grant \cup {Absent}] /\ calls' \subseteq Call
    BY <2>1, <2>2, ServeType
  <2> QED BY <1>4, <2>3 DEF OtherServed, TypeOK
<1> QED BY <1>1, <1>2, <1>3, <1>4 DEF OtherCalls

LEMMA NextType == TypeOK /\ ExecutesGrant /\ [Next]_vars => TypeOK'
<1>1. ASSUME TypeOK, UNCHANGED vars PROVE TypeOK' BY <1>1 DEF TypeOK, vars, documents
<1> QED BY <1>1, PeopleType, WorkflowsType, OthersType DEF Next

---------------------------------------------------------------------------
(* Frames: what the steps of each kind leave alone. *)

LEMMA PeopleFrame == People => UNCHANGED <<config, grants, runs, asked, calls>>
  BY DEF People, CreateDelegation, EndDelegation, Approve, MoveTask, DeployPolicy, documents

LEMMA AdvanceFrame ==
  ASSUME TypeOK, NEW r \in Runs, runs[r] # Absent, NEW code, Advance(r, code)
  PROVE  /\ \A s \in Runs : s # r => runs'[s] = runs[s]
         /\ runs'[r] # Absent
         /\ runs'[r].agent = runs[r].agent
         /\ runs'[r].phase = After(r, code)
         /\ runs'[r].step = IF After(r, code) = "evaluate" THEN runs[r].step + 1 ELSE runs[r].step
         /\ runs'[r].phase # "execute"
<1>1. runs[r] \in Run BY RunFacts
<1>2. runs'[r] = [runs[r] EXCEPT !.phase = After(r, code),
                    !.step = IF After(r, code) = "evaluate" THEN @ + 1 ELSE @]
  BY AdvanceType
<1>3. runs'[r] \in Run BY AdvanceType
<1>4. runs'[r] # Absent BY <1>3, AbsentAssumption
<1>5. /\ runs'[r].agent = runs[r].agent
      /\ runs'[r].phase = After(r, code)
      /\ runs'[r].step = IF After(r, code) = "evaluate" THEN runs[r].step + 1 ELSE runs[r].step
  BY <1>1, <1>2 DEF Run
<1>6. \A s \in Runs : s # r => runs'[s] = runs[s] BY DEF Advance, TypeOK
<1> QED BY <1>4, <1>5, <1>6, AfterType DEF Outcomes

PhaseFrame(r, phase) ==
  /\ \A s \in Runs : s # r => runs'[s] = runs[s]
  /\ runs'[r] # Absent
  /\ runs'[r].agent = runs[r].agent
  /\ runs'[r].step = runs[r].step
  /\ runs'[r].phase = phase

LEMMA PhaseKept ==
  ASSUME TypeOK, NEW r \in Runs, runs[r] # Absent, NEW phase \in Calling \cup Outcomes,
         runs' = [runs EXCEPT ![r].phase = phase]
  PROVE  PhaseFrame(r, phase)
<1>1. runs'[r] \in Run BY PhaseType
<1>2. runs'[r] # Absent BY <1>1, AbsentAssumption
<1>3. \A s \in Runs : s # r => runs'[s] = runs[s] BY DEF TypeOK
<1> QED BY <1>2, <1>3, PhaseType DEF PhaseFrame

LEMMA IssueFrame ==
  ASSUME TypeOK, NEW id \in GrantIds, NEW q \in Request, Issue(id, q)
  PROVE  /\ grants'[id] # Absent
         /\ \A other \in GrantIds : other # id => grants'[other] = grants[other]
<1>1. grants'[id] \in Grant BY IssueType
<1>2. grants'[id] # Absent BY <1>1, AbsentAssumption
<1>3. \A other \in GrantIds : other # id => grants'[other] = grants[other]
  BY DEF Issue, TypeOK
<1> QED BY <1>2, <1>3

LEMMA ServeFrame ==
  ASSUME TypeOK, NEW id \in GrantIds, NEW m, NEW result, grants[id] # Absent,
         Serve(id, m, result)
  PROVE  /\ \A other \in GrantIds : other # id => grants'[other] = grants[other]
         /\ grants'[id] = [grants[id] EXCEPT !.status = "consumed"]
         /\ grants[id] \in Grant /\ grants'[id] \in Grant
         /\ grants'[id] # Absent
<1>1. grants[id] \in Grant BY DEF TypeOK
<1>2. grants'[id] = [grants[id] EXCEPT !.status = "consumed"] BY DEF Serve, TypeOK
<1>3. grants'[id] \in Grant BY <1>1, <1>2 DEF Grant
<1>4. grants'[id] # Absent BY <1>3, AbsentAssumption
<1> QED BY <1>1, <1>2, <1>3, <1>4 DEF Serve, TypeOK

SamePlaces == \A id \in GrantIds : grants'[id] # Absent <=> grants[id] # Absent

---------------------------------------------------------------------------
(* The places of the callers. *)

LEMMA PlaceIds ==
  /\ \A r \in Runs, k \in 1 .. MaxSteps : <<r, k>> \in GrantIds
  /\ \A c \in Others, k \in 1 .. MaxSteps : <<c, k>> \in GrantIds
  BY DEF GrantIds

LEMMA AdvancePlaces ==
  ASSUME TypeOK, PlacesFresh, ExecutesGrant, NEW r \in Runs, runs[r] # Absent, NEW code,
         Advance(r, code), SamePlaces, UNCHANGED asked
  PROVE  PlacesFresh' /\ ExecutesGrant'
<1>1. ASSUME NEW s \in Runs, NEW k \in 1 .. MaxSteps, grants'[<<s, k>>] # Absent
      PROVE  /\ runs'[s] # Absent
             /\ k <= runs'[s].step
             /\ runs'[s].phase = "evaluate" => k # runs'[s].step
  <2>1. grants[<<s, k>>] # Absent BY <1>1, PlaceIds DEF SamePlaces
  <2>2. CASE s # r BY <2>1, <2>2, AdvanceFrame DEF PlacesFresh
  <2>3. CASE s = r
    <3>1. k <= runs[r].step BY <2>1, <2>3 DEF PlacesFresh
    <3> QED BY <2>3, <3>1, AdvanceFrame, RunFacts, CallersAssumption
  <2> QED BY <2>2, <2>3
<1>2. ASSUME NEW c \in Others, NEW k \in 1 .. MaxSteps, grants'[<<c, k>>] # Absent
      PROVE  k <= asked'[c]
  BY <1>2, PlaceIds DEF SamePlaces, PlacesFresh
<1>3. ASSUME NEW s \in Runs, runs'[s] # Absent, runs'[s].phase = "execute"
      PROVE  grants'[<<s, runs'[s].step>>] # Absent
  <2>1. s # r BY <1>3, AdvanceFrame
  <2>2. runs'[s] = runs[s] BY <2>1, AdvanceFrame
  <2> QED BY <1>3, <2>2, RunFacts, PlaceIds DEF SamePlaces, ExecutesGrant
<1> QED BY <1>1, <1>2, <1>3 DEF PlacesFresh, ExecutesGrant

LEMMA PlacesNext ==
  ASSUME TypeOK, PlacesFresh, ExecutesGrant, [Next]_vars
  PROVE  PlacesFresh' /\ ExecutesGrant'
<1>1. CASE People \/ UNCHANGED vars
  <2>1. UNCHANGED <<grants, runs, asked>> BY <1>1, PeopleFrame DEF vars, documents
  <2> QED BY <2>1 DEF PlacesFresh, ExecutesGrant
<1>2. ASSUME NEW r \in Runs, NEW agent \in Agents, NEW d \in Delegations,
             StartWorkflow(r, agent, d)
      PROVE  PlacesFresh' /\ ExecutesGrant'
  <2>1. /\ UNCHANGED <<grants, asked>> /\ runs[r] = Absent
        /\ \A s \in Runs : s # r => runs'[s] = runs[s]
        /\ runs'[r].phase = "evaluate"
    BY <1>2 DEF StartWorkflow, documents, TypeOK
  <2> QED BY <2>1 DEF PlacesFresh, ExecutesGrant
<1>3. ASSUME NEW r \in Runs, WorkflowDenied(r) PROVE PlacesFresh' /\ ExecutesGrant'
  BY <1>3, AdvancePlaces DEF WorkflowDenied, Calls, Deny, documents, SamePlaces
<1>4. ASSUME NEW r \in Runs, WorkflowGranted(r) PROVE PlacesFresh' /\ ExecutesGrant'
  <2>1. runs[r] # Absent /\ runs[r].phase = "evaluate" /\ UNCHANGED asked
        /\ Issue(GrantOf(r), RequestOf(r)) /\ runs' = [runs EXCEPT ![r].phase = "execute"]
    BY <1>4 DEF WorkflowGranted, Calls
  <2>2. GrantOf(r) = <<r, runs[r].step>> /\ GrantOf(r) \in GrantIds BY <2>1, RunFacts
  <2>3. /\ grants'[<<r, runs[r].step>>] # Absent
        /\ \A id \in GrantIds : id # <<r, runs[r].step>> => grants'[id] = grants[id]
    BY <2>1, <2>2, WorkflowRequest, IssueFrame
  <2>4. PhaseFrame(r, "execute") BY <2>1, PhaseKept DEF Calling
  <2>5. ASSUME NEW s \in Runs, NEW k \in 1 .. MaxSteps, grants'[<<s, k>>] # Absent
        PROVE  /\ runs'[s] # Absent
               /\ k <= runs'[s].step
               /\ runs'[s].phase = "evaluate" => k # runs'[s].step
    <3>1. CASE <<s, k>> = <<r, runs[r].step>>
      BY <2>1, <2>4, <3>1, RunFacts, CallersAssumption DEF PhaseFrame
    <3>2. CASE <<s, k>> # <<r, runs[r].step>>
      <4>1. grants[<<s, k>>] # Absent BY <2>3, <2>5, <3>2, PlaceIds
      <4> QED BY <2>4, <4>1 DEF PlacesFresh, PhaseFrame
    <3> QED BY <3>1, <3>2
  <2>6. ASSUME NEW c \in Others, NEW k \in 1 .. MaxSteps, grants'[<<c, k>>] # Absent
        PROVE  k <= asked'[c]
    <3>1. <<c, k>> # <<r, runs[r].step>> BY CallersAssumption
    <3>2. grants[<<c, k>>] # Absent BY <2>3, <2>6, <3>1, PlaceIds
    <3> QED BY <2>1, <3>2 DEF PlacesFresh
  <2>7. ASSUME NEW s \in Runs, runs'[s] # Absent, runs'[s].phase = "execute"
        PROVE  grants'[<<s, runs'[s].step>>] # Absent
    <3>1. CASE s = r BY <2>3, <2>4, <3>1 DEF PhaseFrame
    <3>2. CASE s # r
      <4>1. runs'[s] = runs[s] BY <2>4, <3>2 DEF PhaseFrame
      <4>2. <<s, runs[s].step>> \in GrantIds BY <2>7, <4>1, RunFacts
      <4>3. <<s, runs[s].step>> # <<r, runs[r].step>> BY <3>2
      <4> QED BY <2>3, <2>7, <4>1, <4>2, <4>3 DEF ExecutesGrant
    <3> QED BY <3>1, <3>2
  <2> QED BY <2>5, <2>6, <2>7 DEF PlacesFresh, ExecutesGrant
<1>5. ASSUME NEW r \in Runs, WorkflowRefused(r) PROVE PlacesFresh' /\ ExecutesGrant'
  <2>1. \E code : Advance(r, code) BY <1>5 DEF WorkflowRefused
  <2>2. runs[r] # Absent /\ UNCHANGED <<grants, asked>> BY <1>5 DEF WorkflowRefused, Calls, Refuse
  <2> QED BY <2>1, <2>2, AdvancePlaces DEF SamePlaces
<1>6. ASSUME NEW r \in Runs, NEW result \in Results, WorkflowServed(r, result)
      PROVE  PlacesFresh' /\ ExecutesGrant'
  <2>1. runs[r] # Absent /\ runs[r].phase = "execute" /\ UNCHANGED asked
        /\ Advance(r, AnswerCode(result))
        /\ Serve(GrantOf(r), ClaimOf(grants[GrantOf(r)]), result)
    BY <1>6 DEF WorkflowServed, Calls
  <2>2. grants[GrantOf(r)] # Absent /\ GrantOf(r) \in GrantIds
    BY <2>1, RunFacts DEF ExecutesGrant
  <2>3. SamePlaces BY <2>1, <2>2, ServeFrame DEF SamePlaces
  <2> QED BY <2>1, <2>3, AdvancePlaces
<1>7. ASSUME NEW r \in Runs, CallFails(r) PROVE PlacesFresh' /\ ExecutesGrant'
  <2>1. runs[r] # Absent /\ UNCHANGED <<grants, asked>>
        /\ runs' = [runs EXCEPT ![r].phase = "raised"]
    BY <1>7 DEF CallFails, Calls, documents
  <2>2. PhaseFrame(r, "raised") BY <2>1, PhaseKept DEF Outcomes
  <2> QED BY <2>1, <2>2 DEF PlacesFresh, ExecutesGrant, PhaseFrame
<1>8. ASSUME NEW c \in Others, NEW q, OtherDenied(c, q) PROVE PlacesFresh' /\ ExecutesGrant'
  <2>1. UNCHANGED <<grants, runs>> /\ Asks(c) BY <1>8 DEF OtherDenied, Deny, documents
  <2>2. \A d \in Others : asked'[d] = asked[d] \/ asked'[d] = asked[d] + 1
    BY <2>1, AsksType
  <2>3. \A d \in Others : asked[d] \in Nat BY DEF TypeOK
  <2>4. \A d \in Others, k \in 1 .. MaxSteps : k <= asked[d] => k <= asked'[d]
    BY <2>2, <2>3
  <2> QED BY <2>1, <2>4 DEF PlacesFresh, ExecutesGrant
<1>9. ASSUME NEW c \in Others, NEW d \in Delegations, NEW q \in Requests,
             OtherGranted(c, RequestAbout(d, q))
      PROVE  PlacesFresh' /\ ExecutesGrant'
  <2> DEFINE id == <<c, asked[c] + 1>>
  <2>1. UNCHANGED runs /\ Asks(c) /\ Issue(id, RequestAbout(d, q)) BY <1>9 DEF OtherGranted
  <2>2. id \in GrantIds BY <2>1, AsksType
  <2>3. /\ grants'[id] # Absent
        /\ \A other \in GrantIds : other # id => grants'[other] = grants[other]
    BY <2>1, <2>2, OtherRequest, IssueFrame
  <2>4. \A r \in Runs, k \in 1 .. MaxSteps : grants'[<<r, k>>] = grants[<<r, k>>]
    BY <2>3, PlaceIds, CallersAssumption
  <2>5. ASSUME NEW b \in Others, NEW k \in 1 .. MaxSteps, grants'[<<b, k>>] # Absent
        PROVE  k <= asked'[b]
    <3>1. asked[b] \in Nat /\ asked[c] \in Nat BY DEF TypeOK
    <3>2. CASE <<b, k>> = id BY <2>1, <3>1, <3>2, AsksType
    <3>3. CASE <<b, k>> # id
      <4>1. grants[<<b, k>>] # Absent BY <2>3, <2>5, <3>3, PlaceIds
      <4>2. k <= asked[b] BY <4>1 DEF PlacesFresh
      <4> QED BY <2>1, <3>1, <4>2, AsksType
    <3> QED BY <3>2, <3>3
  <2>6. ExecutesGrant'
    <3>1. ASSUME NEW r \in Runs, runs[r] # Absent, runs[r].phase = "execute"
          PROVE  grants'[<<r, runs[r].step>>] # Absent
      BY <2>4, <3>1, RunFacts DEF ExecutesGrant
    <3> QED BY <2>1, <3>1 DEF ExecutesGrant
  <2> QED BY <2>1, <2>4, <2>5, <2>6 DEF PlacesFresh
<1>10. ASSUME NEW c \in Others, NEW id \in GrantIds, NEW m \in Claims,
              OtherRefused(c, id, m) \/ \E result \in Results : OtherServed(c, id, m, result)
       PROVE  PlacesFresh' /\ ExecutesGrant'
  <2>1. UNCHANGED <<runs, asked>> BY <1>10 DEF OtherRefused, OtherServed
  <2>2. SamePlaces
    <3>1. CASE OtherRefused(c, id, m) BY <3>1 DEF OtherRefused, Refuse, SamePlaces
    <3>2. ASSUME NEW result \in Results, OtherServed(c, id, m, result) PROVE SamePlaces
      BY <3>2, ServeFrame DEF OtherServed, Holds, SamePlaces
    <3> QED BY <1>10, <3>1, <3>2
  <2>3. PlacesFresh' BY <2>1, <2>2, PlaceIds DEF SamePlaces, PlacesFresh
  <2>4. \A r \in Runs : runs[r] # Absent => <<r, runs[r].step>> \in GrantIds BY RunFacts
  <2>5. ExecutesGrant' BY <2>1, <2>2, <2>4 DEF SamePlaces, ExecutesGrant
  <2> QED BY <2>3, <2>5
<1> QED
  BY <1>1, <1>2, <1>3, <1>4, <1>5, <1>6, <1>7, <1>8, <1>9, <1>10
  DEF Next, Workflows, OtherCalls

---------------------------------------------------------------------------
(* What later steps keep of the documents. *)

(* All of a delegation but its status, all of an approval but the grant it *)
(* is spent on while it is not spent, all of a grant but its status.       *)
DelegationsKept ==
  \A d \in Delegations : delegations[d] # Absent =>
    /\ delegations'[d] # Absent
    /\ delegations'[d].purpose = delegations[d].purpose
    /\ delegations'[d].agents = delegations[d].agents
    /\ delegations'[d].regions = delegations[d].regions
    /\ delegations'[d].bound = delegations[d].bound

ApprovalsKept ==
  \A a \in Approvals : approvals[a] # Absent =>
    /\ approvals'[a] # Absent
    /\ approvals'[a].delegation = approvals[a].delegation
    /\ approvals'[a].subject = approvals[a].subject
    /\ approvals'[a].approver = approvals[a].approver
    /\ approvals[a].usedBy # Absent => approvals'[a].usedBy = approvals[a].usedBy

SameGrant(id) ==
  /\ grants'[id] # Absent
  /\ grants'[id].delegation = grants[id].delegation
  /\ grants'[id].agent = grants[id].agent
  /\ grants'[id].version = grants[id].version
  /\ grants'[id].tool = grants[id].tool
  /\ grants'[id].args = grants[id].args
  /\ grants'[id].region = grants[id].region
  /\ grants'[id].policyVersion = grants[id].policyVersion
  /\ grants[id].status = "consumed" => grants'[id].status = "consumed"

GrantsKept == \A id \in GrantIds : grants[id] # Absent => SameGrant(id)

Kept == DelegationsKept /\ ApprovalsKept /\ GrantsKept /\ UNCHANGED config

LEMMA IssueKeeps ==
  ASSUME TypeOK, NEW id \in GrantIds, NEW q \in Request, grants[id] = Absent, Issue(id, q),
         UNCHANGED config
  PROVE  Kept
<1>1. DelegationsKept BY DEF Issue, DelegationsKept
<1>2. ApprovalsKept
  <2>1. CASE UNCHANGED approvals BY <2>1 DEF ApprovalsKept
  <2>2. ASSUME NEW a \in Independent(q), BindApproval(a, id) PROVE ApprovalsKept
    <3>1. /\ a \in Approvals /\ approvals[a] # Absent /\ approvals[a] \in Approval
          /\ approvals[a].usedBy = Absent
      BY DEF Independent, Candidates, TypeOK
    <3> DEFINE new == [approvals[a] EXCEPT !.usedBy = id]
    <3>2. new \in Approval BY <3>1 DEF Approval
    <3>3. /\ new # Absent /\ new.delegation = approvals[a].delegation
          /\ new.subject = approvals[a].subject /\ new.approver = approvals[a].approver
      BY <3>1, <3>2, AbsentAssumption DEF Approval
    <3>4. approvals' = [approvals EXCEPT ![a] = new] BY <2>2 DEF BindApproval
    <3> HIDE DEF new
    <3>5. approvals'[a] = new /\ \A b \in Approvals : b # a => approvals'[b] = approvals[b]
      BY <3>1, <3>4 DEF TypeOK
    <3> QED BY <3>1, <3>3, <3>5 DEF ApprovalsKept
  <2> QED BY <2>1, <2>2 DEF Issue
<1>3. GrantsKept BY IssueFrame DEF GrantsKept, SameGrant
<1> QED BY <1>1, <1>2, <1>3 DEF Kept

LEMMA ServeKeeps ==
  ASSUME TypeOK, NEW id \in GrantIds, NEW m, NEW result, grants[id] # Absent,
         Serve(id, m, result)
  PROVE  GrantsKept /\ SameGrant(id) /\ grants'[id].status = "consumed"
<1>1. /\ \A other \in GrantIds : other # id => grants'[other] = grants[other]
      /\ grants'[id] = [grants[id] EXCEPT !.status = "consumed"]
      /\ grants[id] \in Grant /\ grants'[id] # Absent
  BY ServeFrame
<1>2. SameGrant(id) /\ grants'[id].status = "consumed" BY <1>1 DEF Grant, SameGrant
<1> QED BY <1>1, <1>2 DEF GrantsKept, SameGrant

LEMMA UnchangedKept ==
  ASSUME UNCHANGED <<documents, config>>
  PROVE  Kept
  BY DEF Kept, documents, DelegationsKept, ApprovalsKept, GrantsKept, SameGrant

(* The places where a grant is put are empty.                              *)
LEMMA PlacesEmpty ==
  ASSUME TypeOK, PlacesFresh
  PROVE  /\ \A r \in Runs : runs[r] # Absent /\ runs[r].phase = "evaluate" =>
              GrantOf(r) \in GrantIds /\ grants[GrantOf(r)] = Absent
         /\ \A c \in Others : Asks(c) =>
              <<c, asked[c] + 1>> \in GrantIds /\ grants[<<c, asked[c] + 1>>] = Absent
<1>1. ASSUME NEW r \in Runs, runs[r] # Absent, runs[r].phase = "evaluate"
      PROVE  GrantOf(r) \in GrantIds /\ grants[GrantOf(r)] = Absent
  BY <1>1, RunFacts DEF PlacesFresh
<1>2. ASSUME NEW c \in Others, Asks(c)
      PROVE  <<c, asked[c] + 1>> \in GrantIds /\ grants[<<c, asked[c] + 1>>] = Absent
  <2>1. asked[c] + 1 \in 1 .. MaxSteps /\ <<c, asked[c] + 1>> \in GrantIds BY <1>2, AsksType
  <2>2. ~(asked[c] + 1 <= asked[c]) BY DEF TypeOK
  <2> QED BY <2>1, <2>2 DEF PlacesFresh
<1> QED BY <1>1, <1>2

LEMMA PeopleKeep == TypeOK /\ People => Kept
<1> SUFFICES ASSUME TypeOK, People PROVE Kept OBVIOUS
<1> USE DEF documents
<1>1. ASSUME NEW d \in Delegations, NEW offer \in Offers, CreateDelegation(d, offer)
      PROVE  Kept
  <2>1. DelegationsKept BY <1>1 DEF CreateDelegation, DelegationsKept, TypeOK
  <2> QED BY <1>1, <2>1 DEF CreateDelegation, Kept, ApprovalsKept, GrantsKept, SameGrant
<1>2. ASSUME NEW d \in Delegations, NEW status \in {"revoked", "expired"},
             EndDelegation(d, status)
      PROVE  Kept
  <2> DEFINE new == [delegations[d] EXCEPT !.status = status]
  <2>1. delegations[d] \in Delegation BY <1>2 DEF EndDelegation, TypeOK
  <2>2. /\ new \in Delegation /\ new.purpose = delegations[d].purpose
        /\ new.agents = delegations[d].agents /\ new.regions = delegations[d].regions
        /\ new.bound = delegations[d].bound
    BY <2>1 DEF Delegation
  <2>3. delegations' = [delegations EXCEPT ![d] = new] BY <1>2 DEF EndDelegation
  <2> HIDE DEF new
  <2>4. /\ delegations'[d] = new /\ new # Absent
        /\ \A e \in Delegations : e # d => delegations'[e] = delegations[e]
    BY <2>2, <2>3, AbsentAssumption DEF TypeOK
  <2>5. DelegationsKept BY <2>2, <2>4 DEF DelegationsKept
  <2> QED BY <1>2, <2>5 DEF EndDelegation, Kept, ApprovalsKept, GrantsKept, SameGrant
<1>3. ASSUME NEW a \in Approvals, NEW d \in Delegations, NEW s \in Subjects,
             NEW by \in {"sponsor", "controller"}, Approve(a, d, s, by)
      PROVE  Kept
  <2>1. ApprovalsKept BY <1>3 DEF Approve, ApprovalsKept, TypeOK
  <2> QED BY <1>3, <2>1 DEF Approve, Kept, DelegationsKept, GrantsKept, SameGrant
<1>4. ASSUME NEW event \in TaskMoves, MoveTask(event) PROVE Kept
  BY <1>4, UnchangedKept DEF MoveTask
<1>5. CASE DeployPolicy BY <1>5, UnchangedKept DEF DeployPolicy
<1> QED BY <1>1, <1>2, <1>3, <1>4, <1>5 DEF People

LEMMA StepKeeps ==
  ASSUME TypeOK, PlacesFresh, ExecutesGrant, [Next]_vars
  PROVE  Kept
<1>1. CASE People BY <1>1, PeopleKeep
<1>2. CASE UNCHANGED vars BY <1>2, UnchangedKept DEF vars
<1>3. ASSUME NEW r \in Runs, Workflows(r) PROVE Kept
  <2>1. ASSUME NEW agent \in Agents, NEW d \in Delegations, StartWorkflow(r, agent, d)
        PROVE  Kept
    BY <2>1, UnchangedKept DEF StartWorkflow
  <2>2. CASE WorkflowDenied(r) BY <2>2, UnchangedKept DEF WorkflowDenied, Deny
  <2>3. CASE WorkflowGranted(r)
    <3>1. /\ runs[r] # Absent /\ runs[r].phase = "evaluate" /\ UNCHANGED config
          /\ Issue(GrantOf(r), RequestOf(r))
      BY <2>3 DEF WorkflowGranted, Calls
    <3> QED BY <3>1, PlacesEmpty, WorkflowRequest, IssueKeeps
  <2>4. CASE WorkflowRefused(r) BY <2>4, UnchangedKept DEF WorkflowRefused, Refuse, documents
  <2>5. ASSUME NEW result \in Results, WorkflowServed(r, result) PROVE Kept
    <3>1. /\ runs[r] # Absent /\ runs[r].phase = "execute"
          /\ UNCHANGED <<config, delegations, approvals>>
          /\ Serve(GrantOf(r), ClaimOf(grants[GrantOf(r)]), result)
      BY <2>5 DEF WorkflowServed, Calls
    <3>2. grants[GrantOf(r)] # Absent /\ GrantOf(r) \in GrantIds
      BY <3>1, RunFacts DEF ExecutesGrant
    <3>3. GrantsKept BY <3>1, <3>2, ServeKeeps
    <3> QED BY <3>1, <3>3 DEF Kept, DelegationsKept, ApprovalsKept
  <2>6. CASE CallFails(r) BY <2>6, UnchangedKept DEF CallFails
  <2> QED BY <1>3, <2>1, <2>2, <2>3, <2>4, <2>5, <2>6 DEF Workflows
<1>4. ASSUME NEW c \in Others, OtherCalls(c) PROVE Kept
  <2>1. ASSUME NEW q, OtherDenied(c, q) PROVE Kept
    BY <2>1, UnchangedKept DEF OtherDenied, Deny
  <2>2. ASSUME NEW d \in Delegations, NEW q \in Requests, OtherGranted(c, RequestAbout(d, q))
        PROVE  Kept
    BY <2>2, PlacesEmpty, OtherRequest, IssueKeeps DEF OtherGranted
  <2>3. ASSUME NEW id \in GrantIds, NEW m \in Claims, OtherRefused(c, id, m) PROVE Kept
    BY <2>3, UnchangedKept DEF OtherRefused, Refuse, documents
  <2>4. ASSUME NEW id \in GrantIds, NEW m \in Claims, NEW result \in Results,
               OtherServed(c, id, m, result)
        PROVE  Kept
    <3>1. GrantsKept BY <2>4, ServeKeeps DEF OtherServed, Holds
    <3> QED BY <2>4, <3>1 DEF OtherServed, Kept, DelegationsKept, ApprovalsKept
  <2> QED BY <1>4, <2>1, <2>2, <2>3, <2>4 DEF OtherCalls
<1> QED BY <1>1, <1>2, <1>3, <1>4 DEF Next

---------------------------------------------------------------------------
(* Grants and calls are within their bounds. *)

LEMMA ExtendsTransitive ==
  ASSUME NEW x, NEW y, NEW z, Extends(x, y), Extends(y, z)
  PROVE  Extends(x, z)
  BY DEF Extends

LEMMA NarrowKept ==
  ASSUME TypeOK, Kept, NEW id \in GrantIds, grants[id] # Absent, Narrow(grants[id])
  PROVE  Narrow(grants[id])' /\ RuleOf(grants[id])' = RuleOf(grants[id])
<1>1. grants[id].delegation \in Delegations BY DEF TypeOK, Grant
<1>2. delegations[grants[id].delegation] # Absent BY DEF Narrow
<1>3. SameGrant(id) BY DEF Kept, GrantsKept
<1> QED BY <1>1, <1>2, <1>3 DEF Narrow, RuleOf, Kept, DelegationsKept, SameGrant

LEMMA ApprovedKept ==
  ASSUME TypeOK, Kept, NEW id \in GrantIds, NEW args, grants[id] # Absent, ApprovedFor(id, args)
  PROVE  \E a \in Approvals :
           /\ approvals'[a] # Absent /\ approvals'[a].usedBy = id
           /\ approvals'[a].approver # "sponsor"
           /\ approvals'[a].delegation = grants'[id].delegation
           /\ Extends(args, approvals'[a].subject)
<1>1. PICK a \in Approvals :
        /\ approvals[a] # Absent /\ approvals[a].usedBy = id
        /\ approvals[a].approver # "sponsor"
        /\ approvals[a].delegation = grants[id].delegation
        /\ Extends(args, approvals[a].subject)
  BY DEF ApprovedFor
<1>2. id # Absent BY AbsentAssumption
<1>3. SameGrant(id) BY DEF Kept, GrantsKept
<1> QED BY <1>1, <1>2, <1>3 DEF Kept, ApprovalsKept, SameGrant

LEMMA SoundKept ==
  ASSUME TypeOK, Kept, NEW id \in GrantIds, grants[id] # Absent, Sound(id)
  PROVE  Sound(id)'
<1>1. Narrow(grants[id])' /\ RuleOf(grants[id])' = RuleOf(grants[id])
  BY NarrowKept DEF Sound
<1>2. grants'[id].args = grants[id].args BY DEF Kept, GrantsKept, SameGrant
<1>3. ASSUME RuleOf(grants[id])'.approval PROVE ApprovedFor(id, grants[id].args)'
  BY <1>1, <1>2, <1>3, ApprovedKept DEF Sound, ApprovedFor
<1> QED BY <1>1, <1>3 DEF Sound

LEMMA NoRefusal ==
  ASSUME NEW q, Refusal(q) = "none"
  PROVE  ScopeRefusal(q) = "none" /\ PolicyRefusal(q) = "none" /\ CallRefusal(q) = "none"
  BY DEF Refusal

LEMMA IssueSound ==
  ASSUME TypeOK, NEW id \in GrantIds, NEW q \in Request, Issue(id, q)
  PROVE  Sound(id)'
<1> DEFINE g == [delegation |-> q.delegation, agent |-> q.agent, version |-> q.version,
                 tool |-> q.tool, args |-> q.args, region |-> q.region,
                 policyVersion |-> policyVersion, status |-> "issued"]
<1>1. grants'[id] = g BY DEF Issue, TypeOK
<1>2. /\ grants'[id].delegation = q.delegation /\ grants'[id].agent = q.agent
      /\ grants'[id].version = q.version /\ grants'[id].tool = q.tool
      /\ grants'[id].args = q.args /\ grants'[id].region = q.region
      /\ grants'[id].policyVersion = policyVersion
  BY <1>1
<1> HIDE DEF g
<1>3. Refusal(q) = "none" /\ delegations' = delegations BY DEF Issue
<1>4. delegations[q.delegation] # Absent /\ delegations[q.delegation].bound
  BY <1>3, NoRefusal DEF ScopeRefusal
<1>5. /\ AllowsAgent(delegations[q.delegation], q.agent) /\ Declared(q)
      /\ q.version = Manifests[q.agent].version
      /\ q.region \in delegations[q.delegation].regions
      /\ InPolicy(Policy, delegations[q.delegation].purpose, q.agent, q.tool)
  BY <1>3, NoRefusal DEF PolicyRefusal
<1>6. Narrow(grants[id])'
  BY <1>2, <1>3, <1>4, <1>5 DEF Narrow, AllowsAgent, Declared, CanRequestTool, Policy
<1>7. RuleOf(grants[id])' = RuleFor(q) BY <1>2, <1>3 DEF RuleOf, RuleFor, Policy
<1>8. ASSUME RuleFor(q).approval PROVE ApprovedFor(id, grants[id].args)'
  <2>1. PICK a \in Independent(q) : BindApproval(a, id) BY <1>8 DEF Issue
  <2>2. /\ a \in Approvals /\ approvals[a] \in Approval /\ approvals[a].approver # "sponsor"
        /\ approvals[a].delegation = q.delegation /\ Extends(q.args, approvals[a].subject)
    BY DEF Independent, Candidates, TypeOK
  <2>3. approvals'[a] = [approvals[a] EXCEPT !.usedBy = id]
    BY <2>1, <2>2 DEF BindApproval, TypeOK
  <2>4. approvals'[a] \in Approval BY <2>2, <2>3 DEF Approval
  <2>5. /\ approvals'[a] # Absent /\ approvals'[a].usedBy = id
        /\ approvals'[a].approver = approvals[a].approver
        /\ approvals'[a].delegation = approvals[a].delegation
        /\ approvals'[a].subject = approvals[a].subject
    BY <2>2, <2>3, <2>4, AbsentAssumption DEF Approval
  <2> QED BY <1>2, <2>2, <2>5 DEF ApprovedFor
<1> QED BY <1>6, <1>7, <1>8 DEF Sound

(* Where a step puts a grant.                                              *)
LEMMA NewGrants ==
  ASSUME TypeOK, PlacesFresh, ExecutesGrant, [Next]_vars, NEW id \in GrantIds,
         grants[id] = Absent, grants'[id] # Absent
  PROVE  \E q \in Request : Issue(id, q)
<1>1. CASE People \/ UNCHANGED vars BY <1>1, PeopleFrame DEF vars, documents
<1>2. ASSUME NEW r \in Runs, Workflows(r) PROVE \E q \in Request : Issue(id, q)
  <2>1. CASE WorkflowGranted(r)
    <3>1. /\ runs[r] # Absent /\ Issue(GrantOf(r), RequestOf(r))
      BY <2>1 DEF WorkflowGranted, Calls
    <3>2. RequestOf(r) \in Request /\ GrantOf(r) \in GrantIds
      BY <3>1, WorkflowRequest, RunFacts
    <3>3. id = GrantOf(r) BY <3>1, <3>2, IssueFrame
    <3> QED BY <3>1, <3>2, <3>3
  <2>2. ASSUME NEW result \in Results, WorkflowServed(r, result) PROVE FALSE
    <3>1. /\ runs[r] # Absent /\ runs[r].phase = "execute"
          /\ Serve(GrantOf(r), ClaimOf(grants[GrantOf(r)]), result)
      BY <2>2 DEF WorkflowServed, Calls
    <3>2. grants[GrantOf(r)] # Absent /\ GrantOf(r) \in GrantIds
      BY <3>1, RunFacts DEF ExecutesGrant
    <3> QED BY <3>1, <3>2, ServeFrame
  <2>3. CASE \/ \E agent \in Agents, d \in Delegations : StartWorkflow(r, agent, d)
             \/ WorkflowDenied(r) \/ WorkflowRefused(r) \/ CallFails(r)
    BY <2>3 DEF StartWorkflow, WorkflowDenied, WorkflowRefused, CallFails, Deny, Refuse, documents
  <2> QED BY <1>2, <2>1, <2>2, <2>3 DEF Workflows
<1>3. ASSUME NEW c \in Others, OtherCalls(c) PROVE \E q \in Request : Issue(id, q)
  <2>1. ASSUME NEW d \in Delegations, NEW q \in Requests, OtherGranted(c, RequestAbout(d, q))
        PROVE  \E p \in Request : Issue(id, p)
    <3>1. Issue(<<c, asked[c] + 1>>, RequestAbout(d, q)) /\ <<c, asked[c] + 1>> \in GrantIds
      BY <2>1, AsksType DEF OtherGranted
    <3>2. id = <<c, asked[c] + 1>> BY <3>1, OtherRequest, IssueFrame
    <3> QED BY <3>1, <3>2, OtherRequest
  <2>2. ASSUME NEW d \in Delegations, NEW q \in Requests, OtherDenied(c, RequestAbout(d, q))
        PROVE  FALSE
    BY <2>2 DEF OtherDenied, Deny, documents
  <2>3. ASSUME NEW other \in GrantIds, NEW m \in Claims,
               \/ OtherRefused(c, other, m)
               \/ \E result \in Results : OtherServed(c, other, m, result)
        PROVE  FALSE
    BY <2>3, ServeFrame DEF OtherRefused, Refuse, OtherServed, Holds
  <2> QED BY <1>3, <2>1, <2>2, <2>3 DEF OtherCalls
<1> QED BY <1>1, <1>2, <1>3 DEF Next

LEMMA GrantsSoundNext ==
  ASSUME TypeOK, PlacesFresh, ExecutesGrant, GrantsSound, [Next]_vars
  PROVE  GrantsSound'
<1> SUFFICES ASSUME NEW id \in GrantIds, grants'[id] # Absent PROVE Sound(id)'
  BY DEF GrantsSound
<1>1. CASE grants[id] # Absent BY <1>1, StepKeeps, SoundKept DEF GrantsSound
<1>2. CASE grants[id] = Absent BY <1>2, NewGrants, IssueSound
<1> QED BY <1>1, <1>2

(* Where a call of an adapter comes from.                                  *)
LEMMA NewCalls ==
  ASSUME TypeOK, ExecutesGrant, [Next]_vars
  PROVE  \/ calls' = calls
         \/ \E id \in GrantIds, m \in Claim, result \in Results :
              grants[id] # Absent /\ Serve(id, m, result)
<1>1. CASE People \/ UNCHANGED vars BY <1>1, PeopleFrame DEF vars
<1>2. ASSUME NEW r \in Runs, NEW result \in Results, WorkflowServed(r, result)
      PROVE  \E id \in GrantIds, m \in Claim : grants[id] # Absent /\ Serve(id, m, result)
  <2>1. /\ runs[r] # Absent /\ runs[r].phase = "execute"
        /\ Serve(GrantOf(r), ClaimOf(grants[GrantOf(r)]), result)
    BY <1>2 DEF WorkflowServed, Calls
  <2>2. grants[GrantOf(r)] # Absent /\ GrantOf(r) \in GrantIds
    BY <2>1, RunFacts DEF ExecutesGrant
  <2>3. ClaimOf(grants[GrantOf(r)]) \in Claim BY <2>2 DEF TypeOK, ClaimOf, Claim, Grant
  <2> QED BY <2>1, <2>2, <2>3
<1>3. ASSUME NEW c \in Others, NEW id \in GrantIds, NEW m \in Claims, NEW result \in Results,
             OtherServed(c, id, m, result)
      PROVE  m \in Claim /\ grants[id] # Absent /\ Serve(id, m, result)
  BY <1>3, ConstantsAssumption DEF OtherServed, Holds
<1>4. ASSUME NEW r \in Runs,
             \/ \E agent \in Agents, d \in Delegations : StartWorkflow(r, agent, d)
             \/ WorkflowDenied(r) \/ WorkflowGranted(r) \/ WorkflowRefused(r) \/ CallFails(r)
      PROVE  calls' = calls
  BY <1>4 DEF StartWorkflow, WorkflowDenied, WorkflowGranted, WorkflowRefused, CallFails, Refuse
<1>5. ASSUME NEW c \in Others, NEW q, OtherDenied(c, q) \/ OtherGranted(c, q)
      PROVE  calls' = calls
  BY <1>5 DEF OtherDenied, OtherGranted
<1>6. ASSUME NEW c \in Others, NEW id, NEW m, OtherRefused(c, id, m) PROVE calls' = calls
  BY <1>6 DEF OtherRefused, Refuse
<1> QED BY <1>1, <1>2, <1>3, <1>4, <1>5, <1>6 DEF Next, Workflows, OtherCalls

LEMMA ServedOnlyIf ==
  ASSUME NEW g, NEW m, GatewayRefusal(g, m) = "none"
  PROVE  /\ g.region = config.region /\ m.agent = g.agent /\ m.version = g.version
         /\ m.tool = g.tool /\ Extends(m.args, g.args) /\ g.status = "issued"
  BY DEF GatewayRefusal, ClaimedAgent

LEMMA CallKept ==
  ASSUME TypeOK, Kept, NEW call \in calls, CallIsNarrow(call)
  PROVE  CallIsNarrow(call)'
<1> DEFINE id == call.grant
<1>1. id \in GrantIds BY DEF TypeOK, Call
<1>2. grants[id] # Absent /\ Narrow(grants[id]) BY DEF CallIsNarrow
<1>3. SameGrant(id) /\ config' = config BY <1>1, <1>2 DEF Kept, GrantsKept
<1>4. Narrow(grants[id])' /\ RuleOf(grants[id])' = RuleOf(grants[id])
  BY <1>1, <1>2, NarrowKept
<1>5. ASSUME RuleOf(grants[id])'.approval PROVE ApprovedFor(id, call.claim.args)'
  BY <1>1, <1>2, <1>4, <1>5, ApprovedKept DEF CallIsNarrow, ApprovedFor
<1> QED BY <1>3, <1>4, <1>5 DEF CallIsNarrow, SameGrant

LEMMA CallsNext ==
  ASSUME TypeOK, PlacesFresh, ExecutesGrant, GrantsSound, CallsAreNarrow, [Next]_vars
  PROVE  CallsAreNarrow'
<1>1. Kept BY StepKeeps
<1>2. \A call \in calls : CallIsNarrow(call)' BY <1>1, CallKept DEF CallsAreNarrow
<1>3. CASE calls' = calls BY <1>2, <1>3 DEF CallsAreNarrow
<1>4. ASSUME NEW id \in GrantIds, NEW m \in Claim, NEW result \in Results,
             grants[id] # Absent, Serve(id, m, result)
      PROVE  CallsAreNarrow'
  <2> DEFINE call == [grant |-> id, claim |-> m, result |-> result]
  <2>1. calls' = calls \cup {call} BY <1>4 DEF Serve
  <2>2. /\ grants[id].region = config.region /\ m.agent = grants[id].agent
        /\ m.version = grants[id].version /\ m.tool = grants[id].tool
        /\ Extends(m.args, grants[id].args)
    BY <1>4, ServedOnlyIf DEF Serve
  <2>3. SameGrant(id) /\ grants'[id].status = "consumed" BY <1>4, ServeKeeps
  <2>4. Sound(id) BY <1>4 DEF GrantsSound
  <2>5. Narrow(grants[id])' /\ RuleOf(grants[id])' = RuleOf(grants[id])
    BY <1>1, <1>4, <2>4, NarrowKept DEF Sound
  <2>6. ASSUME RuleOf(grants[id])'.approval PROVE ApprovedFor(id, m.args)'
    <3>1. ApprovedFor(id, grants[id].args) BY <2>4, <2>5, <2>6 DEF Sound
    <3>2. ApprovedFor(id, m.args) BY <2>2, <3>1, ExtendsTransitive DEF ApprovedFor
    <3> QED BY <1>1, <1>4, <3>2, ApprovedKept DEF ApprovedFor
  <2>7. CallIsNarrow(call)'
    BY <1>1, <2>2, <2>3, <2>5, <2>6 DEF CallIsNarrow, SameGrant, Kept
  <2> QED BY <1>2, <2>1, <2>7 DEF CallsAreNarrow
<1> QED BY <1>3, <1>4, NewCalls

---------------------------------------------------------------------------
(* What a workflow reports. *)

AdvancesTo(r, code) ==
  /\ runs'[r] # Absent /\ runs'[r].agent = runs[r].agent
  /\ runs'[r].phase = After(r, code)
  /\ runs'[r].step = IF After(r, code) = "evaluate" THEN runs[r].step + 1 ELSE runs[r].step

RunStays(r) == runs'[r] = runs[r] /\ \A call \in calls' \ calls : call.grant[1] # r

RunStarts(r) ==
  /\ runs[r] = Absent /\ runs'[r] # Absent
  /\ runs'[r].step = 1 /\ runs'[r].phase = "evaluate" /\ calls' = calls

RunTurnedDown(r) ==
  /\ runs[r] # Absent /\ runs[r].phase \in Calling /\ calls' = calls
  /\ \E code : code \notin Served \cup {"raised"} /\ AdvancesTo(r, code)

RunGranted(r) ==
  /\ runs[r] # Absent /\ runs[r].phase = "evaluate" /\ calls' = calls
  /\ PhaseFrame(r, "execute")
  /\ grants'[<<r, runs[r].step>>].tool = Tool(r)

RunServed(r) ==
  /\ runs[r] # Absent /\ runs[r].phase = "execute"
  /\ LET id == <<r, runs[r].step>>
         m  == ClaimOf(grants[id])
     IN  \E result \in AdapterResults(m.tool, m.args) :
           /\ calls' = calls \cup {[grant |-> id, claim |-> m, result |-> result]}
           /\ AdvancesTo(r, AnswerCode(result))

RunRaises(r) ==
  /\ runs[r] # Absent /\ runs[r].phase \in Calling /\ calls' = calls
  /\ PhaseFrame(r, "raised")

LEMMA RefusalCodes ==
  /\ \A q : Refusal(q) \notin Served \cup {"raised"}
  /\ \A g, m : GatewayRefusal(g, m) \notin Served \cup {"raised"}
<1>1. ASSUME NEW q PROVE ScopeRefusal(q) \notin Served \cup {"raised"}
  BY DEF ScopeRefusal, Served
<1>2. ASSUME NEW q PROVE PolicyRefusal(q) \notin Served \cup {"raised"}
  BY DEF PolicyRefusal, Served
<1>3. ASSUME NEW q PROVE CallRefusal(q) \notin Served \cup {"raised"}
  BY DEF CallRefusal, Served
<1>4. ASSUME NEW q PROVE Refusal(q) \notin Served \cup {"raised"}
  BY <1>1, <1>2, <1>3 DEF Refusal
<1>5. ASSUME NEW g, NEW m PROVE GatewayRefusal(g, m) \notin Served \cup {"raised"}
  BY DEF GatewayRefusal, Served
<1> QED BY <1>4, <1>5

(* A step of one run is nothing to the others.                             *)
LEMMA OwnStep ==
  ASSUME TypeOK, ExecutesGrant, NEW r \in Runs, Workflows(r)
  PROVE  /\ \A s \in Runs : s # r => runs'[s] = runs[s]
         /\ \A call \in calls' \ calls : call.grant[1] = r
         /\ \/ RunStarts(r) \/ RunTurnedDown(r) \/ RunGranted(r)
            \/ RunServed(r) \/ RunRaises(r)
<1>1. ASSUME NEW agent \in Agents, NEW d \in Delegations, StartWorkflow(r, agent, d)
      PROVE  (\A s \in Runs : s # r => runs'[s] = runs[s]) /\ calls' = calls /\ RunStarts(r)
  <2>1. runs'[r] = [agent |-> agent, delegation |-> d, step |-> 1, phase |-> "evaluate"]
    BY <1>1 DEF StartWorkflow, TypeOK
  <2>2. runs'[r] \in Run
    <3>1. Len(Workflow[agent]) \in 1 .. MaxSteps BY WorkflowAssumption
    <3> QED BY <2>1, <3>1, CallersAssumption DEF Run, Calling
  <2>3. runs'[r] # Absent BY <2>2, AbsentAssumption
  <2> QED BY <1>1, <2>1, <2>3 DEF StartWorkflow, TypeOK, RunStarts
<1>2. CASE WorkflowDenied(r)
  <2>1. /\ runs[r] # Absent /\ runs[r].phase = "evaluate" /\ calls' = calls
        /\ Advance(r, Refusal(RequestOf(r)))
    BY <1>2 DEF WorkflowDenied, Calls
  <2>2. AdvancesTo(r, Refusal(RequestOf(r))) BY <2>1, AdvanceFrame DEF AdvancesTo
  <2>3. RunTurnedDown(r) BY <2>1, <2>2, RefusalCodes DEF RunTurnedDown, Calling
  <2> QED BY <2>1, <2>3, AdvanceFrame
<1>3. CASE WorkflowGranted(r)
  <2>1. /\ runs[r] # Absent /\ runs[r].phase = "evaluate" /\ calls' = calls
        /\ Issue(GrantOf(r), RequestOf(r)) /\ runs' = [runs EXCEPT ![r].phase = "execute"]
    BY <1>3 DEF WorkflowGranted, Calls
  <2>2. PhaseFrame(r, "execute") BY <2>1, PhaseKept DEF Calling
  <2>3. GrantOf(r) \in GrantIds /\ GrantOf(r) = <<r, runs[r].step>> BY <2>1, RunFacts
  <2>4. grants'[GrantOf(r)].tool = Tool(r) BY <2>1, <2>3 DEF Issue, TypeOK, RequestOf
  <2> QED BY <2>1, <2>2, <2>3, <2>4 DEF RunGranted, PhaseFrame
<1>4. CASE WorkflowRefused(r)
  <2> DEFINE m == ClaimOf(grants[GrantOf(r)])
             code == GatewayRefusal(grants[GrantOf(r)], m)
  <2>1. /\ runs[r] # Absent /\ runs[r].phase = "execute" /\ calls' = calls
        /\ Advance(r, code)
    BY <1>4 DEF WorkflowRefused, Calls, Refuse
  <2> HIDE DEF code
  <2>2. AdvancesTo(r, code) BY <2>1, AdvanceFrame DEF AdvancesTo
  <2>3. code \notin Served \cup {"raised"} BY RefusalCodes DEF code
  <2>4. RunTurnedDown(r) BY <2>1, <2>2, <2>3 DEF RunTurnedDown, Calling
  <2> QED BY <2>1, <2>4, AdvanceFrame
<1>5. ASSUME NEW result \in Results, WorkflowServed(r, result)
      PROVE  /\ \A s \in Runs : s # r => runs'[s] = runs[s]
             /\ \A call \in calls' \ calls : call.grant[1] = r
             /\ RunServed(r)
  <2>1. /\ runs[r] # Absent /\ runs[r].phase = "execute"
        /\ Serve(GrantOf(r), ClaimOf(grants[GrantOf(r)]), result)
        /\ Advance(r, AnswerCode(result))
    BY <1>5 DEF WorkflowServed, Calls
  <2>2. GrantOf(r) = <<r, runs[r].step>> BY <2>1, RunFacts
  <2>3. AdvancesTo(r, AnswerCode(result)) BY <2>1, AdvanceFrame DEF AdvancesTo
  <2>4. RunServed(r) BY <2>1, <2>2, <2>3 DEF RunServed, Serve
  <2>5. \A call \in calls' \ calls : call.grant[1] = r BY <2>1, <2>2 DEF Serve
  <2> QED BY <2>1, <2>4, <2>5, AdvanceFrame
<1>6. CASE CallFails(r)
  <2>1. /\ runs[r] # Absent /\ runs[r].phase \in Calling /\ calls' = calls
        /\ runs' = [runs EXCEPT ![r].phase = "raised"]
    BY <1>6 DEF CallFails, Calls, Calling
  <2>2. PhaseFrame(r, "raised") BY <2>1, PhaseKept DEF Outcomes
  <2> QED BY <2>1, <2>2 DEF RunRaises, PhaseFrame
<1> QED BY <1>1, <1>2, <1>3, <1>4, <1>5, <1>6 DEF Workflows

LEMMA RunStep ==
  ASSUME TypeOK, ExecutesGrant, [Next]_vars, NEW r \in Runs
  PROVE  \/ RunStays(r) \/ RunStarts(r) \/ RunTurnedDown(r)
         \/ RunGranted(r) \/ RunServed(r) \/ RunRaises(r)
<1>1. CASE People \/ UNCHANGED vars BY <1>1, PeopleFrame DEF vars, RunStays
<1>2. CASE Workflows(r) BY <1>2, OwnStep
<1>3. ASSUME NEW s \in Runs, s # r, Workflows(s) PROVE RunStays(r)
  BY <1>3, OwnStep DEF RunStays
<1>4. ASSUME NEW c \in Others, OtherCalls(c) PROVE RunStays(r)
  <2>1. ASSUME NEW q, OtherDenied(c, q) \/ OtherGranted(c, q) PROVE RunStays(r)
    BY <2>1 DEF OtherDenied, OtherGranted, RunStays
  <2>2. ASSUME NEW id \in GrantIds, NEW m, OtherRefused(c, id, m) PROVE RunStays(r)
    BY <2>2 DEF OtherRefused, Refuse, RunStays
  <2>3. ASSUME NEW id \in GrantIds, NEW m, NEW result, OtherServed(c, id, m, result)
        PROVE  RunStays(r)
    <3>1. runs' = runs /\ calls' = calls \cup {[grant |-> id, claim |-> m, result |-> result]}
      BY <2>3 DEF OtherServed, Serve
    <3>2. id[1] # r BY <2>3, CallersAssumption DEF OtherServed, Holds
    <3> QED BY <3>1, <3>2 DEF RunStays
  <2> QED BY <1>4, <2>1, <2>2, <2>3 DEF OtherCalls
<1> QED BY <1>1, <1>2, <1>3, <1>4 DEF Next

LEMMA CallsGrow == TypeOK /\ ExecutesGrant /\ [Next]_vars => calls \subseteq calls'
  BY NewCalls DEF Serve

LEMMA IssueConsumes ==
  ASSUME TypeOK, ConsumedByCall, NEW id \in GrantIds, NEW q \in Request, Issue(id, q),
         UNCHANGED calls
  PROVE  ConsumedByCall'
<1>1. \A other \in GrantIds : other # id => grants'[other] = grants[other] BY IssueFrame
<1>2. grants'[id].status = "issued" BY DEF Issue, TypeOK
<1> QED BY <1>1, <1>2 DEF ConsumedByCall

LEMMA ServeConsumes ==
  ASSUME TypeOK, ConsumedByCall, NEW id \in GrantIds, NEW m, NEW result,
         grants[id] # Absent, Serve(id, m, result)
  PROVE  ConsumedByCall'
<1>1. \A other \in GrantIds : other # id => grants'[other] = grants[other] BY ServeFrame
<1> DEFINE new == [grant |-> id, claim |-> m, result |-> result]
<1>2. new.grant = id /\ calls' = calls \cup {new} BY DEF Serve
<1> HIDE DEF new
<1> QED BY <1>1, <1>2 DEF ConsumedByCall

LEMMA ConsumedNext ==
  ASSUME TypeOK, PlacesFresh, ExecutesGrant, ConsumedByCall, [Next]_vars
  PROVE  ConsumedByCall'
<1>1. CASE UNCHANGED <<grants, calls>> BY <1>1 DEF ConsumedByCall
<1>2. CASE UNCHANGED vars BY <1>1, <1>2 DEF vars, documents
<1>3. CASE People BY <1>1, <1>3, PeopleFrame
<1>4. ASSUME NEW r \in Runs, Workflows(r) PROVE ConsumedByCall'
  <2>1. CASE WorkflowDenied(r) \/ WorkflowRefused(r) \/ CallFails(r)
             \/ \E agent \in Agents, d \in Delegations : StartWorkflow(r, agent, d)
    BY <1>1, <2>1 DEF WorkflowDenied, Deny, WorkflowRefused, Refuse, CallFails,
                      StartWorkflow, documents
  <2>2. CASE WorkflowGranted(r)
    BY <2>2, PlacesEmpty, WorkflowRequest, IssueConsumes DEF WorkflowGranted, Calls
  <2>3. ASSUME NEW result \in Results, WorkflowServed(r, result) PROVE ConsumedByCall'
    <3>1. runs[r] # Absent /\ runs[r].phase = "execute"
          /\ Serve(GrantOf(r), ClaimOf(grants[GrantOf(r)]), result)
      BY <2>3 DEF WorkflowServed, Calls
    <3>2. grants[GrantOf(r)] # Absent /\ GrantOf(r) \in GrantIds
      BY <3>1, RunFacts DEF ExecutesGrant
    <3> QED BY <3>1, <3>2, ServeConsumes
  <2> QED BY <1>4, <2>1, <2>2, <2>3 DEF Workflows
<1>5. ASSUME NEW c \in Others, OtherCalls(c) PROVE ConsumedByCall'
  <2>1. ASSUME NEW q, OtherDenied(c, q) PROVE ConsumedByCall'
    BY <1>1, <2>1 DEF OtherDenied, Deny, documents
  <2>2. ASSUME NEW d \in Delegations, NEW q \in Requests, OtherGranted(c, RequestAbout(d, q))
        PROVE  ConsumedByCall'
    BY <2>2, PlacesEmpty, OtherRequest, IssueConsumes DEF OtherGranted
  <2>3. ASSUME NEW id \in GrantIds, NEW m \in Claims, OtherRefused(c, id, m)
        PROVE  ConsumedByCall'
    BY <1>1, <2>3 DEF OtherRefused, Refuse
  <2>4. ASSUME NEW id \in GrantIds, NEW m \in Claims, NEW result \in Results,
               OtherServed(c, id, m, result)
        PROVE  ConsumedByCall'
    BY <2>4, ServeConsumes DEF OtherServed, Holds
  <2> QED BY <1>5, <2>1, <2>2, <2>3, <2>4 DEF OtherCalls
<1> QED BY <1>2, <1>3, <1>4, <1>5 DEF Next

LEMMA WritesAreLast ==
  ASSUME TypeOK, NEW r \in Runs, runs[r] # Absent, NEW k \in 1 .. runs[r].step,
         Workflow[runs[r].agent][k] \in Writes
  PROVE  k = runs[r].step /\ runs[r].step = Len(Workflow[runs[r].agent])
<1>1. /\ runs[r].agent \in Agents /\ runs[r].step \in 1 .. Len(Workflow[runs[r].agent])
      /\ Len(Workflow[runs[r].agent]) \in 1 .. MaxSteps
  BY RunFacts
<1>2. k \notin 1 .. Len(Workflow[runs[r].agent]) - 1 BY <1>1, WorkflowAssumption
<1> QED BY <1>1, <1>2, CallersAssumption

LEMMA GrantForStepNext ==
  ASSUME TypeOK, PlacesFresh, ExecutesGrant, GrantForStep, [Next]_vars
  PROVE  GrantForStep'
<1> SUFFICES ASSUME NEW r \in Runs, runs'[r] # Absent, runs'[r].phase = "execute"
             PROVE  grants'[<<r, runs'[r].step>>].tool = Workflow[runs'[r].agent][runs'[r].step]
  BY DEF GrantForStep, Tool
<1>1. CASE RunStays(r)
  <2>1. /\ runs[r] # Absent /\ runs[r].phase = "execute" /\ runs'[r] = runs[r]
    BY <1>1 DEF RunStays
  <2>2. <<r, runs[r].step>> \in GrantIds BY <2>1, RunFacts
  <2>3. SameGrant(<<r, runs[r].step>>)
    BY <2>1, <2>2, StepKeeps DEF ExecutesGrant, Kept, GrantsKept
  <2> QED BY <2>1, <2>3 DEF GrantForStep, SameGrant, Tool
<1>2. CASE RunGranted(r) BY <1>2 DEF RunGranted, PhaseFrame, Tool
<1>3. CASE RunStarts(r) BY <1>3 DEF RunStarts
<1>4. CASE RunTurnedDown(r) BY <1>4, AfterType DEF RunTurnedDown, AdvancesTo, Outcomes
<1>5. CASE RunServed(r) BY <1>5, AfterType DEF RunServed, AdvancesTo, Outcomes
<1>6. CASE RunRaises(r) BY <1>6 DEF RunRaises, PhaseFrame
<1> QED BY <1>1, <1>2, <1>3, <1>4, <1>5, <1>6, RunStep

LEMMA ServedBy ==
  ASSUME NEW r, NEW k, NEW m, NEW result,
         calls' = calls \cup {[grant |-> <<r, k>>, claim |-> m, result |-> result]},
         AnswerCode(result) \in Served
  PROVE  StepServed(r, k)'
<1> DEFINE call == [grant |-> <<r, k>>, claim |-> m, result |-> result]
<1>1. call.grant = <<r, k>> /\ call.result = result OBVIOUS
<1>2. call \in calls' OBVIOUS
<1> HIDE DEF call
<1>3. \E c \in calls' : c.grant = <<r, k>> /\ AnswerCode(c.result) \in Served BY <1>1, <1>2
<1> QED BY <1>3 DEF StepServed, AnswerCode, Served

LEMMA PastServedNext ==
  ASSUME TypeOK, ExecutesGrant, PastServed, [Next]_vars
  PROVE  PastServed'
<1> SUFFICES ASSUME NEW r \in Runs, runs'[r] # Absent, NEW k \in 1 .. runs'[r].step - 1
             PROVE  StepServed(r, k)'
  BY DEF PastServed
<1>1. calls \subseteq calls' BY CallsGrow
<1>2. StepServed(r, k) => StepServed(r, k)' BY <1>1 DEF StepServed
<1>3. CASE RunStays(r) BY <1>2, <1>3 DEF RunStays, PastServed
<1>4. CASE RunStarts(r) BY <1>4 DEF RunStarts
<1>5. CASE RunTurnedDown(r)
  <2>1. runs'[r].step = runs[r].step /\ runs[r] # Absent
    BY <1>5, AfterType DEF RunTurnedDown, AdvancesTo
  <2> QED BY <1>2, <2>1 DEF PastServed
<1>6. CASE RunGranted(r) \/ RunRaises(r)
  BY <1>2, <1>6 DEF RunGranted, RunRaises, PhaseFrame, PastServed
<1>7. CASE RunServed(r)
  <2> DEFINE id == <<r, runs[r].step>>
             m  == ClaimOf(grants[id])
  <2>1. PICK result : /\ calls' = calls \cup {[grant |-> id, claim |-> m, result |-> result]}
                      /\ AdvancesTo(r, AnswerCode(result))
    BY <1>7 DEF RunServed
  <2>2. runs[r] # Absent BY <1>7 DEF RunServed
  <2>3. runs[r].step \in Nat BY <2>2, RunFacts
  <2>4. CASE k \in 1 .. runs[r].step - 1 BY <1>2, <2>2, <2>4 DEF PastServed
  <2>5. CASE k = runs[r].step
    <3>1. After(r, AnswerCode(result)) = "evaluate"
      BY <2>1, <2>3, <2>5 DEF AdvancesTo
    <3>2. AnswerCode(result) \in Served BY <3>1, AfterType
    <3> QED BY <2>1, <2>5, <3>2, ServedBy
  <2> QED BY <2>1, <2>3, <2>4, <2>5 DEF AdvancesTo
<1> QED BY <1>3, <1>4, <1>5, <1>6, <1>7, RunStep

LEMMA OwnCallsNext ==
  ASSUME TypeOK, ExecutesGrant, GrantForStep, OwnCalls, [Next]_vars
  PROVE  OwnCalls'
<1> SUFFICES ASSUME NEW r \in Runs, NEW call \in calls', call.grant[1] = r
             PROVE  /\ runs'[r] # Absent
                    /\ call.grant[2] <= runs'[r].step
                    /\ call.claim.tool = Workflow[runs'[r].agent][call.grant[2]]
                    /\ runs'[r].phase \in Calling => call.grant[2] < runs'[r].step
  BY DEF OwnCalls
<1> DEFINE Old == /\ runs[r] # Absent
                  /\ call.grant[2] <= runs[r].step
                  /\ call.claim.tool = Workflow[runs[r].agent][call.grant[2]]
                  /\ runs[r].phase \in Calling => call.grant[2] < runs[r].step
<1>1. call \in calls => Old /\ call.grant[2] \in 1 .. MaxSteps
  BY DEF OwnCalls, TypeOK, Call, GrantIds
<1>2. runs[r] # Absent => runs[r].step \in Nat BY RunFacts, CallersAssumption
<1>3. CASE RunStays(r) BY <1>1, <1>3 DEF RunStays
<1>4. CASE RunStarts(r) BY <1>1, <1>4 DEF RunStarts
<1>5. CASE RunTurnedDown(r)
  <2>1. Old /\ runs[r].phase \in Calling BY <1>1, <1>5 DEF RunTurnedDown
  <2> QED BY <1>5, <2>1, AfterType DEF RunTurnedDown, AdvancesTo
<1>6. CASE RunGranted(r)
  BY <1>1, <1>6 DEF RunGranted, PhaseFrame, Calling
<1>7. CASE RunRaises(r)
  BY <1>1, <1>7 DEF RunRaises, PhaseFrame, Calling
<1>8. CASE RunServed(r)
  <2> DEFINE id == <<r, runs[r].step>>
             m  == ClaimOf(grants[id])
  <2>1. PICK result : /\ calls' = calls \cup {[grant |-> id, claim |-> m, result |-> result]}
                      /\ AdvancesTo(r, AnswerCode(result))
    BY <1>8 DEF RunServed
  <2>2. runs[r] # Absent /\ runs[r].phase = "execute" BY <1>8 DEF RunServed
  <2>3. \/ runs'[r].phase = "evaluate" /\ runs'[r].step = runs[r].step + 1
        \/ runs'[r].phase \notin Calling /\ runs'[r].step = runs[r].step
    BY <2>1, AfterType DEF AdvancesTo, Outcomes, Calling
  <2>4. runs'[r] # Absent /\ runs'[r].agent = runs[r].agent BY <2>1 DEF AdvancesTo
  <2>5. CASE call \in calls
    <3>1. /\ call.grant[2] \in Nat /\ call.grant[2] < runs[r].step
          /\ call.claim.tool = Workflow[runs[r].agent][call.grant[2]]
      BY <1>1, <2>2, <2>5, CallersAssumption DEF Calling
    <3> QED BY <1>2, <2>2, <2>3, <2>4, <3>1
  <2>6. CASE call = [grant |-> id, claim |-> m, result |-> result]
    <3>1. call.grant[2] = runs[r].step BY <2>6
    <3>2. call.claim.tool = Workflow[runs[r].agent][runs[r].step]
      BY <2>2, <2>6 DEF GrantForStep, ClaimOf, Tool
    <3> QED BY <1>2, <2>2, <2>3, <2>4, <3>1, <3>2
  <2> QED BY <2>1, <2>5, <2>6
<1> QED BY <1>3, <1>4, <1>5, <1>6, <1>7, <1>8, RunStep

(* What the outcomes of a call other than an error say.                    *)
LEMMA AnswerFacts ==
  ASSUME NEW tool, NEW args, NEW result \in AdapterResults(tool, args),
         AnswerCode(result) \notin Served \cup {"raised"} \/ AnswerCode(result) = "lacking"
  PROVE  tool \notin Writes
  BY DEF AdapterResults, AnswerCode, Served

LEMMA OutcomeNext ==
  ASSUME TypeOK, ExecutesGrant, GrantForStep, PastServed, OwnCalls, OutcomeIsTrue, [Next]_vars
  PROVE  OutcomeIsTrue'
<1> SUFFICES ASSUME NEW r \in Runs, runs'[r] # Absent
             PROVE  /\ runs'[r].phase \in {"failed", "mismatch", "blocked"} =>
                         \A call \in calls' : call.grant[1] = r => call.claim.tool \notin Writes
                    /\ runs'[r].phase = "completed" =>
                         \A k \in 1 .. Len(Workflow[runs'[r].agent]) :
                           Workflow[runs'[r].agent][k] # "reconciliation.write" => StepServed(r, k)'
  BY DEF OutcomeIsTrue
<1>1. calls \subseteq calls' BY CallsGrow
<1>2. \A k : StepServed(r, k) => StepServed(r, k)' BY <1>1 DEF StepServed
<1>3. ASSUME runs[r] # Absent, runs[r].phase \in Calling
      PROVE  /\ \A call \in calls : call.grant[1] = r => call.claim.tool \notin Writes
             /\ \A k \in 1 .. runs[r].step - 1 : StepServed(r, k)
             /\ Tool(r) = "reconciliation.write" => runs[r].step = Len(Workflow[runs[r].agent])
             /\ runs[r].step \in Nat
  <2>1. ASSUME NEW call \in calls, call.grant[1] = r PROVE call.claim.tool \notin Writes
    <3>1. /\ call.grant[2] < runs[r].step
          /\ call.claim.tool = Workflow[runs[r].agent][call.grant[2]]
      BY <1>3, <2>1 DEF OwnCalls
    <3>2. call.grant[2] \in 1 .. MaxSteps BY DEF TypeOK, Call, GrantIds
    <3>3. runs[r].step \in Nat BY <1>3, RunFacts, CallersAssumption
    <3>4. call.grant[2] \in 1 .. runs[r].step /\ call.grant[2] # runs[r].step
      BY <3>1, <3>2, <3>3, CallersAssumption
    <3> QED BY <1>3, <3>1, <3>4, WritesAreLast
  <2>2. runs[r].step \in Nat \ {0} BY <1>3, RunFacts, CallersAssumption
  <2>3. runs[r].step \in 1 .. runs[r].step BY <2>2
  <2>4. Tool(r) = "reconciliation.write" => runs[r].step = Len(Workflow[runs[r].agent])
    BY <1>3, <2>3, WritesAreLast DEF Tool, Writes
  <2> QED BY <1>3, <2>1, <2>2, <2>4 DEF PastServed
<1>4. CASE RunStays(r)
  <2>1. runs'[r] = runs[r] /\ \A call \in calls' \ calls : call.grant[1] # r
    BY <1>4 DEF RunStays
  <2> QED BY <1>2, <2>1 DEF OutcomeIsTrue
<1>5. CASE RunStarts(r) BY <1>5 DEF RunStarts
<1>6. CASE RunGranted(r) \/ RunRaises(r) BY <1>6 DEF RunGranted, RunRaises, PhaseFrame
<1>7. CASE RunTurnedDown(r)
  <2>1. PICK code : code \notin Served \cup {"raised"} /\ AdvancesTo(r, code)
    BY <1>7 DEF RunTurnedDown
  <2>2. runs[r] # Absent /\ runs[r].phase \in Calling /\ calls' = calls
    BY <1>7 DEF RunTurnedDown
  <2>3. /\ runs'[r].phase = OnError(Tool(r)) /\ runs'[r].agent = runs[r].agent
    BY <2>1 DEF AdvancesTo, After
  <2>4. CASE Tool(r) = "reconciliation.write"
    <3>1. runs'[r].phase = "completed" BY <2>3, <2>4 DEF OnError
    <3>2. ASSUME NEW k \in 1 .. Len(Workflow[runs[r].agent]),
                 Workflow[runs[r].agent][k] # "reconciliation.write"
          PROVE  StepServed(r, k)'
      <4>1. k # runs[r].step BY <2>4, <3>2 DEF Tool
      <4> QED BY <1>2, <1>3, <2>2, <2>4, <4>1
    <3> QED BY <2>3, <3>1, <3>2
  <2>5. CASE Tool(r) # "reconciliation.write"
    BY <1>3, <2>2, <2>3, <2>5 DEF OnError
  <2> QED BY <2>4, <2>5
<1>8. CASE RunServed(r)
  <2> DEFINE id == <<r, runs[r].step>>
             m  == ClaimOf(grants[id])
  <2>1. PICK result \in AdapterResults(m.tool, m.args) :
          /\ calls' = calls \cup {[grant |-> id, claim |-> m, result |-> result]}
          /\ AdvancesTo(r, AnswerCode(result))
    BY <1>8 DEF RunServed
  <2>2. runs[r] # Absent /\ runs[r].phase = "execute" /\ runs[r].phase \in Calling
    BY <1>8 DEF RunServed, Calling
  <2>3. m.tool = Tool(r) BY <2>2 DEF GrantForStep, ClaimOf
  <2>4. runs'[r].phase = After(r, AnswerCode(result)) /\ runs'[r].agent = runs[r].agent
    BY <2>1 DEF AdvancesTo
  <2>5. ASSUME runs'[r].phase \in {"failed", "mismatch", "blocked"}
        PROVE  \A call \in calls' : call.grant[1] = r => call.claim.tool \notin Writes
    <3>1. AnswerCode(result) \notin Served \cup {"raised"} \/ AnswerCode(result) = "lacking"
      BY <2>4, <2>5 DEF After
    <3>2. m.tool \notin Writes BY <3>1, AnswerFacts
    <3> QED BY <1>3, <2>1, <2>2, <3>2
  <2>6. ASSUME runs'[r].phase = "completed"
        PROVE  /\ AnswerCode(result) \in Served
               /\ runs[r].step = Len(Workflow[runs[r].agent])
    <3>1. ASSUME AnswerCode(result) \notin Served PROVE FALSE
      <4>1. AnswerCode(result) # "raised" BY <2>4, <2>6 DEF After
      <4>2. Tool(r) \notin Writes BY <2>3, <3>1, <4>1, AnswerFacts
      <4> QED BY <2>4, <2>6, <3>1, <4>1, <4>2 DEF After, OnError, Writes
    <3> QED BY <2>4, <2>6, <3>1 DEF After
  <2>7. ASSUME runs'[r].phase = "completed", NEW k \in 1 .. Len(Workflow[runs[r].agent])
        PROVE  StepServed(r, k)'
    <3>1. CASE k = runs[r].step BY <2>1, <2>6, <2>7, <3>1, ServedBy
    <3>2. CASE k # runs[r].step BY <1>2, <1>3, <2>2, <2>6, <2>7, <3>2
    <3> QED BY <3>1, <3>2
  <2> QED BY <2>4, <2>5, <2>7
<1> QED BY <1>4, <1>5, <1>6, <1>7, <1>8, RunStep

---------------------------------------------------------------------------
(* Theorems. *)

LEMMA InitInv == Init => AgentInv
<1> SUFFICES ASSUME Init PROVE AgentInv OBVIOUS
<1>1. TypeOK BY InitType
<1>2. PlacesFresh /\ GrantsSound /\ ConsumedByCall
  BY PlaceIds DEF Init, PlacesFresh, GrantsSound, ConsumedByCall
<1>3. ExecutesGrant /\ GrantForStep /\ PastServed /\ OutcomeIsTrue
  BY DEF Init, ExecutesGrant, GrantForStep, PastServed, OutcomeIsTrue
<1>4. CallsAreNarrow /\ OwnCalls BY DEF Init, CallsAreNarrow, OwnCalls
<1> QED BY <1>1, <1>2, <1>3, <1>4 DEF AgentInv

LEMMA NextInv == AgentInv /\ [Next]_vars => AgentInv'
<1> SUFFICES ASSUME AgentInv, [Next]_vars PROVE AgentInv' OBVIOUS
<1> USE DEF AgentInv
<1>1. TypeOK' BY NextType
<1>2. PlacesFresh' /\ ExecutesGrant' BY PlacesNext
<1>3. GrantsSound' BY GrantsSoundNext
<1>4. CallsAreNarrow' BY CallsNext
<1>5. GrantForStep' BY GrantForStepNext
<1>6. PastServed' /\ OwnCalls' BY PastServedNext, OwnCallsNext
<1>7. OutcomeIsTrue' BY OutcomeNext
<1>8. ConsumedByCall' BY ConsumedNext
<1> QED BY <1>1, <1>2, <1>3, <1>4, <1>5, <1>6, <1>7, <1>8

THEOREM AgentInvariant == Spec => []AgentInv
  BY InitInv, NextInv, PTL DEF Spec

(* The documents, the workflows and the calls of the adapters keep their   *)
(* types.                                                                  *)
THEOREM AgentTypes == Spec => []TypeOK
<1>1. AgentInv => TypeOK BY DEF AgentInv
<1> QED BY <1>1, AgentInvariant, PTL

(* For every manifest, policy history and caller: what reaches an adapter  *)
(* was granted, within manifest, delegation, policy and approval.          *)
THEOREM OnlyNarrowCalls == Spec => []CallsAreNarrow
<1>1. AgentInv => CallsAreNarrow BY DEF AgentInv
<1> QED BY <1>1, AgentInvariant, PTL

(* What a workflow reports is true, whatever its tools are, if it writes   *)
(* with its last call.                                                     *)
THEOREM ReportsAreTrue == Spec => []OutcomeIsTrue
<1>1. AgentInv => OutcomeIsTrue BY DEF AgentInv
<1> QED BY <1>1, AgentInvariant, PTL

---------------------------------------------------------------------------
(* Theorems about steps. *)

LEMMA DenyHolds ==
  ASSUME TypeOK, NEW q \in Request, Deny(q), UNCHANGED <<grants>>
  PROVE  HeldByOffence
<1> DEFINE d == delegations[q.delegation]
<1>1. /\ reply'.service = "evaluate" /\ reply'.about = q /\ reply'.code = Refusal(q)
      /\ task' = IF Refusal(q) \in Triggers /\ task = "running" THEN "quarantined" ELSE task
  BY DEF Deny, Quarantine
<1>2. Refusal(q) # "allow"
  BY DEF Refusal, ScopeRefusal, PolicyRefusal, CallRefusal
<1>3. ASSUME Refusal(q) \in Triggers
      PROVE  Offence(q) /\ d.status = "active" /\ d.bound
  <2>1. ScopeRefusal(q) \notin Triggers BY DEF ScopeRefusal, Triggers
  <2>2. ScopeRefusal(q) = "none" BY <1>3, <2>1 DEF Refusal
  <2>3. d # Absent /\ d.bound /\ d.status \notin {"revoked", "expired"}
    BY <2>2 DEF ScopeRefusal
  <2>4. d.status = "active" BY <2>3 DEF TypeOK, Request, Delegation
  <2>5. CASE PolicyRefusal(q) # "none"
    <3>1. PolicyRefusal(q) \in {"CAPABILITY_NOT_DECLARED", "OUTSIDE_BUSINESS_PURPOSE"}
      BY <1>3, <2>2, <2>5 DEF Refusal, Triggers, PolicyRefusal
    <3>2. ~Declared(q) \/ ~InPolicy(Policy, d.purpose, q.agent, q.tool)
      BY <3>1 DEF PolicyRefusal
    <3>3. Offence(q) BY <3>2 DEF Offence, Declared, CanRequestTool
    <3> QED BY <2>3, <2>4, <3>3
  <2>6. CASE PolicyRefusal(q) = "none"
    <3>1. CallRefusal(q) = "SEMANTIC_POLICY_DENIED"
      BY <1>3, <2>2, <2>6 DEF Refusal, Triggers, CallRefusal
    <3>2. config.enforce /\ Suspicious(q.tool, q.args) BY <3>1 DEF CallRefusal
    <3> QED BY <2>3, <2>4, <3>2 DEF Offence
  <2> QED BY <2>5, <2>6
<1> QED BY <1>1, <1>2, <1>3 DEF HeldByOffence

LEMMA IssueHolds ==
  ASSUME NEW id, NEW q, Issue(id, q)
  PROVE  HeldByOffence
<1>1. reply'.about = q /\ task' = task /\ Refusal(q) = "none" BY DEF Issue
<1>2. PolicyRefusal(q) = "none" /\ CallRefusal(q) = "none" BY <1>1, NoRefusal
<1>3. Declared(q) /\ InPolicy(Policy, delegations[q.delegation].purpose, q.agent, q.tool)
  BY <1>2 DEF PolicyRefusal
<1>4. ~(config.enforce /\ Suspicious(q.tool, q.args)) BY <1>2 DEF CallRefusal
<1>5. ~Offence(q) BY <1>3, <1>4 DEF Offence, Declared, CanRequestTool
<1> QED BY <1>1, <1>5 DEF HeldByOffence

LEMMA ExecuteHolds ==
  ASSUME NEW id, NEW m, Refuse(id, m) \/ \E result : Serve(id, m, result), UNCHANGED task
  PROVE  HeldByOffence
  BY DEF Refuse, Serve, HeldByOffence

LEMMA SilentHolds ==
  ASSUME NoAnswer, task = "running" => task' # "quarantined"
  PROVE  HeldByOffence /\ ServedAsGranted
  BY DEF NoAnswer, HeldByOffence, ServedAsGranted

LEMMA PeopleHold == ASSUME People PROVE HeldByOffence /\ ServedAsGranted
<1>1. ASSUME NEW d \in Delegations, NEW offer \in Offers, CreateDelegation(d, offer)
      PROVE  HeldByOffence /\ ServedAsGranted
  BY <1>1, SilentHolds DEF CreateDelegation
<1>2. ASSUME NEW event \in TaskMoves, MoveTask(event) PROVE HeldByOffence /\ ServedAsGranted
  BY <1>2, SilentHolds, MovesAssumption DEF MoveTask
<1>3. CASE DeployPolicy BY <1>3, SilentHolds DEF DeployPolicy
<1>4. ASSUME NEW d \in Delegations, NEW status, EndDelegation(d, status)
      PROVE  HeldByOffence /\ ServedAsGranted
  BY <1>4, SilentHolds DEF EndDelegation
<1>5. ASSUME NEW a, NEW d, NEW s, NEW by, Approve(a, d, s, by)
      PROVE  HeldByOffence /\ ServedAsGranted
  BY <1>5, SilentHolds DEF Approve
<1> QED BY <1>1, <1>2, <1>3, <1>4, <1>5 DEF People

LEMMA HeldNext == TypeOK /\ [Next]_vars => [HeldByOffence]_vars
<1> SUFFICES ASSUME TypeOK, Next PROVE HeldByOffence OBVIOUS
<1>1. CASE People BY <1>1, PeopleHold
<1>2. ASSUME NEW r \in Runs, Workflows(r) PROVE HeldByOffence
  <2>1. CASE CallFails(r) \/ \E agent \in Agents, d \in Delegations : StartWorkflow(r, agent, d)
    BY <2>1, SilentHolds DEF CallFails, StartWorkflow
  <2>2. CASE WorkflowDenied(r)
    BY <2>2, WorkflowRequest, DenyHolds DEF WorkflowDenied, Calls, Deny, documents
  <2>3. CASE WorkflowGranted(r) BY <2>3, IssueHolds DEF WorkflowGranted
  <2>4. CASE WorkflowRefused(r) BY <2>4, ExecuteHolds DEF WorkflowRefused
  <2>5. ASSUME NEW result \in Results, WorkflowServed(r, result) PROVE HeldByOffence
    BY <2>5, ExecuteHolds DEF WorkflowServed
  <2> QED BY <1>2, <2>1, <2>2, <2>3, <2>4, <2>5 DEF Workflows
<1>3. ASSUME NEW c \in Others, OtherCalls(c) PROVE HeldByOffence
  <2>1. ASSUME NEW d \in Delegations, NEW q \in Requests, OtherDenied(c, RequestAbout(d, q))
        PROVE  HeldByOffence
    BY <2>1, OtherRequest, DenyHolds DEF OtherDenied, Deny, documents
  <2>2. ASSUME NEW q, OtherGranted(c, q) PROVE HeldByOffence
    BY <2>2, IssueHolds DEF OtherGranted
  <2>3. ASSUME NEW id, NEW m, OtherRefused(c, id, m) PROVE HeldByOffence
    BY <2>3, ExecuteHolds DEF OtherRefused
  <2>4. ASSUME NEW id, NEW m, NEW result, OtherServed(c, id, m, result) PROVE HeldByOffence
    BY <2>4, ExecuteHolds DEF OtherServed
  <2> QED BY <1>3, <2>1, <2>2, <2>3, <2>4 DEF OtherCalls
<1> QED BY <1>1, <1>2, <1>3 DEF Next

(* A running task is quarantined by a request that is out of bounds, and   *)
(* by nothing else.                                                        *)
THEOREM OffencesAlone == Spec => OnlyOffencesQuarantine
<1>1. AgentInv => TypeOK BY DEF AgentInv
<1> QED BY <1>1, AgentInvariant, HeldNext, PTL DEF Spec, OnlyOffencesQuarantine

LEMMA RefuseAgrees ==
  ASSUME ConsumedByCall, NEW id, NEW m, Refuse(id, m)
  PROVE  ServedAsGranted
<1> SUFFICES ASSUME /\ id \in GrantIds /\ grants[id] # Absent
                    /\ \A call \in calls : call.grant # id
                    /\ delegations[grants[id].delegation].status = "active" /\ Live
                    /\ grants[id].region = config.region
                    /\ grants[id].tool \in DOMAIN RequiredArgs
                    /\ RequiredArgs[grants[id].tool] \subseteq DOMAIN grants[id].args
                    /\ m = ClaimOf(grants[id])
             PROVE  FALSE
  BY DEF Refuse, ServedAsGranted
<1>1. /\ m.agent = grants[id].agent /\ m.version = grants[id].version
      /\ m.tool = grants[id].tool /\ m.args = grants[id].args
  BY DEF ClaimOf
<1>2. ClaimedAgent(grants[id], m) /\ GivesRequired(m) /\ Extends(m.args, grants[id].args)
  BY <1>1 DEF ClaimedAgent, GivesRequired, Extends
<1>3. grants[id].status = "issued" BY DEF ConsumedByCall
<1>4. GatewayRefusal(grants[id], m) = "none" BY <1>1, <1>2, <1>3 DEF GatewayRefusal
<1> QED BY <1>4 DEF Refuse

LEMMA ServeAgrees ==
  ASSUME NEW id, NEW m, NEW result, Serve(id, m, result)
  PROVE  ServedAsGranted
<1>1. AnswerCode(result) \in {"record", "lacking", "notFound", "written", "raised"}
  BY DEF AnswerCode
<1> QED BY <1>1 DEF Serve, ServedAsGranted

LEMMA EvaluateAgrees ==
  ASSUME NEW q, Deny(q) \/ \E id : Issue(id, q)
  PROVE  ServedAsGranted
  BY DEF Deny, Issue, ServedAsGranted

LEMMA AgreeNext == ConsumedByCall /\ [Next]_vars => [ServedAsGranted]_vars
<1> SUFFICES ASSUME ConsumedByCall, Next PROVE ServedAsGranted OBVIOUS
<1>1. CASE People BY <1>1, PeopleHold
<1>2. ASSUME NEW r \in Runs, Workflows(r) PROVE ServedAsGranted
  <2>1. CASE CallFails(r) \/ \E agent \in Agents, d \in Delegations : StartWorkflow(r, agent, d)
    BY <2>1, SilentHolds DEF CallFails, StartWorkflow
  <2>2. CASE WorkflowDenied(r) \/ WorkflowGranted(r)
    BY <2>2, EvaluateAgrees DEF WorkflowDenied, WorkflowGranted
  <2>3. CASE WorkflowRefused(r) BY <2>3, RefuseAgrees DEF WorkflowRefused
  <2>4. ASSUME NEW result \in Results, WorkflowServed(r, result) PROVE ServedAsGranted
    BY <2>4, ServeAgrees DEF WorkflowServed
  <2> QED BY <1>2, <2>1, <2>2, <2>3, <2>4 DEF Workflows
<1>3. ASSUME NEW c \in Others, OtherCalls(c) PROVE ServedAsGranted
  <2>1. ASSUME NEW q, OtherDenied(c, q) \/ OtherGranted(c, q) PROVE ServedAsGranted
    BY <2>1, EvaluateAgrees DEF OtherDenied, OtherGranted
  <2>2. ASSUME NEW id, NEW m, OtherRefused(c, id, m) PROVE ServedAsGranted
    BY <2>2, RefuseAgrees DEF OtherRefused
  <2>3. ASSUME NEW id, NEW m, NEW result, OtherServed(c, id, m, result) PROVE ServedAsGranted
    BY <2>3, ServeAgrees DEF OtherServed
  <2> QED BY <1>3, <2>1, <2>2, <2>3 DEF OtherCalls
<1> QED BY <1>1, <1>2, <1>3 DEF Next

(* What the control plane grants the gateway serves, presented once and as *)
(* granted while it is live.                                               *)
THEOREM GrantedIsServed == Spec => ServicesAgree
<1>1. AgentInv => ConsumedByCall BY DEF AgentInv
<1> QED BY <1>1, AgentInvariant, AgreeNext, PTL DEF Spec, ServicesAgree
=============================================================================
