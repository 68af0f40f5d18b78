--------------------------- MODULE GrantLifecycle ---------------------------
(***************************************************************************)
(* The execution grants of one delegation and its task: the control        *)
(* plane's evaluate_grant, create_approval and revoke_delegation, and the  *)
(* execution gateway's execute, run by concurrent requests over one store. *)
(*                                                                         *)
(* Every await on the store is a step of its own, so any two requests may  *)
(* interleave between the read that authorises an action and the write     *)
(* that performs it.  Phases that only look at the request itself (agent,  *)
(* manifest, region, purpose, constraints, screening) are a free choice    *)
(* between going on and a denial.                                          *)
(***************************************************************************)
EXTENDS Naturals, FiniteSets, Sequences, TaskStates

CONSTANTS
  Grants,            \* evaluate requests, each with the grant_id it would mint
  Executions,        \* execute requests the gateway may be handling at a time
  Approvals,         \* approval_id of every approval that may be created
  Humans, Sponsor,   \* authenticated users and the sponsor of the delegation
  Keys, Values,      \* of a request's arguments and an approval's subject
  ScalarKeys,        \* keys whose value is a str, int, float or bool
  ArgumentsOf,       \* the arguments of each evaluate request
  RequiresApproval,  \* does the policy of the request's tool need an approval?
  SodRules,          \* tool_policy.sod_approver_must_differ_from
  TTL, ApprovalTTL,  \* DF_GRANT_TTL_SECONDS and expires_in_seconds, in ticks
  DelegationExpires, \* delegation.expires_at
  MaxTime,           \* bound on the clock
  MaxEvaluations,    \* evaluate requests in progress at a time
  TaskMoves,         \* state-machine events other writers apply to the task
  NoApproval, NoGrant

(* Arguments and subjects are JSON objects: partial functions on the keys. *)
Arguments == UNION {[K -> Values] : K \in SUBSET Keys}

ASSUME HumansAssumption == Sponsor \in Humans
ASSUME KeysAssumption == ScalarKeys \subseteq Keys
ASSUME RequestsAssumption ==
  /\ ArgumentsOf \in [Grants -> Arguments]
  /\ RequiresApproval \in [Grants -> BOOLEAN]
ASSUME TimesAssumption ==
  /\ TTL \in Nat \ {0} /\ ApprovalTTL \in Nat \ {0}
  /\ DelegationExpires \in Nat /\ MaxTime \in Nat
ASSUME NoValueAssumption == NoApproval \notin Approvals /\ NoGrant \notin Grants

VARIABLES
  clock,
  delegation,  \* delegations/{id}.status
  task,        \* tasks/{id}.state
  approvals,   \* approvals/*
  grants,      \* grants/*
  audit,       \* the audit events of this task, as a set (AuditChain: order)
  eval,        \* the evaluate_grant coroutine of each request
  exec,        \* the execute coroutines of the gateway
  tokens,      \* grants whose signed token was returned to the agent
  effects      \* the arguments of the adapter calls made under each grant

requests == <<eval, exec>>
outside  == <<tokens, effects>>
vars == <<clock, delegation, task, approvals, grants, audit, requests, outside>>

---------------------------------------------------------------------------
(* Documents and coroutines. *)

Time == 0 .. MaxTime

(* An approval of another delegation or of another approval_type is        *)
(* skipped like a rejected one.                                            *)
Approval == [subject : Arguments, decision : {"approved", "rejected"},
             approver : Humans, expires : Nat, usedBy : Grants \cup {NoGrant}]

ASSUME NoApprovalAssumption == NoApproval \notin Approval

Grant == [status : {"none", "issued", "consumed", "expired"}, expires : Nat,
          consumedAt : Nat, approval : Approvals \cup {NoApproval}]

NoGrantRecord ==
  [status |-> "none", expires |-> 0, consumedAt |-> 0, approval |-> NoApproval]

AuditTypes == {"grant.issued", "policy.denied", "task.quarantined",
               "tool.execution.completed", "delegation.revoked"}

(* An audit event names the grant, or the request for it, that it is about.*)
AuditEvent == [type : AuditTypes, grant : Grants \cup {NoGrant}]

EvalPc == {"idle", "delegation", "task", "approvals", "issue", "bind", "audit",
           "withdraw", "return", "quarantine", "record", "done"}

(* late: history, the request began after the delegation or task had ended.*)
(* spent: history, the approvals under which a token had been returned when*)
(* the request began.  No guard reads either.                              *)
Eval == [pc : EvalPc, now : Time, approval : Approvals \cup {NoApproval},
         late : BOOLEAN, spent : SUBSET Approvals]

Exec == [pc : {"idle", "delegation", "task", "consume", "adapter", "audit"},
         grant : Grants \cup {NoGrant}, now : Time, args : Arguments,
         late : BOOLEAN]

IdleExec == [pc |-> "idle", grant |-> NoGrant, now |-> 0,
             args |-> [k \in {} |-> k], late |-> FALSE]

RevocationEvent == [type |-> "delegation.revoked", grant |-> NoGrant]

(* The documents, requests and tokens have the values declared above.      *)
TypeOK ==
  /\ clock \in Time
  /\ delegation \in {"active", "revoked"}
  /\ task \in TaskState
  /\ approvals \in [Approvals -> Approval \cup {NoApproval}]
  /\ grants \in [Grants -> Grant]
  /\ audit \subseteq AuditEvent
  /\ eval \in [Grants -> Eval]
  /\ exec \in [Executions -> Exec]
  /\ tokens \subseteq Grants
  /\ effects \in [Grants -> Seq(Arguments)]

---------------------------------------------------------------------------
(* Decisions. *)

(* Mutant: only a quarantine stops a task. *)
NotQuarantined(state) == state # "quarantined"

Live(state) == state \notin Terminal \cup {"quarantined"}

Ended == delegation = "revoked" \/ task \in Terminal

Spent == {grants[g].approval : g \in tokens} \ {NoApproval}

(* Mutant: the expiry of the delegation is not looked at. *)
NotRevoked(now) == delegation # "revoked" /\ now \in Time

DelegationUsable(now) == delegation # "revoked" /\ DelegationExpires > now

(* Every key of the pattern is an argument with the same value. *)
Matches(pattern, args) ==
  \A k \in DOMAIN pattern : k \in DOMAIN args /\ args[k] = pattern[k]

IsValid(apr, now) == apr.decision = "approved" /\ apr.expires > now

Candidate(apr, g, now) ==
  /\ IsValid(apr, now)
  /\ apr.usedBy = NoGrant
  /\ Matches(apr.subject, ArgumentsOf[g])

(* An unknown separation-of-duties rule fails closed. *)
SodSatisfied(apr) ==
  \A rule \in SodRules :
    \/ rule = "delegation_sponsor" /\ apr.approver # Sponsor
    \/ rule = "originating_exception_actor"

Usable(a, g, now) ==
  /\ approvals[a] # NoApproval
  /\ Candidate(approvals[a], g, now)
  /\ SodSatisfied(approvals[a])

(* Mutant: the arguments are not pinned. *)
NothingPinned(g) == [k \in {} |-> ArgumentsOf[g][k]]

(* The scalar arguments of the evaluation are pinned by EQ constraints. *)
Pinned(g) == [k \in DOMAIN ArgumentsOf[g] \cap ScalarKeys |-> ArgumentsOf[g][k]]

---------------------------------------------------------------------------
(* Control plane: evaluate_grant. *)

Evaluating == {g \in Grants : eval[g].pc \notin {"idle", "done"}}

Continue(g, from, to) ==
  /\ eval[g].pc = from
  /\ eval' = [eval EXCEPT ![g].pc = to]

BeginEvaluate(g) ==
  /\ eval[g].pc = "idle" /\ Cardinality(Evaluating) < MaxEvaluations
  /\ eval' = [eval EXCEPT ![g] = [pc |-> "delegation", now |-> clock,
                                  approval |-> NoApproval, late |-> Ended,
                                  spent |-> Spent]]
  /\ UNCHANGED <<clock, delegation, task, approvals, grants, audit, exec, outside>>

(* Phases A-C. *)
ReadDelegation(g) ==
  /\ Continue(g, "delegation", "task")
  /\ DelegationUsable(eval[g].now)
  /\ UNCHANGED <<clock, delegation, task, approvals, grants, audit, exec, outside>>

(* Phase A3 and the checks of the request itself, D to F2. *)
ReadTask(g) ==
  /\ Continue(g, "task", IF RequiresApproval[g] THEN "approvals" ELSE "issue")
  /\ Live(task)
  /\ UNCHANGED <<clock, delegation, task, approvals, grants, audit, exec, outside>>

(* Phase G: the first candidate that satisfies the separation of duties;   *)
(* which one is first is left open.                                        *)
ReadApprovals(g) ==
  /\ eval[g].pc = "approvals"
  /\ \E a \in Approvals :
       /\ Usable(a, g, eval[g].now)
       /\ eval' = [eval EXCEPT ![g].pc = "issue", ![g].approval = a]
  /\ UNCHANGED <<clock, delegation, task, approvals, grants, audit, exec, outside>>

(* A denial at any phase; only some of the reasons quarantine the task.    *)
Denied(g) ==
  CASE eval[g].pc = "delegation" -> ~DelegationUsable(eval[g].now)
    [] eval[g].pc = "approvals"  -> \A a \in Approvals : ~Usable(a, g, eval[g].now)
    [] OTHER                     -> eval[g].pc \in {"task", "issue"}

Quarantines(g) ==
  IF eval[g].pc = "issue" \/ (eval[g].pc = "task" /\ Live(task))
  THEN BOOLEAN ELSE {FALSE}

(* _deny: the denial is audited first, then the task is quarantined.       *)
Deny(g) ==
  /\ Denied(g)
  /\ \E quarantine \in Quarantines(g) :
       eval' = [eval EXCEPT ![g].pc = IF quarantine THEN "quarantine" ELSE "done"]
  /\ audit' = audit \cup {[type |-> "policy.denied", grant |-> g]}
  /\ UNCHANGED <<clock, delegation, task, approvals, grants, exec, outside>>

MoveTask(event) ==
  \E next \in TaskState : Transition(task, event, next) /\ task' = next

(* A task that is not running is left alone, and so is one that a racing   *)
(* writer changes between the read and the write (see TaskLifecycle).      *)
QuarantineTask(g) ==
  /\ \/ /\ MoveTask("security_event")
        /\ Continue(g, "quarantine", "record")
     \/ UNCHANGED task /\ Continue(g, "quarantine", "done")
  /\ UNCHANGED <<clock, delegation, approvals, grants, audit, exec, outside>>

AuditQuarantine(g) ==
  /\ Continue(g, "record", "done")
  /\ audit' = audit \cup {[type |-> "task.quarantined", grant |-> g]}
  /\ UNCHANGED <<clock, delegation, task, approvals, grants, exec, outside>>

(* Mutant: the sign of the lifetime. *)
AlreadyExpired(now) == now - TTL

ExpiresAt(now) == now + TTL

(* Phase I is over and the grant is signed; an await on the screener may   *)
(* lie behind the reads above.                                             *)
PutGrant(g) ==
  /\ Continue(g, "issue", IF eval[g].approval = NoApproval THEN "audit" ELSE "bind")
  /\ grants' = [grants EXCEPT ![g] =
       [NoGrantRecord EXCEPT !.status = "issued", !.expires = ExpiresAt(eval[g].now),
                             !.approval = eval[g].approval]]
  /\ UNCHANGED <<clock, delegation, task, approvals, audit, exec, outside>>

(* Mutant: the copy is put before used_by_grant_id is set in it. *)
BindAfterPut(g) ==
  /\ Continue(g, "bind", "audit")
  /\ approvals' = [approvals EXCEPT ![eval[g].approval].usedBy = NoGrant]
  /\ UNCHANGED <<clock, delegation, task, grants, audit, exec, outside>>

(* put_approval writes the copy read in phase G, whatever was stored since;*)
(* used_by_grant_id is the only field that ever changes.                   *)
BindApproval(g) ==
  /\ Continue(g, "bind", "audit")
  /\ approvals' = [approvals EXCEPT ![eval[g].approval].usedBy = g]
  /\ UNCHANGED <<clock, delegation, task, grants, audit, exec, outside>>

AuditIssue(g) ==
  /\ Continue(g, "audit", "return")
  /\ audit' = audit \cup {[type |-> "grant.issued", grant |-> g]}
  /\ UNCHANGED <<clock, delegation, task, approvals, grants, exec, outside>>

(* Mutant: the exception is swallowed. *)
AuditIssueIgnored(g) ==
  /\ Continue(g, "audit", "return")
  /\ UNCHANGED <<clock, delegation, task, approvals, grants, audit, exec, outside>>

(* The append raises, whether or not it was stored. *)
AuditIssueFails(g) ==
  /\ Continue(g, "audit", "withdraw")
  /\ audit' \in {audit, audit \cup {[type |-> "grant.issued", grant |-> g]}}
  /\ UNCHANGED <<clock, delegation, task, approvals, grants, exec, outside>>

(* Mutant: the token is returned all the same. *)
WithdrawAndReturn(g) ==
  /\ Continue(g, "withdraw", "return")
  /\ grants' = [grants EXCEPT ![g].status = "expired"]
  /\ UNCHANGED <<clock, delegation, task, approvals, audit, exec, outside>>

WithdrawGrant(g) ==
  /\ Continue(g, "withdraw", "done")
  /\ grants' = [grants EXCEPT ![g].status = "expired"]
  /\ UNCHANGED <<clock, delegation, task, approvals, audit, exec, outside>>

ReturnToken(g) ==
  /\ Continue(g, "return", "done")
  /\ tokens' = tokens \cup {g}
  /\ UNCHANGED <<clock, delegation, task, approvals, grants, audit, exec, effects>>

(* The instance dies or a store call raises: the request leaves what it    *)
(* has written so far.                                                     *)
EvaluateFails(g) ==
  /\ g \in Evaluating
  /\ eval' = [eval EXCEPT ![g].pc = "done"]
  /\ UNCHANGED <<clock, delegation, task, approvals, grants, audit, exec, outside>>

---------------------------------------------------------------------------
(* Control plane: create_approval, revoke_delegation. *)

CreateApproval(a) ==
  /\ approvals[a] = NoApproval
  /\ \E subject \in Arguments, human \in Humans, decision \in {"approved", "rejected"} :
       approvals' = [approvals EXCEPT ![a] =
         [subject |-> subject, decision |-> decision, approver |-> human,
          expires |-> clock + ApprovalTTL, usedBy |-> NoGrant]]
  /\ UNCHANGED <<clock, delegation, task, grants, audit, requests, outside>>

Revoke ==
  /\ delegation = "active"
  /\ delegation' = "revoked"
  /\ UNCHANGED <<clock, task, approvals, grants, audit, requests, outside>>

AuditRevocation ==
  /\ delegation = "revoked" /\ RevocationEvent \notin audit
  /\ audit' = audit \cup {RevocationEvent}
  /\ UNCHANGED <<clock, delegation, task, approvals, grants, requests, outside>>

---------------------------------------------------------------------------
(* Execution gateway: execute. *)

Proceed(x, from, to) ==
  /\ exec[x].pc = from
  /\ exec' = [exec EXCEPT ![x].pc = to]

(* Steps 1 to 7: the token verifies and its exp has not passed. The agent  *)
(* may present it again, with other arguments, and several at a time.      *)
BeginExecute(x) ==
  /\ exec[x].pc = "idle"
  /\ \E g \in tokens, args \in Arguments :
       /\ clock < grants[g].expires
       /\ exec' = [exec EXCEPT ![x] = [pc |-> "delegation", grant |-> g,
                     now |-> clock, args |-> args, late |-> Ended]]
  /\ UNCHANGED <<clock, delegation, task, approvals, grants, audit, eval, outside>>

(* Step 8a. *)
CheckDelegation(x) ==
  /\ Proceed(x, "delegation", "task")
  /\ DelegationUsable(exec[x].now)
  /\ UNCHANGED <<clock, delegation, task, approvals, grants, audit, eval, outside>>

(* Steps 8b, 9 and 12: the task is live and the actual arguments satisfy   *)
(* the constraints of the grant.                                           *)
CheckTask(x) ==
  /\ Proceed(x, "task", "consume")
  /\ Live(task)
  /\ Matches(Pinned(exec[x].grant), exec[x].args)
  /\ UNCHANGED <<clock, delegation, task, approvals, grants, audit, eval, outside>>

(* Mutant: the status is not compared. *)
Unexpired(g, now) == grants[g].expires > now

Consumable(g, now) == grants[g].status = "issued" /\ grants[g].expires > now

(* Steps 10 and 11, consume_grant_atomic. Its "expired" branch repeats the *)
(* exp check of step 6 with the same two times and is never taken.         *)
ConsumeGrant(x) ==
  LET g == exec[x].grant IN
  /\ Proceed(x, "consume", "adapter")
  /\ Consumable(g, exec[x].now)
  /\ grants' = [grants EXCEPT ![g] =
                  [@ EXCEPT !.status = "consumed", !.consumedAt = exec[x].now]]
  /\ UNCHANGED <<clock, delegation, task, approvals, audit, eval, outside>>

(* Step 13: the adapter call takes effect. *)
CallAdapter(x) ==
  /\ Proceed(x, "adapter", "audit")
  /\ effects' = [effects EXCEPT ![exec[x].grant] = Append(@, exec[x].args)]
  /\ UNCHANGED <<clock, delegation, task, approvals, grants, audit, eval, tokens>>

AuditExecution(x) ==
  /\ exec[x].pc = "audit"
  /\ audit' = audit \cup {[type |-> "tool.execution.completed", grant |-> exec[x].grant]}
  /\ exec' = [exec EXCEPT ![x] = IdleExec]
  /\ UNCHANGED <<clock, delegation, task, approvals, grants, eval, outside>>

(* A check refuses the request, a call raises or the instance dies.        *)
ExecuteEnds(x) ==
  /\ exec[x].pc # "idle"
  /\ exec' = [exec EXCEPT ![x] = IdleExec]
  /\ UNCHANGED <<clock, delegation, task, approvals, grants, audit, eval, outside>>

---------------------------------------------------------------------------
(* The rest of the system. *)

Tick ==
  /\ clock < MaxTime
  /\ clock' = clock + 1
  /\ UNCHANGED <<delegation, task, approvals, grants, audit, requests, outside>>

OtherWriter ==
  /\ \E event \in TaskMoves : MoveTask(event)
  /\ UNCHANGED <<clock, delegation, approvals, grants, audit, requests, outside>>

Init ==
  /\ clock = 0
  /\ delegation = "active"
  /\ task = "created"
  /\ approvals = [a \in Approvals |-> NoApproval]
  /\ grants = [g \in Grants |-> NoGrantRecord]
  /\ audit = {}
  /\ eval = [g \in Grants |-> [pc |-> "idle", now |-> 0, approval |-> NoApproval,
                               late |-> FALSE, spent |-> {}]]
  /\ exec = [x \in Executions |-> IdleExec]
  /\ tokens = {}
  /\ effects = [g \in Grants |-> <<>>]

Evaluate(g) ==
  \/ BeginEvaluate(g) \/ ReadDelegation(g) \/ ReadTask(g) \/ ReadApprovals(g)
  \/ Deny(g) \/ QuarantineTask(g) \/ AuditQuarantine(g)
  \/ PutGrant(g) \/ BindApproval(g)
  \/ AuditIssue(g) \/ AuditIssueFails(g) \/ WithdrawGrant(g)
  \/ ReturnToken(g) \/ EvaluateFails(g)

Execute(x) ==
  \/ BeginExecute(x) \/ CheckDelegation(x) \/ CheckTask(x) \/ ConsumeGrant(x)
  \/ CallAdapter(x) \/ AuditExecution(x) \/ ExecuteEnds(x)

Next ==
  \/ \E g \in Grants : Evaluate(g)
  \/ \E x \in Executions : Execute(x)
  \/ \E a \in Approvals : CreateApproval(a)
  \/ Revoke \/ AuditRevocation
  \/ Tick \/ OtherWriter

Spec == Init /\ [][Next]_vars
=============================================================================
