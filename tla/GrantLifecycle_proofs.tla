----------------------- MODULE GrantLifecycle_proofs -----------------------
(***************************************************************************)
(* Theorems about GrantLifecycle for every set of requests, executions,    *)
(* approvals, humans, keys and values, and all times.                      *)
(***************************************************************************)
EXTENDS GrantLifecycleProperties, TLAPS

---------------------------------------------------------------------------
(* The type invariant. *)

LEMMA NoArguments == [k \in {} |-> k] \in Arguments
<1>1. {} \in SUBSET Keys OBVIOUS
<1>2. [k \in {} |-> k] \in [{} -> Values] OBVIOUS
<1> QED BY <1>1, <1>2 DEF Arguments

(* An approval that a request has chosen exists: none is ever taken back.  *)
ChosenExists ==
  \A g \in Grants : eval[g].approval # NoApproval => approvals[eval[g].approval] # NoApproval

TypeInv == TypeOK /\ ChosenExists

LEMMA InitType == Init => TypeInv
<1> SUFFICES ASSUME Init PROVE TypeInv OBVIOUS
<1>1. clock \in Time /\ 0 \in Time BY TimesAssumption DEF Init, Time
<1>2. task \in TaskState BY DEF Init, TaskState
<1>3. grants \in [Grants -> Grant] BY DEF Init, NoGrantRecord, Grant
<1>4. eval \in [Grants -> Eval] BY <1>1 DEF Init, Eval, EvalPc
<1>5. exec \in [Executions -> Exec]
  BY <1>1, NoArguments DEF Init, IdleExec, Exec
<1>6. effects \in [Grants -> Seq(Arguments)] BY DEF Init
<1>7. ChosenExists BY DEF Init, ChosenExists
<1> QED BY <1>1, <1>2, <1>3, <1>4, <1>5, <1>6, <1>7 DEF Init, TypeOK, TypeInv

(* A request that goes on keeps what it read. *)
LEMMA ContinueType ==
  ASSUME TypeOK, NEW g \in Grants, NEW from, NEW to \in EvalPc, Continue(g, from, to)
  PROVE  eval' \in [Grants -> Eval]
  BY DEF TypeOK, Continue, Eval

LEMMA MoveTaskType ==
  ASSUME TypeOK, NEW event, MoveTask(event)
  PROVE  task' \in TaskState
  BY DEF MoveTask

LEMMA EvaluateType ==
  ASSUME TypeInv, NEW g \in Grants, Evaluate(g)
  PROVE  TypeOK'
<1> USE DEF requests, outside, TypeInv
<1>1. CASE BeginEvaluate(g)
  <2>1. Ended \in BOOLEAN BY DEF Ended
  <2>2. Spent \subseteq Approvals BY DEF Spent, TypeOK, Grant
  <2> HIDE DEF Spent
  <2>3. [pc |-> "delegation", now |-> clock, approval |-> NoApproval, late |-> Ended,
         spent |-> Spent] \in Eval
    BY <2>1, <2>2 DEF TypeOK, Eval, EvalPc
  <2>4. eval' \in [Grants -> Eval] BY <1>1, <2>3 DEF BeginEvaluate, TypeOK
  <2> QED BY <1>1, <2>4 DEF BeginEvaluate, TypeOK
<1>2. CASE ReadDelegation(g)
  BY <1>2, ContinueType DEF ReadDelegation, TypeOK, EvalPc
<1>3. CASE ReadTask(g)
  BY <1>3, ContinueType DEF ReadTask, TypeOK, EvalPc
<1>4. CASE ReadApprovals(g)
  <2>1. PICK a \in Approvals : eval' = [eval EXCEPT ![g].pc = "issue", ![g].approval = a]
    BY <1>4 DEF ReadApprovals
  <2>2. eval \in [Grants -> Eval] BY DEF TypeOK
  <2>3. [[eval[g] EXCEPT !.pc = "issue"] EXCEPT !.approval = a] \in Eval
    BY <2>2 DEF Eval, EvalPc
  <2>4. eval' = [eval EXCEPT ![g] = [[eval[g] EXCEPT !.pc = "issue"] EXCEPT !.approval = a]]
    BY <2>1, <2>2
  <2>5. eval' \in [Grants -> Eval] BY <2>2, <2>3, <2>4
  <2> QED BY <1>4, <2>5 DEF ReadApprovals, TypeOK
<1>5. CASE Deny(g)
  <2>1. PICK pc \in {"quarantine", "done"} : eval' = [eval EXCEPT ![g].pc = pc]
    BY <1>5 DEF Deny
  <2>2. eval' \in [Grants -> Eval] BY <2>1 DEF TypeOK, Eval, EvalPc
  <2> QED BY <1>5, <2>2 DEF Deny, TypeOK, AuditEvent, AuditTypes
<1>6. CASE QuarantineTask(g)
  BY <1>6, ContinueType, MoveTaskType DEF QuarantineTask, TypeOK, EvalPc
<1>7. CASE AuditQuarantine(g)
  BY <1>7, ContinueType DEF AuditQuarantine, TypeOK, EvalPc, AuditEvent, AuditTypes
<1>8. CASE PutGrant(g)
  <2>1. ExpiresAt(eval[g].now) \in Nat
    BY TimesAssumption DEF ExpiresAt, TypeOK, Eval, Time
  <2>2. eval[g].approval \in Approvals \cup {NoApproval} BY DEF TypeOK, Eval
  <2>3. eval' \in [Grants -> Eval]
    BY <1>8, ContinueType DEF PutGrant, EvalPc
  <2>4. [NoGrantRecord EXCEPT !.status = "issued", !.expires = ExpiresAt(eval[g].now),
                              !.approval = eval[g].approval] \in Grant
    BY <2>1, <2>2 DEF NoGrantRecord, Grant
  <2>5. grants' \in [Grants -> Grant]
    BY <1>8, <2>4 DEF PutGrant, TypeOK
  <2> QED BY <1>8, <2>3, <2>5 DEF PutGrant, TypeOK
<1>9. CASE BindApproval(g)
  <2> DEFINE a == eval[g].approval
  <2>1. eval' \in [Grants -> Eval] BY <1>9, ContinueType DEF BindApproval, EvalPc
  <2>2. a \in Approvals => approvals[a] \in Approval
    BY NoValueAssumption DEF ChosenExists, TypeOK
  <2>3. a \in Approvals => [approvals[a] EXCEPT !.usedBy = g] \in Approval
    BY <2>2 DEF Approval
  <2>4. approvals' \in [Approvals -> Approval \cup {NoApproval}]
    BY <1>9, <2>3 DEF BindApproval, TypeOK
  <2> QED BY <1>9, <2>1, <2>4 DEF BindApproval, TypeOK
<1>10. CASE AuditIssue(g)
  BY <1>10, ContinueType DEF AuditIssue, TypeOK, EvalPc, AuditEvent, AuditTypes
<1>11. CASE AuditIssueFails(g)
  BY <1>11, ContinueType DEF AuditIssueFails, TypeOK, EvalPc, AuditEvent, AuditTypes
<1>12. CASE WithdrawGrant(g)
  <2>1. grants' \in [Grants -> Grant] BY <1>12 DEF WithdrawGrant, TypeOK, Grant
  <2> QED BY <1>12, <2>1, ContinueType DEF WithdrawGrant, TypeOK, EvalPc
<1>13. CASE ReturnToken(g)
  BY <1>13, ContinueType DEF ReturnToken, TypeOK, EvalPc
<1>14. CASE EvaluateFails(g)
  BY <1>14 DEF EvaluateFails, TypeOK, Eval, EvalPc
<1> QED
  BY <1>1, <1>2, <1>3, <1>4, <1>5, <1>6, <1>7, <1>8, <1>9, <1>10, <1>11, <1>12,
     <1>13, <1>14 DEF Evaluate

LEMMA ExecuteType ==
  ASSUME TypeOK, NEW x \in Executions, Execute(x)
  PROVE  TypeOK'
<1> USE DEF requests, outside
<1>0. IdleExec \in Exec
  BY NoArguments, TimesAssumption DEF IdleExec, Exec, Time
<1>1. CASE BeginExecute(x)
  <2>1. PICK g \in tokens, args \in Arguments :
          exec' = [exec EXCEPT ![x] = [pc |-> "delegation", grant |-> g,
                     now |-> clock, args |-> args, late |-> Ended]]
    BY <1>1 DEF BeginExecute
  <2>2. Ended \in BOOLEAN BY DEF Ended
  <2>3. [pc |-> "delegation", grant |-> g, now |-> clock, args |-> args, late |-> Ended] \in Exec
    BY <2>2 DEF TypeOK, Exec
  <2>4. exec' \in [Executions -> Exec] BY <2>1, <2>3 DEF TypeOK
  <2> QED BY <1>1, <2>4 DEF BeginExecute, TypeOK
<1>2. ASSUME NEW from, NEW to \in {"task", "consume", "adapter", "audit"},
             Proceed(x, from, to)
      PROVE  exec' \in [Executions -> Exec]
  BY <1>2 DEF Proceed, TypeOK, Exec
<1>3. CASE CheckDelegation(x) BY <1>2, <1>3 DEF CheckDelegation, TypeOK
<1>4. CASE CheckTask(x) BY <1>2, <1>4 DEF CheckTask, TypeOK
<1>5. CASE ConsumeGrant(x)
  <2> DEFINE g == exec[x].grant
             r == [grants[g] EXCEPT !.status = "consumed", !.consumedAt = exec[x].now]
  <2>1. exec[x].now \in Nat BY TimesAssumption DEF TypeOK, Exec, Time
  <2>2. g \in Grants => grants[g] \in Grant BY DEF TypeOK
  <2>3. g \in Grants => r \in Grant BY <2>1, <2>2 DEF Grant
  <2>4. grants' \in [Grants -> Grant] BY <1>5, <2>3 DEF ConsumeGrant, TypeOK
  <2> QED BY <1>2, <1>5, <2>4 DEF ConsumeGrant, TypeOK
<1>6. CASE CallAdapter(x)
  <2> DEFINE g == exec[x].grant
  <2>1. exec[x].args \in Arguments BY DEF TypeOK, Exec
  <2>2. g \in Grants => Append(effects[g], exec[x].args) \in Seq(Arguments)
    BY <2>1 DEF TypeOK
  <2>3. effects' = [effects EXCEPT ![g] = Append(effects[g], exec[x].args)]
    BY <1>6 DEF CallAdapter
  <2>4. effects' \in [Grants -> Seq(Arguments)]
    BY <2>2, <2>3 DEF TypeOK
  <2> QED BY <1>2, <1>6, <2>4 DEF CallAdapter, TypeOK
<1>7. CASE AuditExecution(x)
  <2>1. exec[x].grant \in Grants \cup {NoGrant} BY DEF TypeOK, Exec
  <2> QED BY <1>0, <1>7, <2>1 DEF AuditExecution, TypeOK, AuditEvent, AuditTypes
<1>8. CASE ExecuteEnds(x) BY <1>0, <1>8 DEF ExecuteEnds, TypeOK
<1> QED BY <1>1, <1>3, <1>4, <1>5, <1>6, <1>7, <1>8 DEF Execute

LEMMA OthersType ==
  ASSUME TypeOK,
         \/ \E a \in Approvals : CreateApproval(a)
         \/ Revoke \/ AuditRevocation \/ Tick \/ OtherWriter
  PROVE  TypeOK'
<1> USE DEF requests, outside
<1>1. ASSUME NEW a \in Approvals, CreateApproval(a) PROVE TypeOK'
  <2>1. PICK subject \in Arguments, human \in Humans, decision \in {"approved", "rejected"} :
          approvals' = [approvals EXCEPT ![a] =
            [subject |-> subject, decision |-> decision, approver |-> human,
             expires |-> clock + ApprovalTTL, usedBy |-> NoGrant]]
    BY <1>1 DEF CreateApproval
  <2>2. clock + ApprovalTTL \in Nat BY TimesAssumption DEF TypeOK, Time
  <2>3. approvals'[a] \in Approval BY <2>1, <2>2 DEF TypeOK, Approval
  <2>4. approvals' \in [Approvals -> Approval \cup {NoApproval}]
    BY <2>1, <2>3 DEF TypeOK
  <2> QED BY <1>1, <2>4 DEF CreateApproval, TypeOK
<1>2. CASE Revoke BY <1>2 DEF Revoke, TypeOK
<1>3. CASE AuditRevocation
  BY <1>3 DEF AuditRevocation, RevocationEvent, TypeOK, AuditEvent, AuditTypes
<1>4. CASE Tick BY <1>4, TimesAssumption DEF Tick, TypeOK, Time
<1>5. CASE OtherWriter BY <1>5, MoveTaskType DEF OtherWriter, TypeOK
<1> QED BY <1>1, <1>2, <1>3, <1>4, <1>5

(* Which approval a request has chosen changes only in phase G, where it   *)
(* must be there, and no step takes an approval away.                      *)
LEMMA ChosenStays ==
  ASSUME TypeInv, TypeOK', [Next]_vars
  PROVE  ChosenExists'
<1> USE DEF requests, outside
<1>1. \A a \in Approvals : approvals[a] # NoApproval => approvals'[a] # NoApproval
  <2>1. ASSUME UNCHANGED approvals
        PROVE  \A a \in Approvals : approvals[a] # NoApproval => approvals'[a] # NoApproval
    BY <2>1
  <2>2. ASSUME NEW g \in Grants, BindApproval(g), NEW a \in Approvals,
               approvals[a] # NoApproval
        PROVE  approvals'[a] # NoApproval
    <3>1. approvals[a] \in Approval BY <2>2 DEF TypeInv, TypeOK
    <3>2. approvals'[a] \in {approvals[a], [approvals[a] EXCEPT !.usedBy = g]}
      BY <2>2 DEF BindApproval, TypeInv, TypeOK
    <3>3. [approvals[a] EXCEPT !.usedBy = g] \in Approval
      BY <3>1 DEF Approval
    <3> QED BY <3>1, <3>2, <3>3, NoApprovalAssumption
  <2>3. ASSUME NEW b \in Approvals, CreateApproval(b), NEW a \in Approvals,
               approvals[a] # NoApproval
        PROVE  approvals'[a] # NoApproval
    BY <2>3 DEF CreateApproval, TypeInv, TypeOK
  <2>4. CASE UNCHANGED vars BY <2>1, <2>4 DEF vars
  <2> QED
    BY <2>1, <2>2, <2>3, <2>4
    DEF Next, Evaluate, BeginEvaluate, ReadDelegation, ReadTask, ReadApprovals, Deny,
        QuarantineTask, AuditQuarantine, PutGrant, AuditIssue, AuditIssueFails,
        WithdrawGrant, ReturnToken, EvaluateFails, Execute, BeginExecute,
        CheckDelegation, CheckTask, ConsumeGrant, CallAdapter, AuditExecution,
        ExecuteEnds, Revoke, AuditRevocation, Tick, OtherWriter
<1> DEFINE Chooses(h) ==
      \/ eval'[h].approval \in {eval[h].approval, NoApproval}
      \/ eval'[h].approval \in Approvals /\ approvals[eval'[h].approval] # NoApproval
<1>2. \A h \in Grants : Chooses(h)
  <2>1. CASE UNCHANGED eval BY <2>1
  <2>2. ASSUME NEW g \in Grants, NEW from, NEW to, Continue(g, from, to)
        PROVE  \A h \in Grants : eval'[h].approval = eval[h].approval
    BY <2>2 DEF Continue, TypeInv, TypeOK, Eval
  <2>3. ASSUME NEW g \in Grants, NEW pc, eval' = [eval EXCEPT ![g].pc = pc]
        PROVE  \A h \in Grants : eval'[h].approval = eval[h].approval
    BY <2>3 DEF TypeInv, TypeOK, Eval
  <2>4. ASSUME NEW g \in Grants, BeginEvaluate(g), NEW h \in Grants
        PROVE  Chooses(h)
    BY <2>4 DEF BeginEvaluate, TypeInv, TypeOK
  <2>5. ASSUME NEW g \in Grants, ReadApprovals(g), NEW h \in Grants
        PROVE  Chooses(h)
    BY <2>5 DEF ReadApprovals, Usable, TypeInv, TypeOK
  <2>6. ASSUME NEW g \in Grants, Deny(g) PROVE \A h \in Grants : Chooses(h)
    <3>1. \E pc : eval' = [eval EXCEPT ![g].pc = pc] BY <2>6 DEF Deny
    <3> QED BY <2>3, <3>1
  <2> HIDE DEF Chooses
  <2>7. ASSUME NEW g \in Grants, Evaluate(g) PROVE \A h \in Grants : Chooses(h)
    <3>1. \A h \in Grants : eval'[h].approval = eval[h].approval => Chooses(h)
      BY DEF Chooses
    <3> QED
      BY <2>2, <2>3, <2>4, <2>5, <2>6, <2>7, <3>1
      DEF Evaluate, ReadDelegation, ReadTask, QuarantineTask, AuditQuarantine, PutGrant,
          BindApproval, AuditIssue, AuditIssueFails, WithdrawGrant, ReturnToken,
          EvaluateFails
  <2> QED
    BY <2>1, <2>7
    DEF Next, vars, requests, Execute, BeginExecute, CheckDelegation, CheckTask, ConsumeGrant,
        CallAdapter, AuditExecution, ExecuteEnds, CreateApproval, Revoke,
        AuditRevocation, Tick, OtherWriter
<1>3. \A g \in Grants : eval'[g].approval \in Approvals \cup {NoApproval}
  BY DEF TypeOK, Eval
<1> QED BY <1>1, <1>2, <1>3 DEF TypeInv, ChosenExists

LEMMA NextType == TypeInv /\ [Next]_vars => TypeInv'
<1> SUFFICES ASSUME TypeInv, [Next]_vars PROVE TypeInv' OBVIOUS
<1>1. CASE UNCHANGED vars
  <2>1. TypeOK' BY <1>1 DEF vars, requests, outside, TypeInv, TypeOK
  <2> QED BY <2>1, ChosenStays DEF TypeInv
<1>2. CASE Next
  <2>1. TypeOK' BY <1>2, EvaluateType, ExecuteType, OthersType DEF Next, TypeInv
  <2> QED BY <2>1, ChosenStays DEF TypeInv
<1> QED BY <1>1, <1>2

(* The documents, requests and tokens always have their types.             *)
THEOREM TypeCorrect == Spec => []TypeOK
<1>1. TypeInv => TypeOK BY DEF TypeInv
<1> QED BY InitType, NextType, <1>1, PTL DEF Spec

---------------------------------------------------------------------------
(* The single use of a grant. *)

Issued(g) == [type |-> "grant.issued", grant |-> g]
Completed(g) == [type |-> "tool.execution.completed", grant |-> g]

(* A grant is stored, audited and handed out in the order of its request's *)
(* steps, and only a grant that was handed out is consumed.                *)
GrantOK(g) ==
  LET pc == eval[g].pc IN
  /\ pc \notin {"bind", "audit", "withdraw", "return", "done"} => grants[g].status = "none"
  /\ pc \in {"bind", "audit", "withdraw", "return"} => grants[g].status = "issued"
  /\ pc = "return" => Issued(g) \in audit
  /\ g \in tokens =>
       /\ pc = "done" /\ Issued(g) \in audit
       /\ grants[g].status \in {"issued", "consumed"}
  /\ grants[g].status = "consumed" =>
       /\ g \in tokens
       /\ grants[g].consumedAt < grants[g].expires
       /\ grants[g].consumedAt < DelegationExpires
  /\ effects[g] # <<>> => grants[g].status = "consumed" /\ Len(effects[g]) = 1
  /\ Completed(g) \in audit => effects[g] # <<>>

(* A request that began late is stopped by its first or its second read.   *)
LateOK(r) ==
  /\ r.late /\ r.pc = "delegation" => Ended
  /\ r.late /\ r.pc = "task" => task \in Terminal

EvalLateOK(g) ==
  /\ LateOK(eval[g])
  /\ eval[g].pc \in {"approvals", "issue", "bind", "audit", "withdraw", "return"} =>
       ~eval[g].late
  /\ g \in tokens => ~eval[g].late

ExecOK(x) ==
  LET g == exec[x].grant IN
  /\ exec[x].pc # "idle" => g \in tokens
  /\ exec[x].pc \in {"task", "consume", "adapter", "audit"} =>
       exec[x].now < DelegationExpires
  /\ exec[x].pc = "adapter" => grants[g].status = "consumed" /\ effects[g] = <<>>
  /\ exec[x].pc = "audit" => effects[g] # <<>>
  /\ LateOK(exec[x])
  /\ exec[x].pc \in {"consume", "adapter", "audit"} => ~exec[x].late

(* At most one execution is between the consumption and the effect.        *)
OneCaller ==
  \A x, y \in Executions :
    /\ exec[x].pc = "adapter" /\ exec[y].pc = "adapter"
    /\ exec[x].grant = exec[y].grant
    => x = y

GrantInv ==
  /\ TypeInv
  /\ \A g \in Grants : GrantOK(g) /\ EvalLateOK(g)
  /\ \A x \in Executions : ExecOK(x)
  /\ OneCaller

LEMMA InitGrant == Init => GrantInv
<1> SUFFICES ASSUME Init PROVE GrantInv OBVIOUS
<1>1. \A g \in Grants : GrantOK(g) /\ EvalLateOK(g)
  BY DEF Init, GrantOK, EvalLateOK, LateOK, NoGrantRecord
<1>2. \A x \in Executions : ExecOK(x) /\ exec[x].pc = "idle"
  BY DEF Init, ExecOK, LateOK, IdleExec
<1> QED BY <1>1, <1>2, InitType DEF GrantInv, OneCaller

(* A revocation is never undone, and a terminal state is never left.       *)
Ending == (Ended => Ended') /\ (task \in Terminal => task' \in Terminal)

LEMMA EndIsFinal ==
  ASSUME TypeOK, [Next]_vars
  PROVE  Ending
<1>1. ASSUME NEW event, MoveTask(event) PROVE task \notin Terminal
  BY <1>1 DEF MoveTask, Transition, VALID_TRANSITIONS, Terminal
<1>2. \A event : MoveTask(event) => task \notin Terminal BY <1>1
<1> HIDE DEF MoveTask
<1>3. (task' = task \/ \E event : MoveTask(event)) /\ (delegation = "revoked" => delegation' = "revoked")
  <2>1. CASE UNCHANGED vars BY <2>1 DEF vars
  <2>2. ASSUME NEW g \in Grants, Evaluate(g)
        PROVE  (task' = task \/ \E event : MoveTask(event)) /\ delegation' = delegation
    BY <2>2 DEF Evaluate, BeginEvaluate, ReadDelegation, ReadTask, ReadApprovals, Deny,
        QuarantineTask, AuditQuarantine, PutGrant, BindApproval, AuditIssue,
        AuditIssueFails, WithdrawGrant, ReturnToken, EvaluateFails
  <2>3. ASSUME NEW x \in Executions, Execute(x)
        PROVE  task' = task /\ delegation' = delegation
    BY <2>3 DEF Execute, BeginExecute, CheckDelegation, CheckTask, ConsumeGrant,
        CallAdapter, AuditExecution, ExecuteEnds
  <2>4. ASSUME NEW a \in Approvals, CreateApproval(a)
        PROVE  task' = task /\ delegation' = delegation
    BY <2>4 DEF CreateApproval
  <2> QED
    BY <2>1, <2>2, <2>3, <2>4 DEF Next, Revoke, AuditRevocation, Tick, OtherWriter
<1> QED BY <1>2, <1>3 DEF Ending, Ended


(* What leaves a grant, a request or an execution alone keeps its part of  *)
(* the invariant.                                                          *)
LEMMA GrantStays ==
  ASSUME NEW g \in Grants, GrantOK(g), eval'[g].pc = eval[g].pc,
         grants'[g] = grants[g], g \in tokens' <=> g \in tokens,
         effects'[g] = effects[g], Issued(g) \in audit => Issued(g) \in audit',
         Completed(g) \in audit' => Completed(g) \in audit
  PROVE  GrantOK(g)'
  BY DEF GrantOK, Issued, Completed

LEMMA LateStays ==
  ASSUME NEW g \in Grants, EvalLateOK(g), Ending, eval'[g] = eval[g],
         g \in tokens' <=> g \in tokens
  PROVE  EvalLateOK(g)'
  BY DEF EvalLateOK, LateOK, Ending

LEMMA ExecStays ==
  ASSUME NEW x \in Executions, ExecOK(x), Ending, exec'[x] = exec[x],
         tokens \subseteq tokens',
         exec[x].pc = "adapter" => /\ grants'[exec[x].grant].status = "consumed"
                                   /\ effects'[exec[x].grant] = <<>>,
         exec[x].pc = "audit" => effects'[exec[x].grant] # <<>>
  PROVE  ExecOK(x)'
  BY DEF ExecOK, LateOK, Ending

(* The requests are apart: a step of one leaves the grants of the others   *)
(* and every execution as they are.                                        *)
EvaluateFrame(g) ==
  /\ UNCHANGED <<exec, effects, delegation, clock>>
  /\ \A h \in Grants \ {g} :
       eval'[h] = eval[h] /\ grants'[h] = grants[h] /\ (h \in tokens' <=> h \in tokens)
  /\ tokens \subseteq tokens' /\ audit \subseteq audit'
  /\ \A h \in Grants : Completed(h) \in audit' => Completed(h) \in audit

LEMMA EvaluateApart ==
  ASSUME TypeOK, NEW g \in Grants, Evaluate(g)
  PROVE  EvaluateFrame(g)
<1>1. UNCHANGED <<exec, effects, delegation, clock>>
  BY DEF Evaluate, BeginEvaluate, ReadDelegation, ReadTask, ReadApprovals, Deny,
      QuarantineTask, AuditQuarantine, PutGrant, BindApproval, AuditIssue,
      AuditIssueFails, WithdrawGrant, ReturnToken, EvaluateFails, requests, outside
<1>2. \A h \in Grants \ {g} : eval'[h] = eval[h]
  BY DEF Evaluate, BeginEvaluate, ReadDelegation, ReadTask, ReadApprovals, Deny,
      QuarantineTask, AuditQuarantine, PutGrant, BindApproval, AuditIssue,
      AuditIssueFails, WithdrawGrant, ReturnToken, EvaluateFails, Continue, TypeOK
<1>3. \A h \in Grants \ {g} : grants'[h] = grants[h]
  BY DEF Evaluate, BeginEvaluate, ReadDelegation, ReadTask, ReadApprovals, Deny,
      QuarantineTask, AuditQuarantine, PutGrant, BindApproval, AuditIssue,
      AuditIssueFails, WithdrawGrant, ReturnToken, EvaluateFails, TypeOK
<1>4. tokens' \in {tokens, tokens \cup {g}}
  BY DEF Evaluate, BeginEvaluate, ReadDelegation, ReadTask, ReadApprovals, Deny,
      QuarantineTask, AuditQuarantine, PutGrant, BindApproval, AuditIssue,
      AuditIssueFails, WithdrawGrant, ReturnToken, EvaluateFails, outside
<1>5. \/ audit' = audit
      \/ \E t \in {"policy.denied", "task.quarantined", "grant.issued"} :
           audit' = audit \cup {[type |-> t, grant |-> g]}
  BY DEF Evaluate, BeginEvaluate, ReadDelegation, ReadTask, ReadApprovals, Deny,
      QuarantineTask, AuditQuarantine, PutGrant, BindApproval, AuditIssue,
      AuditIssueFails, WithdrawGrant, ReturnToken, EvaluateFails
<1>6. \A h \in Grants : Completed(h) \in audit' => Completed(h) \in audit
  BY <1>5 DEF Completed
<1> QED BY <1>1, <1>2, <1>3, <1>4, <1>5, <1>6 DEF EvaluateFrame


(* Only a request that is still running steps, so its grant is not with    *)
(* the agent yet, and nothing has been done under it.                      *)
LEMMA EvaluatePending ==
  ASSUME GrantInv, NEW g \in Grants, Evaluate(g)
  PROVE  /\ g \notin tokens /\ grants[g].status # "consumed"
         /\ effects[g] = <<>> /\ Completed(g) \notin audit
<1>1. eval[g].pc # "done"
  <2>1. ~Denied(g) \/ eval[g].pc \in {"delegation", "approvals", "task", "issue"}
    BY DEF Denied
  <2> QED
    BY <2>1 DEF Evaluate, BeginEvaluate, ReadDelegation, ReadTask, ReadApprovals, Deny,
        QuarantineTask, AuditQuarantine, PutGrant, BindApproval, AuditIssue,
        AuditIssueFails, WithdrawGrant, ReturnToken, EvaluateFails, Continue, Evaluating
<1> QED BY <1>1 DEF GrantInv, GrantOK

LEMMA ContinueStep ==
  ASSUME TypeOK, NEW g \in Grants, NEW from, NEW to, Continue(g, from, to)
  PROVE  eval[g].pc = from /\ eval'[g].pc = to /\ eval'[g].late = eval[g].late
  BY DEF TypeOK, Continue, Eval

LEMMA EvaluateOwn ==
  ASSUME GrantInv, NEW g \in Grants, Evaluate(g), Ending
  PROVE  GrantOK(g)' /\ EvalLateOK(g)'
<1> DEFINE pc == eval[g].pc
           status == grants[g].status
<1>1. /\ g \notin tokens /\ effects'[g] = <<>> /\ status # "consumed"
      /\ Completed(g) \notin audit'
  BY EvaluatePending, EvaluateApart DEF EvaluateFrame, GrantInv, TypeInv
<1>2. GrantOK(g) /\ EvalLateOK(g) /\ TypeOK BY DEF GrantInv, TypeInv
<1>3. ASSUME g \notin tokens', status' # "consumed",
             pc' \notin {"bind", "audit", "withdraw", "return", "done"} => status' = "none",
             pc' \in {"bind", "audit", "withdraw", "return"} => status' = "issued",
             pc' = "return" => Issued(g) \in audit'
      PROVE  GrantOK(g)'
  BY <1>1, <1>3 DEF GrantOK
<1>4. ASSUME eval'[g].late = eval[g].late, g \notin tokens',
             pc' \notin {"delegation", "task"},
             pc' \in {"approvals", "issue", "bind", "audit", "withdraw", "return"} =>
               ~eval[g].late
      PROVE  EvalLateOK(g)'
  BY <1>4 DEF EvalLateOK, LateOK
<1> USE DEF outside
<1> HIDE DEF pc, status
<1>5. CASE BeginEvaluate(g)
  <2>1. eval'[g].pc = "delegation" /\ eval'[g].late = Ended /\ eval[g].pc = "idle"
    BY <1>2, <1>5 DEF BeginEvaluate, TypeOK
  <2>2. GrantOK(g)' BY <1>1, <1>2, <1>3, <1>5, <2>1 DEF BeginEvaluate, GrantOK, pc, status
  <2>3. EvalLateOK(g)'
    BY <1>1, <1>5, <2>1 DEF BeginEvaluate, EvalLateOK, LateOK, Ending
  <2> QED BY <2>2, <2>3
<1>6. CASE ReadDelegation(g)
  <2>1. eval[g].pc = "delegation" /\ eval'[g].pc = "task" /\ eval'[g].late = eval[g].late
    BY <1>2, <1>6, ContinueStep DEF ReadDelegation
  <2>2. GrantOK(g)' BY <1>1, <1>2, <1>3, <1>6, <2>1 DEF ReadDelegation, GrantOK, pc, status
  <2>3. eval[g].late => task' \in Terminal
    BY <1>2, <1>6, <2>1 DEF ReadDelegation, DelegationUsable, EvalLateOK, LateOK, Ended
  <2>4. EvalLateOK(g)' BY <1>1, <1>6, <2>1, <2>3 DEF ReadDelegation, EvalLateOK, LateOK
  <2> QED BY <2>2, <2>4
<1>7. CASE ReadTask(g)
  <2>1. /\ eval[g].pc = "task" /\ eval'[g].pc \in {"approvals", "issue"}
        /\ eval'[g].late = eval[g].late
    BY <1>2, <1>7, ContinueStep DEF ReadTask
  <2>2. GrantOK(g)' BY <1>1, <1>2, <1>3, <1>7, <2>1 DEF ReadTask, GrantOK, pc, status
  <2>3. ~eval[g].late BY <1>2, <1>7, <2>1 DEF ReadTask, Live, EvalLateOK, LateOK
  <2> QED BY <1>1, <1>4, <1>7, <2>1, <2>2, <2>3 DEF ReadTask, pc
<1>8. CASE ReadApprovals(g)
  <2>1. /\ eval[g].pc = "approvals" /\ eval'[g].pc = "issue"
        /\ eval'[g].late = eval[g].late
    BY <1>2, <1>8 DEF ReadApprovals, TypeOK
  <2>2. GrantOK(g)' BY <1>1, <1>2, <1>3, <1>8, <2>1 DEF ReadApprovals, GrantOK, pc, status
  <2>3. ~eval[g].late BY <1>2, <2>1 DEF EvalLateOK
  <2> QED BY <1>1, <1>4, <1>8, <2>1, <2>2, <2>3 DEF ReadApprovals, pc
<1>9. CASE Deny(g)
  <2>1. PICK to \in {"quarantine", "done"} : eval' = [eval EXCEPT ![g].pc = to]
    BY <1>9 DEF Deny
  <2>2. eval'[g].pc = to /\ eval'[g].late = eval[g].late
    BY <1>2, <2>1 DEF TypeOK, Eval
  <2>3. eval[g].pc \in {"delegation", "approvals", "task", "issue"}
    BY <1>9 DEF Deny, Denied
  <2>4. GrantOK(g)' BY <1>1, <1>2, <1>3, <1>9, <2>2, <2>3 DEF Deny, GrantOK, pc, status
  <2> QED BY <1>1, <1>4, <1>9, <2>2, <2>4 DEF Deny, pc
<1>10. CASE QuarantineTask(g)
  <2>1. /\ eval[g].pc = "quarantine" /\ eval'[g].pc \in {"record", "done"}
        /\ eval'[g].late = eval[g].late
    BY <1>2, <1>10, ContinueStep DEF QuarantineTask
  <2>2. GrantOK(g)' BY <1>1, <1>2, <1>3, <1>10, <2>1 DEF QuarantineTask, GrantOK, pc, status
  <2> QED BY <1>1, <1>4, <1>10, <2>1, <2>2 DEF QuarantineTask, pc
<1>11. CASE AuditQuarantine(g)
  <2>1. eval[g].pc = "record" /\ eval'[g].pc = "done" /\ eval'[g].late = eval[g].late
    BY <1>2, <1>11, ContinueStep DEF AuditQuarantine
  <2>2. GrantOK(g)' BY <1>1, <1>2, <1>3, <1>11, <2>1 DEF AuditQuarantine, GrantOK, pc, status
  <2> QED BY <1>1, <1>4, <1>11, <2>1, <2>2 DEF AuditQuarantine, pc
<1>12. CASE PutGrant(g)
  <2>1. /\ eval[g].pc = "issue" /\ eval'[g].pc \in {"audit", "bind"}
        /\ eval'[g].late = eval[g].late
    BY <1>2, <1>12, ContinueStep DEF PutGrant
  <2>2. grants'[g].status = "issued" BY <1>2, <1>12 DEF PutGrant, NoGrantRecord, TypeOK
  <2>3. GrantOK(g)' BY <1>1, <1>3, <1>12, <2>1, <2>2 DEF PutGrant, pc, status
  <2>4. ~eval[g].late BY <1>2, <2>1 DEF EvalLateOK
  <2> QED BY <1>1, <1>4, <1>12, <2>1, <2>3, <2>4 DEF PutGrant, pc
<1>13. CASE BindApproval(g)
  <2>1. eval[g].pc = "bind" /\ eval'[g].pc = "audit" /\ eval'[g].late = eval[g].late
    BY <1>2, <1>13, ContinueStep DEF BindApproval
  <2>2. GrantOK(g)' BY <1>1, <1>2, <1>3, <1>13, <2>1 DEF BindApproval, GrantOK, pc, status
  <2>3. ~eval[g].late BY <1>2, <2>1 DEF EvalLateOK
  <2> QED BY <1>1, <1>4, <1>13, <2>1, <2>2, <2>3 DEF BindApproval, pc
<1>14. CASE AuditIssue(g)
  <2>1. eval[g].pc = "audit" /\ eval'[g].pc = "return" /\ eval'[g].late = eval[g].late
    BY <1>2, <1>14, ContinueStep DEF AuditIssue
  <2>2. Issued(g) \in audit' BY <1>14 DEF AuditIssue, Issued
  <2>3. GrantOK(g)' BY <1>1, <1>2, <1>3, <1>14, <2>1, <2>2 DEF AuditIssue, GrantOK, pc, status
  <2>4. ~eval[g].late BY <1>2, <2>1 DEF EvalLateOK
  <2> QED BY <1>1, <1>4, <1>14, <2>1, <2>3, <2>4 DEF AuditIssue, pc
<1>15. CASE AuditIssueFails(g)
  <2>1. eval[g].pc = "audit" /\ eval'[g].pc = "withdraw" /\ eval'[g].late = eval[g].late
    BY <1>2, <1>15, ContinueStep DEF AuditIssueFails
  <2>2. GrantOK(g)' BY <1>1, <1>2, <1>3, <1>15, <2>1 DEF AuditIssueFails, GrantOK, pc, status
  <2>3. ~eval[g].late BY <1>2, <2>1 DEF EvalLateOK
  <2> QED BY <1>1, <1>4, <1>15, <2>1, <2>2, <2>3 DEF AuditIssueFails, pc
<1>16. CASE WithdrawGrant(g)
  <2>1. eval[g].pc = "withdraw" /\ eval'[g].pc = "done" /\ eval'[g].late = eval[g].late
    BY <1>2, <1>16, ContinueStep DEF WithdrawGrant
  <2>2. grants'[g].status = "expired" BY <1>2, <1>16 DEF WithdrawGrant, TypeOK, Grant
  <2>3. GrantOK(g)' BY <1>1, <1>3, <1>16, <2>1, <2>2 DEF WithdrawGrant, pc, status
  <2> QED BY <1>1, <1>4, <1>16, <2>1, <2>3 DEF WithdrawGrant, pc
<1>17. CASE ReturnToken(g)
  <2>1. eval[g].pc = "return" /\ eval'[g].pc = "done" /\ eval'[g].late = eval[g].late
    BY <1>2, <1>17, ContinueStep DEF ReturnToken
  <2>2. /\ grants'[g].status = "issued" /\ Issued(g) \in audit' /\ ~eval[g].late
    BY <1>2, <1>17, <2>1 DEF ReturnToken, GrantOK, EvalLateOK
  <2>3. GrantOK(g)' BY <1>1, <2>1, <2>2 DEF GrantOK
  <2> QED BY <2>1, <2>2, <2>3 DEF EvalLateOK, LateOK
<1>18. CASE EvaluateFails(g)
  <2>1. eval'[g].pc = "done" /\ eval'[g].late = eval[g].late
    BY <1>2, <1>18 DEF EvaluateFails, TypeOK, Eval
  <2>2. GrantOK(g)' BY <1>1, <1>3, <1>18, <2>1 DEF EvaluateFails, pc, status
  <2> QED BY <1>1, <1>4, <1>18, <2>1, <2>2 DEF EvaluateFails, pc
<1> QED
  BY <1>5, <1>6, <1>7, <1>8, <1>9, <1>10, <1>11, <1>12, <1>13, <1>14, <1>15, <1>16,
     <1>17, <1>18 DEF Evaluate


LEMMA EvaluateKeeps ==
  ASSUME GrantInv, NEW g \in Grants, Evaluate(g), Ending, TypeInv'
  PROVE  GrantInv'
<1>1. EvaluateFrame(g) BY EvaluateApart DEF GrantInv, TypeInv
<1>2. /\ g \notin tokens /\ effects[g] = <<>>
  BY EvaluatePending
<1>3. ASSUME NEW h \in Grants PROVE GrantOK(h)' /\ EvalLateOK(h)'
  <2>1. CASE h = g BY <2>1, EvaluateOwn
  <2>2. CASE h # g
    <3>1. GrantOK(h) /\ EvalLateOK(h) BY DEF GrantInv
    <3>2. /\ eval'[h] = eval[h] /\ grants'[h] = grants[h] /\ effects'[h] = effects[h]
          /\ h \in tokens' <=> h \in tokens
          /\ Issued(h) \in audit => Issued(h) \in audit'
          /\ Completed(h) \in audit' => Completed(h) \in audit
      BY <1>1, <2>2 DEF EvaluateFrame
    <3> QED BY <3>1, <3>2, GrantStays, LateStays
  <2> QED BY <2>1, <2>2
<1>4. ASSUME NEW x \in Executions PROVE ExecOK(x)'
  <2>1. ExecOK(x) BY DEF GrantInv
  <2>2. exec'[x] = exec[x] /\ tokens \subseteq tokens' /\ effects' = effects
    BY <1>1 DEF EvaluateFrame
  <2>3. exec[x].pc # "idle" => grants'[exec[x].grant] = grants[exec[x].grant]
    BY <1>1, <1>2, <2>1 DEF EvaluateFrame, ExecOK, GrantInv, TypeInv, TypeOK
  <2>4. /\ exec[x].pc = "adapter" => grants'[exec[x].grant].status = "consumed"
                                     /\ effects'[exec[x].grant] = <<>>
        /\ exec[x].pc = "audit" => effects'[exec[x].grant] # <<>>
    BY <2>1, <2>2, <2>3 DEF ExecOK
  <2> QED BY <2>1, <2>2, <2>4, ExecStays
<1>5. OneCaller' BY <1>1 DEF EvaluateFrame, OneCaller, GrantInv
<1> QED BY <1>3, <1>4, <1>5 DEF GrantInv

(* An execution touches the grant of its token only.                       *)
ExecuteFrame(x) ==
  /\ UNCHANGED <<eval, tokens, delegation, task, approvals>>
  /\ \A y \in Executions \ {x} : exec'[y] = exec[y]
  /\ \A h \in Grants \ {exec[x].grant} :
       grants'[h] = grants[h] /\ effects'[h] = effects[h]
  /\ audit \subseteq audit'
  /\ \A h \in Grants \ {exec[x].grant} : Completed(h) \in audit' => Completed(h) \in audit

LEMMA ExecuteApart ==
  ASSUME TypeOK, NEW x \in Executions, Execute(x)
  PROVE  ExecuteFrame(x)
<1>1. UNCHANGED <<eval, tokens, delegation, task, approvals>>
  BY DEF Execute, BeginExecute, CheckDelegation, CheckTask, ConsumeGrant, CallAdapter,
      AuditExecution, ExecuteEnds, outside
<1>2. \A y \in Executions \ {x} : exec'[y] = exec[y]
  BY DEF Execute, BeginExecute, CheckDelegation, CheckTask, ConsumeGrant, CallAdapter,
      AuditExecution, ExecuteEnds, Proceed, TypeOK
<1>3. \A h \in Grants \ {exec[x].grant} :
        grants'[h] = grants[h] /\ effects'[h] = effects[h]
  BY DEF Execute, BeginExecute, CheckDelegation, CheckTask, ConsumeGrant, CallAdapter,
      AuditExecution, ExecuteEnds, outside, TypeOK
<1>4. audit' = audit \/ audit' = audit \cup {Completed(exec[x].grant)}
  BY DEF Execute, BeginExecute, CheckDelegation, CheckTask, ConsumeGrant, CallAdapter,
      AuditExecution, ExecuteEnds, Completed
<1>5. \A h \in Grants \ {exec[x].grant} : Completed(h) \in audit' => Completed(h) \in audit
  BY <1>4 DEF Completed
<1> QED BY <1>1, <1>2, <1>3, <1>4, <1>5 DEF ExecuteFrame

LEMMA ProceedStep ==
  ASSUME TypeOK, NEW x \in Executions, NEW from, NEW to, Proceed(x, from, to)
  PROVE  /\ exec[x].pc = from /\ exec'[x].pc = to
         /\ exec'[x].grant = exec[x].grant /\ exec'[x].now = exec[x].now
         /\ exec'[x].late = exec[x].late
  BY DEF TypeOK, Proceed, Exec


LEMMA ExecuteKeeps ==
  ASSUME GrantInv, NEW x \in Executions, Execute(x), Ending, TypeInv'
  PROVE  GrantInv'
<1> DEFINE g == exec[x].grant
<1>1. ExecuteFrame(x) /\ TypeOK BY ExecuteApart DEF GrantInv, TypeInv
<1>2. /\ \A y \in Executions : ExecOK(y)
      /\ \A h \in Grants : GrantOK(h) /\ EvalLateOK(h)
      /\ OneCaller
  BY DEF GrantInv
<1>3. exec[x].pc # "idle" => g \in Grants /\ g \in tokens
  BY <1>1, <1>2 DEF ExecOK, TypeOK
<1>4. \A h \in Grants : EvalLateOK(h)'
  BY <1>1, <1>2, LateStays DEF ExecuteFrame
<1> USE DEF outside
(* A step that changes neither documents nor audit nor effects.            *)
<1>5. ASSUME UNCHANGED <<grants, effects, audit>>, ExecOK(x)', exec'[x].pc # "adapter"
      PROVE  GrantInv'
  <2>1. ASSUME NEW h \in Grants PROVE GrantOK(h)'
    BY <1>1, <1>2, <1>5, GrantStays DEF ExecuteFrame
  <2>2. ASSUME NEW y \in Executions PROVE ExecOK(y)'
    <3>1. CASE y = x BY <1>5, <3>1
    <3>2. CASE y # x
      <4>1. exec'[y] = exec[y] /\ tokens' = tokens BY <1>1, <3>2 DEF ExecuteFrame
      <4>2. /\ exec[y].pc = "adapter" => grants'[exec[y].grant].status = "consumed"
                                         /\ effects'[exec[y].grant] = <<>>
            /\ exec[y].pc = "audit" => effects'[exec[y].grant] # <<>>
        BY <1>2, <1>5 DEF ExecOK
      <4> QED BY <1>2, <4>1, <4>2, ExecStays
    <3> QED BY <3>1, <3>2
  <2>3. OneCaller' BY <1>1, <1>2, <1>5 DEF OneCaller, ExecuteFrame
  <2> QED BY <1>4, <2>1, <2>2, <2>3 DEF GrantInv
<1>6. CASE BeginExecute(x)
  <2>1. /\ exec'[x].pc = "delegation" /\ exec'[x].grant \in tokens'
        /\ exec'[x].late = Ended
    BY <1>1, <1>6 DEF BeginExecute, TypeOK
  <2>2. ExecOK(x)' BY <2>1 DEF ExecOK, LateOK, Ending
  <2> QED BY <1>5, <1>6, <2>1, <2>2 DEF BeginExecute
<1>7. CASE CheckDelegation(x)
  <2>1. /\ exec[x].pc = "delegation" /\ exec'[x].pc = "task" /\ exec'[x].grant = g
        /\ exec'[x].now = exec[x].now /\ exec'[x].late = exec[x].late
    BY <1>1, <1>7, ProceedStep DEF CheckDelegation
  <2>2. g \in tokens' BY <1>3, <1>7, <2>1 DEF CheckDelegation
  <2>3. exec[x].late => task' \in Terminal
    BY <1>2, <1>7, <2>1 DEF CheckDelegation, DelegationUsable, ExecOK, LateOK, Ended
  <2>4. exec[x].now < DelegationExpires
    BY <1>1, <1>7, TimesAssumption DEF CheckDelegation, DelegationUsable, TypeOK, Exec, Time
  <2>5. ExecOK(x)' BY <2>1, <2>2, <2>3, <2>4 DEF ExecOK, LateOK
  <2> QED BY <1>5, <1>7, <2>1, <2>5 DEF CheckDelegation
<1>8. CASE CheckTask(x)
  <2>1. /\ exec[x].pc = "task" /\ exec'[x].pc = "consume" /\ exec'[x].grant = g
        /\ exec'[x].now = exec[x].now /\ exec'[x].late = exec[x].late
    BY <1>1, <1>8, ProceedStep DEF CheckTask
  <2>2. g \in tokens' BY <1>3, <1>8, <2>1 DEF CheckTask
  <2>3. ~exec[x].late BY <1>2, <1>8, <2>1 DEF CheckTask, Live, ExecOK, LateOK
  <2>4. exec[x].now < DelegationExpires BY <1>2, <2>1 DEF ExecOK
  <2>5. ExecOK(x)' BY <2>1, <2>2, <2>3, <2>4 DEF ExecOK, LateOK
  <2> QED BY <1>5, <1>8, <2>1, <2>5 DEF CheckTask
<1>9. CASE ConsumeGrant(x)
  <2>1. /\ exec[x].pc = "consume" /\ exec'[x].pc = "adapter" /\ exec'[x].grant = g
        /\ exec'[x].now = exec[x].now /\ exec'[x].late = exec[x].late
    BY <1>1, <1>9, ProceedStep DEF ConsumeGrant
  <2>2. g \in Grants /\ g \in tokens BY <1>3, <2>1
  <2>3. grants[g].status = "issued" /\ grants[g].expires > exec[x].now
    BY <1>9 DEF ConsumeGrant, Consumable
  <2>4. effects[g] = <<>> /\ exec[x].now < DelegationExpires /\ ~exec[x].late
    BY <1>2, <2>1, <2>2, <2>3 DEF GrantOK, ExecOK
  <2>5. /\ grants'[g].status = "consumed" /\ grants'[g].consumedAt = exec[x].now
        /\ grants'[g].expires = grants[g].expires
    <3> DEFINE r == grants[g]
    <3>1. grants'[g] = [r EXCEPT !.status = "consumed", !.consumedAt = exec[x].now]
      BY <1>1, <1>9, <2>2 DEF ConsumeGrant, TypeOK
    <3>2. r \in Grant BY <1>1, <2>2 DEF TypeOK
    <3> HIDE DEF r
    <3>3. grants'[g].status = "consumed" /\ grants'[g].consumedAt = exec[x].now
          /\ grants'[g].expires = r.expires
      BY <3>1, <3>2 DEF Grant
    <3> QED BY <3>3 DEF r
  <2>6. exec[x].now < grants[g].expires
    BY <1>1, <2>2, <2>3, TimesAssumption DEF TypeOK, Exec, Grant, Time
  <2>7. UNCHANGED <<effects, tokens, audit, eval>> BY <1>9 DEF ConsumeGrant
  <2>8. ASSUME NEW h \in Grants PROVE GrantOK(h)'
    <3>1. CASE h = g
      BY <1>2, <2>2, <2>4, <2>5, <2>6, <2>7, <3>1 DEF GrantOK, Issued, Completed
    <3>2. CASE h # g BY <1>1, <1>2, <2>7, <3>2, GrantStays DEF ExecuteFrame
    <3> QED BY <3>1, <3>2
  <2>9. ASSUME NEW y \in Executions, y # x
        PROVE  ExecOK(y)' /\ ~(exec'[y].pc = "adapter" /\ exec'[y].grant = g)
    <3>1. exec'[y] = exec[y] BY <1>1, <2>9 DEF ExecuteFrame
    <3>2. ~(exec[y].pc = "adapter" /\ exec[y].grant = g) BY <1>2, <2>3 DEF ExecOK
    <3>3. exec[y].pc = "adapter" => exec[y].grant \in Grants \ {g}
      BY <1>1, <1>2, <3>2 DEF ExecOK, TypeOK
    <3>4. exec[y].pc = "adapter" => grants'[exec[y].grant] = grants[exec[y].grant]
      BY <1>1, <3>3 DEF ExecuteFrame
    <3>5. /\ exec[y].pc = "adapter" => grants'[exec[y].grant].status = "consumed"
                                       /\ effects'[exec[y].grant] = <<>>
          /\ exec[y].pc = "audit" => effects'[exec[y].grant] # <<>>
      BY <1>2, <2>7, <3>4 DEF ExecOK
    <3> QED BY <1>2, <2>7, <3>1, <3>2, <3>5, ExecStays
  <2>10. ExecOK(x)' BY <2>1, <2>2, <2>4, <2>5, <2>7 DEF ExecOK, LateOK
  <2>11. OneCaller' BY <1>1, <1>2, <2>1, <2>9 DEF OneCaller, ExecuteFrame
  <2> QED BY <1>4, <2>8, <2>9, <2>10, <2>11 DEF GrantInv
<1>10. CASE CallAdapter(x)
  <2>1. /\ exec[x].pc = "adapter" /\ exec'[x].pc = "audit" /\ exec'[x].grant = g
        /\ exec'[x].now = exec[x].now /\ exec'[x].late = exec[x].late
    BY <1>1, <1>10, ProceedStep DEF CallAdapter
  <2>2. g \in Grants /\ g \in tokens BY <1>3, <2>1
  <2>3. grants[g].status = "consumed" /\ effects[g] = <<>> BY <1>2, <2>1 DEF ExecOK
  <2>4. effects'[g] = <<exec[x].args>>
    <3>1. effects'[g] = Append(effects[g], exec[x].args)
      BY <1>1, <1>10, <2>2 DEF CallAdapter, TypeOK
    <3> QED BY <2>3, <3>1
  <2>5. effects'[g] # <<>> /\ Len(effects'[g]) = 1 BY <2>4
  <2>6. UNCHANGED <<grants, tokens, audit, eval>> BY <1>10 DEF CallAdapter
  <2>7. ASSUME NEW h \in Grants PROVE GrantOK(h)'
    <3>1. CASE h = g BY <1>2, <2>3, <2>5, <2>6, <3>1 DEF GrantOK, Issued, Completed
    <3>2. CASE h # g BY <1>1, <1>2, <2>6, <3>2, GrantStays DEF ExecuteFrame
    <3> QED BY <3>1, <3>2
  <2>8. ASSUME NEW y \in Executions, y # x PROVE ExecOK(y)'
    <3>1. exec'[y] = exec[y] BY <1>1, <2>8 DEF ExecuteFrame
    <3>2. exec[y].pc = "adapter" => exec[y].grant \in Grants \ {g}
      BY <1>1, <1>2, <2>1, <2>8 DEF OneCaller, ExecOK, TypeOK
    <3>3. exec[y].pc = "audit" => exec[y].grant \in Grants BY <1>1, <1>2 DEF ExecOK, TypeOK
    <3>4. /\ exec[y].pc = "adapter" => grants'[exec[y].grant].status = "consumed"
                                       /\ effects'[exec[y].grant] = <<>>
          /\ exec[y].pc = "audit" => effects'[exec[y].grant] # <<>>
      BY <1>1, <1>2, <2>5, <2>6, <3>2, <3>3 DEF ExecOK, ExecuteFrame
    <3> QED BY <1>2, <2>6, <3>1, <3>4, ExecStays
  <2>9. ExecOK(x)'
    BY <1>2, <2>1, <2>2, <2>5, <2>6 DEF ExecOK, LateOK
  <2>10. OneCaller' BY <1>1, <1>2, <2>1 DEF OneCaller, ExecuteFrame
  <2> QED BY <1>4, <2>7, <2>8, <2>9, <2>10 DEF GrantInv
<1>11. ASSUME exec'[x] = IdleExec PROVE ExecOK(x)' /\ exec'[x].pc # "adapter"
  BY <1>11 DEF ExecOK, LateOK, IdleExec
<1>12. CASE AuditExecution(x)
  <2>1. exec'[x] = IdleExec BY <1>1, <1>12 DEF AuditExecution, TypeOK
  <2>2. effects[g] # <<>> BY <1>2, <1>12 DEF AuditExecution, ExecOK
  <2>3. UNCHANGED <<grants, effects, tokens, eval>> BY <1>12 DEF AuditExecution
  <2>4. ASSUME NEW h \in Grants PROVE GrantOK(h)'
    <3>1. CASE h = g BY <1>1, <1>2, <2>2, <2>3, <3>1 DEF GrantOK, ExecuteFrame
    <3>2. CASE h # g BY <1>1, <1>2, <2>3, <3>2, GrantStays DEF ExecuteFrame
    <3> QED BY <3>1, <3>2
  <2>5. ASSUME NEW y \in Executions, y # x PROVE ExecOK(y)'
    <3>1. exec'[y] = exec[y] BY <1>1, <2>5 DEF ExecuteFrame
    <3> QED BY <1>2, <2>3, <3>1, ExecStays DEF ExecOK
  <2>6. OneCaller' BY <1>1, <1>2, <1>11, <2>1 DEF OneCaller, ExecuteFrame
  <2> QED BY <1>4, <1>11, <2>1, <2>4, <2>5, <2>6 DEF GrantInv
<1>13. CASE ExecuteEnds(x)
  <2>1. exec'[x] = IdleExec BY <1>1, <1>13 DEF ExecuteEnds, TypeOK
  <2> QED BY <1>5, <1>11, <1>13, <2>1 DEF ExecuteEnds
<1> QED
  BY <1>6, <1>7, <1>8, <1>9, <1>10, <1>12, <1>13 DEF Execute


LEMMA OthersKeep ==
  ASSUME GrantInv, Ending, TypeInv',
         UNCHANGED <<eval, exec, grants, tokens, effects>>,
         audit' \in {audit, audit \cup {RevocationEvent}}
  PROVE  GrantInv'
<1>1. ASSUME NEW g \in Grants PROVE GrantOK(g)' /\ EvalLateOK(g)'
  <2>1. Completed(g) \in audit' => Completed(g) \in audit
    BY DEF Completed, RevocationEvent
  <2> QED BY <2>1, GrantStays, LateStays DEF GrantInv
<1>2. ASSUME NEW x \in Executions PROVE ExecOK(x)'
  <2>1. ExecOK(x) BY DEF GrantInv
  <2> QED BY <2>1, ExecStays DEF ExecOK
<1> QED BY <1>1, <1>2 DEF GrantInv, OneCaller

LEMMA NextGrant == GrantInv /\ [Next]_vars => GrantInv'
<1> SUFFICES ASSUME GrantInv, [Next]_vars PROVE GrantInv' OBVIOUS
<1>1. TypeInv' BY NextType DEF GrantInv
<1>2. Ending BY EndIsFinal DEF GrantInv, TypeInv
<1>3. ASSUME NEW g \in Grants, Evaluate(g) PROVE GrantInv'
  BY <1>1, <1>2, <1>3, EvaluateKeeps
<1>4. ASSUME NEW x \in Executions, Execute(x) PROVE GrantInv'
  BY <1>1, <1>2, <1>4, ExecuteKeeps
<1>5. ASSUME NEW a \in Approvals, CreateApproval(a) PROVE GrantInv'
  BY <1>1, <1>2, <1>5, OthersKeep DEF CreateApproval, requests, outside
<1>6. CASE Revoke BY <1>1, <1>2, <1>6, OthersKeep DEF Revoke, requests, outside
<1>7. CASE AuditRevocation
  BY <1>1, <1>2, <1>7, OthersKeep DEF AuditRevocation, requests, outside
<1>8. CASE Tick BY <1>1, <1>2, <1>8, OthersKeep DEF Tick, requests, outside
<1>9. CASE OtherWriter BY <1>1, <1>2, <1>9, OthersKeep DEF OtherWriter, requests, outside
<1>10. CASE UNCHANGED vars
  BY <1>1, <1>2, <1>10, OthersKeep DEF vars, requests, outside
<1> QED BY <1>3, <1>4, <1>5, <1>6, <1>7, <1>8, <1>9, <1>10 DEF Next

(* The invariant below the theorems that follow: grants, tokens, audit     *)
(* events, executions and effects fit together after every step.           *)
THEOREM SingleUse == Spec => []GrantInv
BY InitGrant, NextGrant, PTL DEF Spec

(* However many requests, crashes and presentations of a token there are,  *)
(* the adapter is called at most once under each grant.                    *)
THEOREM AtMostOnce == Spec => []EffectAtMostOnce
<1>1. GrantInv => EffectAtMostOnce
  <2> SUFFICES ASSUME GrantInv, NEW g \in Grants PROVE Len(effects[g]) <= 1
    BY DEF EffectAtMostOnce
  <2>1. effects[g] # <<>> => Len(effects[g]) = 1 BY DEF GrantInv, GrantOK
  <2>2. CASE effects[g] = <<>>
    <3>1. Len(effects[g]) = 0 BY <2>2
    <3> QED BY <3>1
  <2>3. CASE effects[g] # <<>>
    <3>1. Len(effects[g]) = 1 BY <2>1, <2>3
    <3> QED BY <3>1
  <2> QED BY <2>2, <2>3
<1> QED BY SingleUse, <1>1, PTL

(* A tool has run only under a consumed grant with an audited issuance,    *)
(* whose consumption came before both expiry times.                        *)
THEOREM Authorised == Spec => []EffectIsAuthorised
<1>1. GrantInv => EffectIsAuthorised
  BY DEF GrantInv, GrantOK, EffectIsAuthorised, Issued
<1> QED BY SingleUse, <1>1, PTL

(* A request that begins after the end gets no token and no effect.        *)
THEOREM EndIsEnforced == Spec => []NothingAfterEnd
<1>1. GrantInv => NothingAfterEnd
  BY DEF GrantInv, TypeInv, TypeOK, ExecOK, EvalLateOK, NothingAfterEnd
<1> QED BY SingleUse, <1>1, PTL

(* Every token that is handed out has its audit event, and every audited   *)
(* completion its effect.                                                  *)
THEOREM Truthful == Spec => []AuditTrailTruthful
<1>1. GrantInv => AuditTrailTruthful
  BY DEF GrantInv, TypeInv, TypeOK, GrantOK, AuditTrailTruthful, Issued, Completed
<1> QED BY SingleUse, <1>1, PTL


---------------------------------------------------------------------------
(* GrantLifecycle implements SingleUseGrant. *)

StatusOf == [g \in Grants |-> grants[g].status]
Performed == {g \in Grants : effects[g] # <<>>}

LEMMA StatusMoves ==
  ASSUME NEW g \in Grants, grants \in [Grants -> Grant], grants' \in [Grants -> Grant],
         \A h \in Grants \ {g} : grants'[h] = grants[h]
  PROVE  StatusOf' = [StatusOf EXCEPT ![g] = grants'[g].status]
  BY DEF StatusOf

(* A step that leaves grants, tokens and effects alone is a stuttering     *)
(* step of the abstract specification.                                     *)
LEMMA Simulation ==
  ASSUME GrantInv, GrantInv', [Next]_vars
  PROVE  [SUG!Next]_(SUG!vars)
<1> USE DEF outside, requests
<1>1. CASE UNCHANGED <<grants, tokens, effects>> BY <1>1 DEF SUG!vars
<1>2. ASSUME NEW g \in Grants,
             SUG!Issue(g) \/ SUG!Withdraw(g) \/ SUG!Consume(g) \/ SUG!HandOut(g)
             \/ SUG!Perform(g)
      PROVE  SUG!Next
  BY <1>2 DEF SUG!Next
<1>3. /\ grants \in [Grants -> Grant] /\ grants' \in [Grants -> Grant] /\ TypeOK
      /\ \A g \in Grants : GrantOK(g)
      /\ \A x \in Executions : ExecOK(x)
  BY DEF GrantInv, TypeInv, TypeOK
<1>4. ASSUME NEW g \in Grants, Evaluate(g) PROVE [SUG!Next]_(SUG!vars)
  <2>1. EvaluateFrame(g) BY <1>3, <1>4, EvaluateApart
  <2>2. StatusOf' = [StatusOf EXCEPT ![g] = grants'[g].status]
    BY <1>3, <2>1, StatusMoves DEF EvaluateFrame
  <2>3. g \notin tokens BY <1>4, EvaluatePending
  <2>4. Performed' = Performed BY <2>1 DEF EvaluateFrame, Performed
  <2>5. CASE PutGrant(g)
    <3>1. grants[g].status = "none"
      BY <1>3, <2>5, ContinueStep DEF PutGrant, GrantOK
    <3>2. grants'[g].status = "issued"
      BY <1>3, <2>5 DEF PutGrant, NoGrantRecord
    <3>3. tokens' = tokens BY <2>5 DEF PutGrant
    <3>4. SUG!Issue(g)
      BY <2>2, <2>4, <3>1, <3>2, <3>3
      DEF SUG!Issue, SUG!Move, StatusOf, Performed
    <3> QED BY <1>2, <3>4
  <2>6. CASE WithdrawGrant(g)
    <3>1. grants[g].status = "issued"
      BY <1>3, <2>6, ContinueStep DEF WithdrawGrant, GrantOK
    <3>2. grants'[g].status = "expired" BY <1>3, <2>6 DEF WithdrawGrant, Grant
    <3>3. tokens' = tokens BY <2>6 DEF WithdrawGrant
    <3>4. SUG!Withdraw(g)
      BY <2>2, <2>3, <2>4, <3>1, <3>2, <3>3
      DEF SUG!Withdraw, SUG!Move, StatusOf, Performed
    <3> QED BY <1>2, <3>4
  <2>7. CASE ReturnToken(g)
    <3>1. grants[g].status = "issued"
      BY <1>3, <2>7, ContinueStep DEF ReturnToken, GrantOK
    <3>2. tokens' = tokens \cup {g} /\ StatusOf' = StatusOf
      BY <2>7 DEF ReturnToken, StatusOf
    <3>3. SUG!HandOut(g)
      BY <2>3, <2>4, <3>1, <3>2 DEF SUG!HandOut, StatusOf, Performed
    <3> QED BY <1>2, <3>3
  <2> QED
    BY <1>1, <1>4, <2>5, <2>6, <2>7
    DEF Evaluate, BeginEvaluate, ReadDelegation, ReadTask, ReadApprovals, Deny,
        QuarantineTask, AuditQuarantine, BindApproval, AuditIssue, AuditIssueFails,
        EvaluateFails
<1>5. ASSUME NEW x \in Executions, Execute(x) PROVE [SUG!Next]_(SUG!vars)
  <2>0. PICK g \in Grants \cup {NoGrant} : g = exec[x].grant
    BY <1>3 DEF TypeOK, Exec
  <2>1. ExecuteFrame(x) BY <1>3, <1>5, ExecuteApart
  <2>2. exec[x].pc # "idle" => g \in Grants /\ g \in tokens
    BY <1>3, <2>0 DEF ExecOK, TypeOK
  <2>3. CASE ConsumeGrant(x)
    <3>1. g \in Grants /\ g \in tokens
      BY <1>3, <2>2, <2>3, ProceedStep DEF ConsumeGrant
    <3>2. StatusOf' = [StatusOf EXCEPT ![g] = grants'[g].status]
      BY <1>3, <2>0, <2>1, <3>1, StatusMoves DEF ExecuteFrame
    <3>3. grants[g].status = "issued" BY <2>0, <2>3 DEF ConsumeGrant, Consumable
    <3>4. grants'[g].status = "consumed"
      <4> DEFINE r == grants[g]
      <4>1. grants'[g] = [r EXCEPT !.status = "consumed", !.consumedAt = exec[x].now]
        BY <1>3, <2>0, <2>3, <3>1 DEF ConsumeGrant
      <4>2. r \in Grant BY <1>3, <3>1
      <4> HIDE DEF r
      <4> QED BY <4>1, <4>2 DEF Grant
    <3>5. UNCHANGED <<tokens, effects>> BY <2>3 DEF ConsumeGrant
    <3>6. SUG!Consume(g)
      BY <3>1, <3>2, <3>3, <3>4, <3>5
      DEF SUG!Consume, SUG!Move, StatusOf, Performed
    <3> QED BY <1>2, <3>1, <3>6
  <2>4. CASE CallAdapter(x)
    <3>1. exec[x].pc = "adapter" BY <1>3, <2>4, ProceedStep DEF CallAdapter
    <3>2. g \in Grants BY <2>2, <3>1
    <3>3. grants[g].status = "consumed" /\ effects[g] = <<>>
      BY <1>3, <2>0, <3>1 DEF ExecOK
    <3>4. effects'[g] # <<>>
      <4>1. effects'[g] = Append(effects[g], exec[x].args)
        BY <1>3, <2>0, <2>4, <3>2 DEF CallAdapter, TypeOK
      <4> QED BY <3>3, <4>1
    <3>5. Performed' = Performed \cup {g}
      BY <2>0, <2>1, <3>2, <3>4 DEF ExecuteFrame, Performed
    <3>6. UNCHANGED <<grants, tokens>> BY <2>4 DEF CallAdapter
    <3>7. SUG!Perform(g)
      BY <3>2, <3>3, <3>5, <3>6 DEF SUG!Perform, StatusOf, Performed
    <3> QED BY <1>2, <3>2, <3>7
  <2> QED
    BY <1>1, <1>5, <2>3, <2>4
    DEF Execute, BeginExecute, CheckDelegation, CheckTask, AuditExecution, ExecuteEnds
<1>6. ASSUME NEW a \in Approvals, CreateApproval(a) PROVE [SUG!Next]_(SUG!vars)
  BY <1>1, <1>6 DEF CreateApproval
<1>7. CASE Revoke \/ AuditRevocation \/ Tick \/ OtherWriter
  BY <1>1, <1>7 DEF Revoke, AuditRevocation, Tick, OtherWriter
<1>8. CASE UNCHANGED vars BY <1>1, <1>8 DEF vars
<1> QED BY <1>4, <1>5, <1>6, <1>7, <1>8 DEF Next

(* Whatever requests run against each other, every grant goes through the  *)
(* single-use life.                                                        *)
THEOREM SingleUseRefinement == Spec => RefinesSingleUseGrant
<1>1. Init => SUG!Init BY DEF Init, SUG!Init, NoGrantRecord
<1> QED BY SingleUse, <1>1, Simulation, PTL DEF Spec, SUG!Spec, RefinesSingleUseGrant


---------------------------------------------------------------------------
(* The approval behind an effect. *)

Chosen(a, g) ==
  /\ a \in Approvals /\ approvals[a] # NoApproval
  /\ IsValid(approvals[a], eval[g].now) /\ SodSatisfied(approvals[a])
  /\ Matches(approvals[a].subject, ArgumentsOf[g])

Bound(a) == approvals[a].usedBy # NoGrant

(* What phase G found stays true of the stored approval, and it is bound   *)
(* before the token leaves.                                                *)
ApprovalOK(g) ==
  LET pc == eval[g].pc
      a  == eval[g].approval
  IN
  /\ RequiresApproval[g] /\ pc \in {"issue", "bind", "audit", "withdraw", "return"} =>
       Chosen(a, g)
  /\ pc \in {"bind", "audit", "withdraw", "return"} => grants[g].approval = a
  /\ a # NoApproval /\ pc \in {"audit", "withdraw", "return"} => Bound(a)
  /\ RequiresApproval[g] /\ g \in tokens =>
       Chosen(grants[g].approval, g) /\ Bound(grants[g].approval)

CallOK(x) ==
  exec[x].pc \in {"consume", "adapter"} => Matches(Pinned(exec[x].grant), exec[x].args)

EffectOK(g) == effects[g] # <<>> => Matches(Pinned(g), effects[g][1])

ApprovalInv ==
  /\ GrantInv
  /\ \A g \in Grants : ApprovalOK(g) /\ EffectOK(g)
  /\ \A x \in Executions : CallOK(x)

LEMMA InitApproval == Init => ApprovalInv
<1> SUFFICES ASSUME Init PROVE ApprovalInv OBVIOUS
<1>1. \A g \in Grants : ApprovalOK(g) /\ EffectOK(g) BY DEF Init, ApprovalOK, EffectOK
<1>2. \A x \in Executions : CallOK(x) BY DEF Init, CallOK, IdleExec
<1> QED BY <1>1, <1>2, InitGrant DEF ApprovalInv

(* A stored approval changes in used_by_grant_id only, and only once that  *)
(* is set it stays set.                                                    *)
ApprovalKept(a) ==
  approvals[a] # NoApproval =>
    /\ approvals'[a] # NoApproval
    /\ approvals'[a].subject = approvals[a].subject
    /\ approvals'[a].decision = approvals[a].decision
    /\ approvals'[a].approver = approvals[a].approver
    /\ approvals'[a].expires = approvals[a].expires
    /\ Bound(a) => Bound(a)'

LEMMA ApprovalsKept ==
  ASSUME TypeInv, [Next]_vars
  PROVE  \A a \in Approvals : ApprovalKept(a)
<1> USE DEF requests, outside
<1>1. ASSUME UNCHANGED approvals PROVE \A a \in Approvals : ApprovalKept(a)
  BY <1>1 DEF ApprovalKept, Bound
<1>2. ASSUME NEW g \in Grants, BindApproval(g), NEW a \in Approvals,
             approvals[a] # NoApproval
      PROVE  ApprovalKept(a)
  <2> DEFINE r == approvals[a]
             s == [r EXCEPT !.usedBy = g]
  <2>1. r \in Approval BY <1>2 DEF TypeInv, TypeOK
  <2>2. approvals'[a] \in {r, s} BY <1>2 DEF BindApproval, TypeInv, TypeOK
  <2>3. g # NoGrant BY NoValueAssumption
  <2> HIDE DEF r
  <2>4. /\ s \in Approval /\ s.subject = r.subject /\ s.decision = r.decision
        /\ s.approver = r.approver /\ s.expires = r.expires /\ s.usedBy # NoGrant
    BY <2>1, <2>3 DEF Approval
  <2> HIDE DEF s
  <2>5. approvals'[a] # NoApproval BY <2>1, <2>2, <2>4, NoApprovalAssumption
  <2> QED BY <2>2, <2>4, <2>5 DEF ApprovalKept, Bound, r
<1>3. ASSUME NEW b \in Approvals, CreateApproval(b), NEW a \in Approvals,
             approvals[a] # NoApproval
      PROVE  ApprovalKept(a)
  BY <1>3 DEF CreateApproval, TypeInv, TypeOK, ApprovalKept, Bound
<1>4. \A a \in Approvals : approvals[a] = NoApproval => ApprovalKept(a)
  BY DEF ApprovalKept
<1>5. CASE UNCHANGED vars BY <1>1, <1>5 DEF vars
<1> QED
  BY <1>1, <1>2, <1>3, <1>4, <1>5
  DEF Next, Evaluate, BeginEvaluate, ReadDelegation, ReadTask, ReadApprovals, Deny,
      QuarantineTask, AuditQuarantine, PutGrant, AuditIssue, AuditIssueFails,
      WithdrawGrant, ReturnToken, EvaluateFails, Execute, BeginExecute,
      CheckDelegation, CheckTask, ConsumeGrant, CallAdapter, AuditExecution,
      ExecuteEnds, Revoke, AuditRevocation, Tick, OtherWriter

LEMMA ChosenKept ==
  ASSUME NEW a, NEW g \in Grants, \A b \in Approvals : ApprovalKept(b),
         eval'[g].now = eval[g].now, Chosen(a, g)
  PROVE  Chosen(a, g)' /\ (Bound(a) => Bound(a)')
  BY DEF ApprovalKept, Chosen, Bound, IsValid, SodSatisfied

LEMMA ApprovalStays ==
  ASSUME NEW g \in Grants, \A b \in Approvals : ApprovalKept(b), ApprovalOK(g),
         ChosenExists, TypeOK,
         eval'[g] = eval[g], grants'[g].approval = grants[g].approval,
         g \in tokens' <=> g \in tokens
  PROVE  ApprovalOK(g)'
<1>1. PICK a : a = eval[g].approval OBVIOUS
<1>2. PICK b : b = grants[g].approval OBVIOUS
<1>3. Chosen(a, g) => Chosen(a, g)' BY ChosenKept
<1>4. Chosen(b, g) /\ Bound(b) => Chosen(b, g)' /\ Bound(b)' BY ChosenKept
<1>5. a # NoApproval /\ Bound(a) => Bound(a)'
  BY <1>1 DEF ChosenExists, ApprovalKept, TypeOK, Eval
<1>6. eval'[g].approval = a /\ grants'[g].approval = b BY <1>1, <1>2
<1> QED BY <1>1, <1>2, <1>3, <1>4, <1>5, <1>6 DEF ApprovalOK


LEMMA ContinueKeeps ==
  ASSUME TypeOK, NEW g \in Grants, NEW from, NEW to, Continue(g, from, to)
  PROVE  /\ eval[g].pc = from /\ eval'[g].pc = to
         /\ eval'[g].now = eval[g].now /\ eval'[g].approval = eval[g].approval
  BY DEF TypeOK, Continue, Eval

LEMMA ApprovalOwn ==
  ASSUME ApprovalInv, NEW g \in Grants, Evaluate(g), \A b \in Approvals : ApprovalKept(b)
  PROVE  ApprovalOK(g)'
<1>1. g \notin tokens /\ ApprovalOK(g) /\ TypeOK /\ ChosenExists
  BY EvaluatePending DEF ApprovalInv, GrantInv, TypeInv
<1>2. PICK a : a = eval[g].approval OBVIOUS
<1>3. Chosen(a, g) /\ eval'[g].now = eval[g].now => Chosen(a, g)'
  BY ChosenKept
<1>4. a # NoApproval /\ Bound(a) => Bound(a)'
  BY <1>1, <1>2 DEF ChosenExists, ApprovalKept, TypeOK, Eval
<1>5. ASSUME g \notin tokens', eval'[g].pc \notin {"issue", "bind", "audit", "withdraw", "return"}
      PROVE  ApprovalOK(g)'
  BY <1>5 DEF ApprovalOK
(* A step that goes on with the same approval. *)
<1>6. ASSUME g \notin tokens', eval'[g].approval = a, eval'[g].now = eval[g].now,
             eval[g].pc \in {"issue", "bind", "audit", "withdraw", "return"},
             eval'[g].pc \in {"bind", "audit", "withdraw", "return"} =>
               grants'[g].approval = a,
             a # NoApproval /\ eval'[g].pc \in {"audit", "withdraw", "return"} => Bound(a)'
      PROVE  ApprovalOK(g)'
  BY <1>1, <1>2, <1>3, <1>6 DEF ApprovalOK
<1> USE DEF outside
<1>7. CASE BeginEvaluate(g)
  <2>1. eval'[g].pc = "delegation" BY <1>1, <1>7 DEF BeginEvaluate, TypeOK
  <2> QED BY <1>1, <1>5, <1>7, <2>1 DEF BeginEvaluate
<1>8. CASE ReadDelegation(g)
  BY <1>1, <1>5, <1>8, ContinueKeeps DEF ReadDelegation
<1>9. CASE ReadTask(g)
  <2>1. g \notin tokens' BY <1>1, <1>9 DEF ReadTask
  <2>2. eval'[g].pc = IF RequiresApproval[g] THEN "approvals" ELSE "issue"
    BY <1>1, <1>9, ContinueKeeps DEF ReadTask
  <2> QED BY <2>1, <2>2 DEF ApprovalOK
<1>10. CASE ReadApprovals(g)
  <2>1. PICK b \in Approvals :
          /\ Usable(b, g, eval[g].now)
          /\ eval' = [eval EXCEPT ![g].pc = "issue", ![g].approval = b]
    BY <1>10 DEF ReadApprovals
  <2>2. /\ eval'[g].pc = "issue" /\ eval'[g].approval = b /\ eval'[g].now = eval[g].now
    BY <1>1, <2>1 DEF TypeOK, Eval
  <2>3. Chosen(b, g) BY <2>1 DEF Usable, Candidate, Chosen
  <2>4. Chosen(b, g)' BY <2>2, <2>3, ChosenKept
  <2>5. g \notin tokens' BY <1>1, <1>10 DEF ReadApprovals
  <2> QED BY <2>2, <2>4, <2>5 DEF ApprovalOK
<1>11. CASE Deny(g)
  <2>1. PICK to \in {"quarantine", "done"} : eval' = [eval EXCEPT ![g].pc = to]
    BY <1>11 DEF Deny
  <2>2. eval'[g].pc = to BY <1>1, <2>1 DEF TypeOK, Eval
  <2> QED BY <1>1, <1>5, <1>11, <2>2 DEF Deny
<1>12. CASE QuarantineTask(g)
  BY <1>1, <1>5, <1>12, ContinueKeeps DEF QuarantineTask
<1>13. CASE AuditQuarantine(g)
  BY <1>1, <1>5, <1>13, ContinueKeeps DEF AuditQuarantine
<1>14. CASE PutGrant(g)
  <2>1. /\ eval[g].pc = "issue" /\ eval'[g].approval = a /\ eval'[g].now = eval[g].now
        /\ eval'[g].pc = IF a = NoApproval THEN "audit" ELSE "bind"
    BY <1>1, <1>2, <1>14, ContinueKeeps DEF PutGrant
  <2>2. grants'[g].approval = a
    BY <1>1, <1>2, <1>14 DEF PutGrant, NoGrantRecord, TypeOK
  <2>3. g \notin tokens' BY <1>1, <1>14 DEF PutGrant
  <2> QED BY <1>6, <2>1, <2>2, <2>3
<1>15. CASE BindApproval(g)
  <2>1. /\ eval[g].pc = "bind" /\ eval'[g].approval = a /\ eval'[g].now = eval[g].now
        /\ eval'[g].pc = "audit"
    BY <1>1, <1>2, <1>15, ContinueKeeps DEF BindApproval
  <2>2. grants'[g].approval = a BY <1>1, <1>2, <1>15, <2>1 DEF BindApproval, ApprovalOK
  <2>3. g \notin tokens' BY <1>1, <1>15 DEF BindApproval
  <2>4. a # NoApproval => Bound(a)'
    <3>1. SUFFICES ASSUME a # NoApproval PROVE Bound(a)' OBVIOUS
    <3>2. a \in Approvals BY <1>1, <1>2, <3>1 DEF TypeOK, Eval
    <3> DEFINE r == approvals[a]
    <3>3. r \in Approval BY <1>1, <1>2, <3>1, <3>2 DEF ChosenExists, TypeOK
    <3>4. approvals'[a] = [r EXCEPT !.usedBy = g]
      BY <1>1, <1>2, <1>15, <3>2 DEF BindApproval, TypeOK
    <3> HIDE DEF r
    <3>5. [r EXCEPT !.usedBy = g].usedBy = g BY <3>3 DEF Approval
    <3> QED BY <3>4, <3>5, NoValueAssumption DEF Bound
  <2> QED BY <1>6, <2>1, <2>2, <2>3, <2>4
<1>16. CASE AuditIssue(g) \/ AuditIssueFails(g)
  <2>1. /\ eval[g].pc = "audit" /\ eval'[g].approval = a /\ eval'[g].now = eval[g].now
        /\ eval'[g].pc \in {"return", "withdraw"}
    BY <1>1, <1>2, <1>16, ContinueKeeps DEF AuditIssue, AuditIssueFails
  <2>2. UNCHANGED <<grants, tokens>> BY <1>16 DEF AuditIssue, AuditIssueFails
  <2>3. grants'[g].approval = a /\ (a # NoApproval => Bound(a)')
    BY <1>1, <1>2, <1>4, <2>1, <2>2 DEF ApprovalOK
  <2> QED BY <1>1, <1>6, <2>1, <2>2, <2>3
<1>17. CASE WithdrawGrant(g)
  BY <1>1, <1>5, <1>17, ContinueKeeps DEF WithdrawGrant
<1>18. CASE ReturnToken(g)
  <2>1. /\ eval[g].pc = "return" /\ eval'[g].now = eval[g].now /\ eval'[g].pc = "done"
    BY <1>1, <1>18, ContinueKeeps DEF ReturnToken
  <2>2. grants' = grants BY <1>18 DEF ReturnToken
  <2>3. RequiresApproval[g] => Chosen(a, g) /\ Bound(a) /\ grants[g].approval = a
    BY <1>1, <1>2, <2>1, NoValueAssumption DEF ApprovalOK, Chosen
  <2>4. RequiresApproval[g] => Chosen(a, g)' /\ Bound(a)'
    BY <1>3, <2>1, <2>3, ChosenKept
  <2>5. RequiresApproval[g] => grants'[g].approval = a BY <2>2, <2>3
  <2> QED BY <2>1, <2>4, <2>5 DEF ApprovalOK
<1>19. CASE EvaluateFails(g)
  <2>1. eval'[g].pc = "done" BY <1>1, <1>19 DEF EvaluateFails, TypeOK, Eval
  <2> QED BY <1>1, <1>5, <1>19, <2>1 DEF EvaluateFails
<1> QED
  BY <1>7, <1>8, <1>9, <1>10, <1>11, <1>12, <1>13, <1>14, <1>15, <1>16, <1>17, <1>18,
     <1>19 DEF Evaluate


(* An execution leaves the approval of every grant as it is.               *)
LEMMA GrantApprovalKept ==
  ASSUME TypeOK, NEW x \in Executions, Execute(x), NEW h \in Grants
  PROVE  grants'[h].approval = grants[h].approval
<1>1. CASE ConsumeGrant(x)
  <2> DEFINE r == grants[h]
  <2>1. grants'[h] \in {r, [r EXCEPT !.status = "consumed", !.consumedAt = exec[x].now]}
    BY <1>1 DEF ConsumeGrant, TypeOK
  <2>2. r \in Grant BY DEF TypeOK
  <2> HIDE DEF r
  <2> QED BY <2>1, <2>2 DEF Grant, r
<1> QED
  BY <1>1 DEF Execute, BeginExecute, CheckDelegation, CheckTask, CallAdapter,
      AuditExecution, ExecuteEnds

LEMMA ExecuteApproval ==
  ASSUME ApprovalInv, NEW x \in Executions, Execute(x), \A b \in Approvals : ApprovalKept(b)
  PROVE  /\ \A h \in Grants : ApprovalOK(h)' /\ EffectOK(h)'
         /\ \A y \in Executions : CallOK(y)'
<1> USE DEF outside
<1>1. /\ TypeOK /\ ChosenExists
      /\ \A h \in Grants : ApprovalOK(h) /\ EffectOK(h) /\ GrantOK(h)
      /\ \A y \in Executions : CallOK(y) /\ ExecOK(y)
  BY DEF ApprovalInv, GrantInv, TypeInv
<1>2. ExecuteFrame(x) BY <1>1, ExecuteApart
<1>3. PICK g \in Grants \cup {NoGrant} : g = exec[x].grant BY <1>1 DEF TypeOK, Exec
<1>4. \A h \in Grants : grants'[h].approval = grants[h].approval
  BY <1>1, GrantApprovalKept
<1>5. ASSUME NEW h \in Grants PROVE ApprovalOK(h)'
  <2>1. grants'[h].approval = grants[h].approval BY <1>4
  <2>2. eval'[h] = eval[h] /\ tokens' = tokens BY <1>2 DEF ExecuteFrame
  <2> QED BY <1>1, <2>1, <2>2, ApprovalStays
<1>6. ASSUME NEW h \in Grants PROVE EffectOK(h)'
  <2>1. CASE effects'[h] = effects[h] BY <1>1, <2>1 DEF EffectOK
  <2>2. CASE CallAdapter(x) /\ h = g
    <3>1. exec[x].pc = "adapter" BY <1>1, <2>2, ProceedStep DEF CallAdapter
    <3>2. effects[h] = <<>> /\ Matches(Pinned(h), exec[x].args)
      BY <1>1, <1>3, <2>2, <3>1 DEF ExecOK, CallOK
    <3>3. effects'[h] = Append(effects[h], exec[x].args)
      BY <1>1, <1>3, <2>2 DEF CallAdapter, TypeOK
    <3>4. effects'[h][1] = exec[x].args BY <3>2, <3>3
    <3> QED BY <3>2, <3>4 DEF EffectOK
  <2>3. CASE CallAdapter(x) /\ h # g BY <1>2, <1>3, <2>1, <2>3 DEF ExecuteFrame
  <2> QED
    BY <2>1, <2>2, <2>3 DEF Execute, BeginExecute, CheckDelegation, CheckTask, ConsumeGrant,
        AuditExecution, ExecuteEnds
<1>7. ASSUME NEW y \in Executions PROVE CallOK(y)'
  <2>1. CASE y # x BY <1>1, <1>2, <2>1 DEF ExecuteFrame, CallOK
  <2>2. ASSUME NEW from, NEW to, Proceed(x, from, to)
        PROVE  /\ exec[x].pc = from /\ exec'[x].pc = to
               /\ exec'[x].grant = exec[x].grant /\ exec'[x].args = exec[x].args
    BY <1>1, <2>2 DEF TypeOK, Proceed, Exec
  <2>3. CASE exec'[x].pc \notin {"consume", "adapter"} /\ y = x BY <2>3 DEF CallOK
  <2>4. CASE CheckTask(x) /\ y = x BY <2>2, <2>4 DEF CheckTask, CallOK
  <2>5. CASE ConsumeGrant(x) /\ y = x BY <1>1, <2>2, <2>5 DEF ConsumeGrant, CallOK
  <2>6. BeginExecute(x) => exec'[x].pc = "delegation"
    BY <1>1 DEF BeginExecute, TypeOK
  <2>7. CheckDelegation(x) \/ CallAdapter(x) => exec'[x].pc \in {"task", "audit"}
    BY <2>2 DEF CheckDelegation, CallAdapter
  <2>8. AuditExecution(x) \/ ExecuteEnds(x) => exec'[x].pc = "idle"
    BY <1>1 DEF AuditExecution, ExecuteEnds, IdleExec, TypeOK
  <2> QED BY <2>1, <2>3, <2>4, <2>5, <2>6, <2>7, <2>8 DEF Execute
<1> QED BY <1>5, <1>6, <1>7

LEMMA NextApproval == ApprovalInv /\ [Next]_vars => ApprovalInv'
<1> SUFFICES ASSUME ApprovalInv, [Next]_vars PROVE ApprovalInv' OBVIOUS
<1> USE DEF requests, outside
<1>1. GrantInv' BY NextGrant DEF ApprovalInv
<1>2. \A b \in Approvals : ApprovalKept(b)
  BY ApprovalsKept DEF ApprovalInv, GrantInv
<1>3. /\ TypeOK /\ ChosenExists
      /\ \A h \in Grants : ApprovalOK(h) /\ EffectOK(h)
      /\ \A y \in Executions : CallOK(y)
  BY DEF ApprovalInv, GrantInv, TypeInv
<1>4. ASSUME NEW g \in Grants, Evaluate(g) PROVE ApprovalInv'
  <2>1. EvaluateFrame(g) BY <1>3, <1>4, EvaluateApart
  <2>2. ASSUME NEW h \in Grants PROVE ApprovalOK(h)'
    <3>1. CASE h = g BY <1>2, <1>4, <3>1, ApprovalOwn
    <3>2. CASE h # g BY <1>2, <1>3, <2>1, <3>2, ApprovalStays DEF EvaluateFrame
    <3> QED BY <3>1, <3>2
  <2>3. \A h \in Grants : EffectOK(h)' BY <1>3, <2>1 DEF EvaluateFrame, EffectOK
  <2>4. \A y \in Executions : CallOK(y)' BY <1>3, <2>1 DEF EvaluateFrame, CallOK
  <2> QED BY <1>1, <2>2, <2>3, <2>4 DEF ApprovalInv
<1>5. ASSUME NEW x \in Executions, Execute(x) PROVE ApprovalInv'
  BY <1>1, <1>2, <1>5, ExecuteApproval DEF ApprovalInv
<1>6. ASSUME UNCHANGED <<eval, exec, grants, tokens, effects>> PROVE ApprovalInv'
  <2>1. \A h \in Grants : ApprovalOK(h)' BY <1>2, <1>3, <1>6, ApprovalStays
  <2>2. \A h \in Grants : EffectOK(h)' BY <1>3, <1>6 DEF EffectOK
  <2>3. \A y \in Executions : CallOK(y)' BY <1>3, <1>6 DEF CallOK
  <2> QED BY <1>1, <2>1, <2>2, <2>3 DEF ApprovalInv
<1>7. ASSUME NEW a \in Approvals, CreateApproval(a) PROVE ApprovalInv'
  BY <1>6, <1>7 DEF CreateApproval
<1>8. CASE Revoke \/ AuditRevocation \/ Tick \/ OtherWriter
  BY <1>6, <1>8 DEF Revoke, AuditRevocation, Tick, OtherWriter
<1>9. CASE UNCHANGED vars BY <1>6, <1>9 DEF vars
<1> QED BY <1>4, <1>5, <1>7, <1>8, <1>9 DEF Next

(* Under a policy that keeps the sponsor from approving, and where every   *)
(* argument is a scalar that the grant pins, the tool runs with arguments  *)
(* that another human approved, under an approval that is used up.         *)
THEOREM Approved ==
  ASSUME "delegation_sponsor" \in SodRules,
         \A g \in Grants : DOMAIN ArgumentsOf[g] \subseteq ScalarKeys
  PROVE  Spec => []EffectIsApproved
<1>1. ASSUME ApprovalInv, NEW g \in Grants, effects[g] # <<>>, RequiresApproval[g]
      PROVE  LET a == grants[g].approval IN
             /\ a # NoApproval
             /\ IsValid(approvals[a], eval[g].now)
             /\ approvals[a].approver # Sponsor
             /\ Matches(approvals[a].subject, effects[g][1])
             /\ approvals[a].usedBy # NoGrant
  <2> DEFINE a == grants[g].approval
  <2>1. g \in tokens BY <1>1 DEF ApprovalInv, GrantInv, GrantOK
  <2>2. Chosen(a, g) /\ Bound(a) BY <1>1, <2>1 DEF ApprovalInv, ApprovalOK
  <2>3. approvals[a].approver # Sponsor BY <2>2 DEF Chosen, SodSatisfied
  <2>4. Pinned(g) = ArgumentsOf[g]
    <3>1. DOMAIN ArgumentsOf[g] \cap ScalarKeys = DOMAIN ArgumentsOf[g] OBVIOUS
    <3>2. ArgumentsOf[g] = [k \in DOMAIN ArgumentsOf[g] |-> ArgumentsOf[g][k]]
      BY RequestsAssumption DEF Arguments
    <3> QED BY <3>1, <3>2 DEF Pinned
  <2>5. Matches(ArgumentsOf[g], effects[g][1])
    BY <1>1, <2>4 DEF ApprovalInv, EffectOK
  <2>6. Matches(approvals[a].subject, effects[g][1])
    BY <2>2, <2>5 DEF Chosen, Matches
  <2> QED BY <2>2, <2>3, <2>6, NoValueAssumption DEF Chosen, Bound
<1>2. ApprovalInv => EffectIsApproved BY <1>1 DEF EffectIsApproved
<1> QED BY InitApproval, NextApproval, <1>2, PTL DEF Spec

---------------------------------------------------------------------------
(* An approval under which a credential has been handed out is spent for   *)
(* every request that begins afterwards, however many run at a time.       *)

Used(a) == a \in Approvals /\ approvals[a] # NoApproval /\ Bound(a)

(* The approvals that were spent when a request began are bound, so phase G*)
(* never chooses one, and the approval of a credential is bound before the *)
(* credential leaves, so it is spent for those that begin later.           *)
SpentOK(g) ==
  LET pc == eval[g].pc IN
  /\ \A a \in eval[g].spent : Used(a)
  /\ pc \in {"delegation", "task", "approvals"} => eval[g].approval = NoApproval
  /\ pc \in {"issue", "bind", "audit", "withdraw", "return"} =>
       eval[g].approval \notin eval[g].spent
  /\ g \in tokens =>
       /\ grants[g].approval \notin eval[g].spent
       /\ grants[g].approval # NoApproval => Used(grants[g].approval)

SpentInv == ApprovalInv /\ \A g \in Grants : SpentOK(g)

LEMMA InitSpent == Init => SpentInv
<1> SUFFICES ASSUME Init PROVE SpentInv OBVIOUS
<1>1. \A g \in Grants : SpentOK(g) BY DEF Init, SpentOK
<1> QED BY <1>1, InitApproval DEF SpentInv

LEMMA UsedKept ==
  ASSUME \A b \in Approvals : ApprovalKept(b), NEW a, Used(a)
  PROVE  Used(a)'
BY DEF Used, ApprovalKept

LEMMA SpentStays ==
  ASSUME NEW g \in Grants, SpentOK(g), \A b \in Approvals : ApprovalKept(b),
         eval'[g] = eval[g], grants'[g].approval = grants[g].approval,
         g \in tokens' <=> g \in tokens
  PROVE  SpentOK(g)'
<1>1. PICK b : b = grants[g].approval OBVIOUS
<1>2. PICK spent : spent = eval[g].spent OBVIOUS
<1>3. Used(b) => Used(b)' BY UsedKept
<1>4. (\A a \in spent : Used(a)) => \A a \in spent : Used(a)' BY UsedKept
<1>5. grants'[g].approval = b /\ eval'[g].spent = spent BY <1>1, <1>2
<1> HIDE DEF Used
<1> QED BY <1>1, <1>2, <1>3, <1>4, <1>5 DEF SpentOK

(* What is spent when a request begins is bound.                           *)
LEMMA SpentIsUsed ==
  ASSUME \A h \in Grants : SpentOK(h), TypeOK
  PROVE  \A a \in Spent : Used(a)
<1> SUFFICES ASSUME NEW h \in tokens, grants[h].approval # NoApproval
             PROVE  Used(grants[h].approval)
  BY DEF Spent
<1>1. h \in Grants BY DEF TypeOK
<1> QED BY <1>1 DEF SpentOK

(* The step of a request keeps its own approval unspent.                   *)
LEMMA SpentOwn ==
  ASSUME SpentInv, NEW g \in Grants, Evaluate(g), \A b \in Approvals : ApprovalKept(b)
  PROVE  SpentOK(g)'
<1>1. /\ g \notin tokens /\ SpentOK(g) /\ ApprovalOK(g) /\ TypeOK /\ ChosenExists
      /\ \A h \in Grants : SpentOK(h)
  BY EvaluatePending DEF SpentInv, ApprovalInv, GrantInv, TypeInv
<1>2. PICK a : a = eval[g].approval OBVIOUS
<1>3. PICK spent : spent = eval[g].spent OBVIOUS
<1>4. (\A b \in spent : Used(b)) /\ \A b \in spent : Used(b)'
  BY <1>1, <1>3, UsedKept DEF SpentOK
(* A step that goes on with the same approval, or stops. *)
<1>5. ASSUME g \notin tokens', eval'[g].approval = a, eval'[g].spent = spent,
             eval'[g].pc \in {"delegation", "task", "approvals"} => a = NoApproval,
             eval'[g].pc \in {"issue", "bind", "audit", "withdraw", "return"} => a \notin spent
      PROVE  SpentOK(g)'
  BY <1>4, <1>5 DEF SpentOK
<1>6. ASSUME NEW to, eval' = [eval EXCEPT ![g].pc = to]
      PROVE  eval'[g].pc = to /\ eval'[g].approval = a /\ eval'[g].spent = spent
  BY <1>1, <1>2, <1>3, <1>6 DEF TypeOK, Eval
<1> USE DEF outside
<1>7. CASE BeginEvaluate(g)
  <2>1. /\ eval'[g].pc = "delegation" /\ eval'[g].approval = NoApproval
        /\ eval'[g].spent = Spent /\ tokens' = tokens
    BY <1>1, <1>7 DEF BeginEvaluate, TypeOK
  <2>2. \A b \in Spent : Used(b)' BY <1>1, SpentIsUsed, UsedKept
  <2> HIDE DEF Spent
  <2> QED BY <1>1, <2>1, <2>2 DEF SpentOK
<1>8. CASE ReadDelegation(g) \/ ReadTask(g)
  <2>1. /\ eval[g].pc \in {"delegation", "task"} /\ eval'[g].approval = a
        /\ eval'[g].spent = spent
        /\ eval'[g].pc \in {"task", "approvals", "issue"} /\ tokens' = tokens
    BY <1>6, <1>8 DEF ReadDelegation, ReadTask, Continue
  <2>2. a = NoApproval BY <1>1, <1>2, <2>1 DEF SpentOK
  <2>3. a \notin spent BY <1>4, <2>2, NoValueAssumption DEF Used
  <2> QED BY <1>1, <1>5, <2>1, <2>2, <2>3
<1>9. CASE ReadApprovals(g)
  <2>1. PICK b \in Approvals :
          /\ Usable(b, g, eval[g].now)
          /\ eval' = [eval EXCEPT ![g].pc = "issue", ![g].approval = b]
    BY <1>9 DEF ReadApprovals
  <2>2. /\ eval'[g].pc = "issue" /\ eval'[g].approval = b /\ eval'[g].spent = spent
        /\ tokens' = tokens
    BY <1>1, <1>3, <1>9, <2>1 DEF TypeOK, Eval, ReadApprovals
  <2>3. b \notin spent BY <1>4, <2>1 DEF Usable, Candidate, Used, Bound
  <2> QED BY <1>1, <1>4, <2>2, <2>3 DEF SpentOK
<1>10. CASE Deny(g) \/ QuarantineTask(g) \/ AuditQuarantine(g) \/ WithdrawGrant(g)
            \/ EvaluateFails(g)
  <2>1. /\ eval'[g].pc \in {"quarantine", "record", "done"} /\ tokens' = tokens
        /\ eval'[g].approval = a /\ eval'[g].spent = spent
    BY <1>6, <1>10 DEF Deny, QuarantineTask, AuditQuarantine, WithdrawGrant, EvaluateFails,
        Continue
  <2> QED BY <1>1, <1>5, <2>1
<1>11. CASE PutGrant(g) \/ BindApproval(g) \/ AuditIssue(g) \/ AuditIssueFails(g)
  <2>1. /\ eval[g].pc \in {"issue", "bind", "audit"} /\ tokens' = tokens
        /\ eval'[g].pc \in {"bind", "audit", "return", "withdraw"}
        /\ eval'[g].approval = a /\ eval'[g].spent = spent
    BY <1>6, <1>11 DEF PutGrant, BindApproval, AuditIssue, AuditIssueFails, Continue
  <2>2. a \notin spent BY <1>1, <1>2, <1>3, <2>1 DEF SpentOK
  <2> QED BY <1>1, <1>5, <2>1, <2>2
<1>12. CASE ReturnToken(g)
  <2>1. /\ eval[g].pc = "return" /\ eval'[g].pc = "done"
        /\ eval'[g].approval = a /\ eval'[g].spent = spent
        /\ UNCHANGED <<grants, approvals>>
    BY <1>6, <1>12 DEF ReturnToken, Continue
  <2>2. a \notin spent /\ grants'[g].approval = a
    BY <1>1, <1>2, <1>3, <2>1 DEF SpentOK, ApprovalOK
  <2>3. a # NoApproval => Used(a)
    BY <1>1, <1>2, <2>1 DEF ApprovalOK, ChosenExists, TypeOK, Eval, Used
  <2>4. a # NoApproval => Used(a)' BY <2>3, UsedKept
  <2> HIDE DEF Used
  <2> QED BY <1>4, <2>1, <2>2, <2>4 DEF SpentOK
<1> QED BY <1>7, <1>8, <1>9, <1>10, <1>11, <1>12 DEF Evaluate

LEMMA NextSpent == SpentInv /\ [Next]_vars => SpentInv'
<1> SUFFICES ASSUME SpentInv, [Next]_vars PROVE SpentInv' OBVIOUS
<1> USE DEF requests, outside
<1>1. ApprovalInv' BY NextApproval DEF SpentInv
<1>2. TypeOK /\ \A h \in Grants : SpentOK(h)
  BY DEF SpentInv, ApprovalInv, GrantInv, TypeInv
<1>3. \A b \in Approvals : ApprovalKept(b)
  BY ApprovalsKept DEF SpentInv, ApprovalInv, GrantInv
<1>4. ASSUME NEW g \in Grants, Evaluate(g) PROVE SpentInv'
  <2>1. EvaluateFrame(g) BY <1>2, <1>4, EvaluateApart
  <2>2. ASSUME NEW h \in Grants PROVE SpentOK(h)'
    <3>1. CASE h = g BY <1>3, <1>4, <3>1, SpentOwn
    <3>2. CASE h # g BY <1>2, <1>3, <2>1, <3>2, SpentStays DEF EvaluateFrame
    <3> QED BY <3>1, <3>2
  <2> QED BY <1>1, <2>2 DEF SpentInv
<1>5. ASSUME eval' = eval, tokens' = tokens,
             \A h \in Grants : grants'[h].approval = grants[h].approval
      PROVE  SpentInv'
  BY <1>1, <1>2, <1>3, <1>5, SpentStays DEF SpentInv
<1>6. ASSUME NEW x \in Executions, Execute(x) PROVE SpentInv'
  <2>1. ExecuteFrame(x) BY <1>2, <1>6, ExecuteApart DEF SpentInv, ApprovalInv, GrantInv
  <2>2. ASSUME NEW h \in Grants PROVE grants'[h].approval = grants[h].approval
    BY <1>2, <1>6, GrantApprovalKept
  <2> QED BY <1>5, <2>1, <2>2 DEF ExecuteFrame
<1>7. ASSUME NEW a \in Approvals, CreateApproval(a) PROVE SpentInv'
  BY <1>5, <1>7 DEF CreateApproval
<1>8. CASE Revoke \/ AuditRevocation \/ Tick \/ OtherWriter
  BY <1>5, <1>8 DEF Revoke, AuditRevocation, Tick, OtherWriter
<1>9. CASE UNCHANGED vars BY <1>5, <1>9 DEF vars
<1> QED BY <1>4, <1>6, <1>7, <1>8, <1>9 DEF Next

(* However many requests run at a time, and whichever of them race, crash  *)
(* or are withdrawn: a request that begins after a credential was handed   *)
(* out under an approval hands out none under it.                          *)
THEOREM SpentForGood == Spec => []NoLaterReuse
<1>1. SpentInv => NoLaterReuse
  <2> SUFFICES ASSUME SpentInv, NEW g \in tokens
               PROVE  grants[g].approval \notin eval[g].spent
    BY DEF NoLaterReuse
  <2>1. g \in Grants BY DEF SpentInv, ApprovalInv, GrantInv, TypeInv, TypeOK
  <2> QED BY <2>1 DEF SpentInv, SpentOK
<1> QED BY InitSpent, NextSpent, <1>1, PTL DEF Spec
=============================================================================
