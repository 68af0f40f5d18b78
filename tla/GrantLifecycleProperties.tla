---------------------- MODULE GrantLifecycleProperties ----------------------
(***************************************************************************)
(* What the control plane and the execution gateway owe the sponsor, the   *)
(* approver and the systems behind the adapters.                           *)
(***************************************************************************)
EXTENDS GrantLifecycle

SUG == INSTANCE SingleUseGrant WITH
         status    <- [g \in Grants |-> grants[g].status],
         held      <- tokens,
         performed <- {g \in Grants : effects[g] # <<>>}

(* Whatever requests run against each other, every grant goes through the  *)
(* single-use life: a withdrawn credential was never handed out, only a    *)
(* credential that was handed out is consumed, no status is taken back.    *)
RefinesSingleUseGrant == SUG!Spec

(* The tool of a grant runs at most once, however often and concurrently   *)
(* its token is presented and whichever requests crash.                    *)
EffectAtMostOnce == \A g \in Grants : Len(effects[g]) <= 1

(* A tool runs only under a consumed grant whose issuance is in the audit  *)
(* chain, and the request that consumed it came within the life of both    *)
(* the grant and the delegation.                                           *)
EffectIsAuthorised ==
  \A g \in Grants : effects[g] # <<>> =>
    /\ grants[g].status = "consumed"
    /\ [type |-> "grant.issued", grant |-> g] \in audit
    /\ grants[g].consumedAt < grants[g].expires
    /\ grants[g].consumedAt < DelegationExpires

(* Where the policy asks for an approval, the tool ran with arguments that *)
(* a human other than the sponsor had approved, under an approval that was *)
(* valid when the grant was evaluated and cannot be chosen again.          *)
EffectIsApproved ==
  \A g \in Grants : effects[g] # <<>> /\ RequiresApproval[g] =>
    LET a == grants[g].approval IN
    /\ a # NoApproval
    /\ IsValid(approvals[a], eval[g].now)
    /\ approvals[a].approver # Sponsor
    /\ Matches(approvals[a].subject, effects[g][1])
    /\ approvals[a].usedBy # NoGrant

(* A request that begins after the delegation was revoked or the task had  *)
(* ended gets no token and reaches no adapter.                             *)
NothingAfterEnd ==
  /\ \A x \in Executions :
       exec[x].pc \in {"consume", "adapter", "audit"} => ~exec[x].late
  /\ \A g \in tokens : ~eval[g].late

(* The audit chain does not claim what did not happen, and no live         *)
(* credential is handed out that has no audit event.                       *)
AuditTrailTruthful ==
  /\ \A g \in tokens : [type |-> "grant.issued", grant |-> g] \in audit
  /\ \A g \in Grants :
       [type |-> "tool.execution.completed", grant |-> g] \in audit =>
         effects[g] # <<>>

(* "Single-use binding" (models/approval.py): no two credentials are handed*)
(* out under the same approval.  Two requests that read the approvals      *)
(* before either of them binds one get it both: the code does not give     *)
(* this.                                                                   *)
ApprovalSingleUse ==
  \A g, h \in tokens :
    grants[g].approval = grants[h].approval /\ grants[g].approval # NoApproval => g = h

(* What the code gives of it: once a credential has been handed out under  *)
(* an approval, no request that begins then or later gets one under it,    *)
(* whichever of the requests that had begun before race to bind it, write  *)
(* back the copies they read, crash or are withdrawn.  Only requests that  *)
(* overlap can share an approval.                                          *)
NoLaterReuse == \A g \in tokens : grants[g].approval \notin eval[g].spent
=============================================================================
