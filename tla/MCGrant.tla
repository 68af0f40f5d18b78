------------------------------ MODULE MCGrant ------------------------------
(* Instances of GrantLifecycle: every evaluate request asks to pay batch 1; *)
(* approvals and executions may name either batch, or none.                *)
EXTENDS GrantLifecycleProperties, TLC

Symmetry ==
  Permutations(Executions) \cup Permutations(Approvals) \cup Permutations(Grants)

MCArgumentsOf      == [g \in Grants |-> [k \in Keys |-> "batch1"]]
MCRequiresApproval == [g \in Grants |-> TRUE]
============================================================================
