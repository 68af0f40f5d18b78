------------------------------ MODULE MCAudit ------------------------------
(* Instances of AuditChain. *)
EXTENDS AuditChain, TLC

Symmetry == Permutations(Events)
============================================================================
