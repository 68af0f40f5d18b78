------------------------------- MODULE MCErp -------------------------------
(* Instances of ErpBackend. *)
EXTENDS ErpBackend, TLC

Symmetry ==
  Permutations(Calls) \cup Permutations(Grants) \cup Permutations(Ids)
===========================================================================
