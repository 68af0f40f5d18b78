------------------------------- MODULE MCTask -------------------------------
(* Instances of TaskLifecycle: one event for each occasion, named for it.  *)
EXTENDS TaskLifecycleProperties, TLC

Symmetry == Permutations(Deliveries)

MCOccasionOf == [e \in EventIds |-> e]
=============================================================================
