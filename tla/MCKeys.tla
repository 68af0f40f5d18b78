------------------------------- MODULE MCKeys -------------------------------
(* Instances of GrantVerification: a rotation from one key version to       *)
(* another and back.                                                        *)
EXTENDS GrantVerificationProperties, TLC

Symmetry == Permutations(Kids)
=============================================================================
