----------------------------- MODULE MCStakingIndex ----------------------------
(* Users, and jobs, are interchangeable. *)
EXTENDS StakingIndex

Symmetry == Permutations(Users) \cup Permutations(Jobs)
===============================================================================
