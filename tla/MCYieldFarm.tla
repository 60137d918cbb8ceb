---------------------------- MODULE MCYieldFarm ----------------------------
(* Small instances of YieldFarm with interchangeable users. *)
EXTENDS YieldFarm, TLC

UserSymmetry == Permutations(Users)
=============================================================================
