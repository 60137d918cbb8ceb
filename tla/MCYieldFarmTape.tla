-------------------------- MODULE MCYieldFarmTape --------------------------
(***************************************************************************)
(* Small instances of the tape.  With Precision 10 the shares of a total   *)
(* of 3 round down.                                                        *)
(***************************************************************************)
EXTENDS YieldFarmTape, TLC

UserSymmetry == Permutations(Users)
=============================================================================
