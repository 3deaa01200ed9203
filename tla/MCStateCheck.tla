---------------------------- MODULE MCStateCheck ----------------------------
(* Instances of the lifecycle checker for TLC. *)
EXTENDS StateCheckHistory

MCBound == {-1, 0, 1}
=============================================================================
