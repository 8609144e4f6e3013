------------------------------ MODULE MCGroup -------------------------------
(* Instances of GroupMembership for TLC.                                   *)
EXTENDS GroupMembership, TLC

UserSymmetry == Permutations(Users)
=============================================================================
