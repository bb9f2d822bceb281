------------------------------ MODULE MCCoSync ------------------------------
(* Small instances of CoSync. *)
EXTENDS CoSync, TLC

Symmetry == Permutations(Users)
=============================================================================
