------------------------------ MODULE MCErasure ------------------------------
(***************************************************************************)
(* Instances of Erasure for TLC.                                           *)
(***************************************************************************)
EXTENDS Erasure, TLC

Symmetry == Permutations(Admin) \cup Permutations(Call)
=============================================================================
