------------------------------ MODULE MCRecovery ------------------------------
(***************************************************************************)
(* Instances of Recovery for TLC: one DID, and rotations of its controller *)
(* proposed by other ledger clients besides.                               *)
(***************************************************************************)
EXTENDS Recovery, TLC

CONSTANTS d1, k1, k2, r1, o1, o2

Rotations == [type : {"UPDATE_CONTROLLER"}, did : {d1}, key : {k2}]
BirthKeys == [d \in Did |-> k1]
OrgOrder == <<o1, o2>>

RecoverySymmetry ==
  Permutations(Guardian) \cup Permutations(Request)
    \cup Permutations(ProposalId) \cup Permutations(Call)
=============================================================================
