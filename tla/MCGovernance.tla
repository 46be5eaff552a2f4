----------------------------- MODULE MCGovernance -----------------------------
(***************************************************************************)
(* Instances of GovernanceApi for TLC: two admins of the primary           *)
(* organization or of none, one of another, and a proposal to take the     *)
(* latter's role away.                                                     *)
(***************************************************************************)
EXTENDS GovernanceApi, TLC

CONSTANTS d1, d2, d3, o1, o2, r1, k1

ApiActions ==
  {[type |-> "REVOKE_ROLE", role |-> r1, subject |-> d2],
   [type |-> "GRANT_ROLE", role |-> r1, subject |-> d3, expiry |-> 2]}

\* d3 gets the role over HTTP, and so no organization.
Assignment == (d1 :> o1) @@ (d2 :> o2) @@ (d3 :> Absent)

BirthKeys == [d \in Did |-> k1]

ApiSymmetry == Permutations(ProposalId) \cup Permutations(Call)
=============================================================================
