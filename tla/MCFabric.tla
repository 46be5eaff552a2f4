------------------------------ MODULE MCFabric ------------------------------
(***************************************************************************)
(* Instances of FabricOrdering for TLC.                                    *)
(***************************************************************************)
EXTENDS FabricOrdering, TLC

CONSTANTS d1, k1, k2, r1, c1

\* One action per registry, so that every dispatch runs against a concurrent
\* one on the same keys.
FabricActions ==
  {[type |-> "MINT_ASSET", owner |-> d1],
   [type |-> "TRANSFER_ASSET", asset |-> 0, from |-> d1, to |-> d1],
   [type |-> "UPDATE_CONTROLLER", did |-> d1, key |-> k2],
   [type |-> "GRANT_ROLE", role |-> r1, subject |-> d1, expiry |-> 1],
   [type |-> "REVOKE_ROLE", role |-> r1, subject |-> d1],
   [type |-> "SET_CREDENTIAL_STATUS", status |-> <<r1, d1>>, revoked |-> TRUE,
    expiry |-> Absent]}

FabricSymmetry ==
  Permutations(Org) \cup Permutations(ProposalId) \cup Permutations(Slot)
=============================================================================
