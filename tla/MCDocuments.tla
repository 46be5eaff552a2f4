----------------------------- MODULE MCDocuments -----------------------------
(***************************************************************************)
(* An instance of AssetDocuments for TLC: an admin in each of two          *)
(* organizations, and a citizen who may be given an asset, be made Auditor *)
(* or have the controller replaced by guardians.                           *)
(***************************************************************************)
EXTENDS AssetDocuments, TLC

CONSTANTS d1, d2, d3, o1, o2, adm, aud, k1, k2

DocActions ==
  {[type |-> "MINT_ASSET", owner |-> d1],
   [type |-> "TRANSFER_ASSET", asset |-> 0, from |-> d1, to |-> d3],
   [type |-> "GRANT_ROLE", role |-> aud, subject |-> d3, expiry |-> 1],
   [type |-> "UPDATE_CONTROLLER", did |-> d3, key |-> k2]}

Assignment == [d \in Did |-> CASE d = d1 -> o1 [] d = d2 -> o2 [] OTHER -> Absent]

BirthKeys == [d \in Did |-> k1]

Uploads == {{"zip magic", "xl/"}, {"zip magic"}}

DocSymmetry == Permutations(ProposalId) \cup Permutations(Call)
=============================================================================
