------------------------------ MODULE MCLedger ------------------------------
(***************************************************************************)
(* An instance of LedgerGovernance for TLC: the actions that are proposed, *)
(* and the symmetry of the sets of model values.                           *)
(***************************************************************************)
EXTENDS LedgerGovernance, TLC

CONSTANTS d1, d2, r1

\* One role, granted, revoked early, suspended and restored through its status id;
\* and assets minted and handed on, by as many approved transfers as fit, while a
\* role is granted.
Grant == [type |-> "GRANT_ROLE", role |-> r1, subject |-> d1, expiry |-> 1]

RoleBusiness ==
  {Grant, [type |-> "REVOKE_ROLE", role |-> r1, subject |-> d1]}
    \cup [type : {"SET_CREDENTIAL_STATUS"}, status : {<<r1, d1>>},
          revoked : BOOLEAN, expiry : {Absent}]

AssetBusiness ==
  {Grant, [type |-> "MINT_ASSET", owner |-> d1],
   [type |-> "TRANSFER_ASSET", asset |-> 0, from |-> d1, to |-> d2]}

GovernanceActions == RoleBusiness \cup AssetBusiness

\* A behaviour is about the one or the other.
About(business) == \A p \in ProposalId : Exists(p)' => proposals'[p].action \in business

LedgerNext == Next /\ (About(RoleBusiness) \/ About(AssetBusiness))
LedgerSpec == Init /\ [][LedgerNext]_vars

Symmetry == Permutations(Org) \cup Permutations(ProposalId)
=============================================================================
