---------------------------- MODULE LedgerGovernance ----------------------------
(***************************************************************************)
(* The chaincode's governance as an implementation of ThresholdApproval.   *)
(* Every organization of the channel is a member, always, and the          *)
(* threshold is the constant of governance.contract.ts.                    *)
(***************************************************************************)
EXTENDS TrustMeshLedger

\* The network has as many organizations as proposals need approvals.
ASSUME OrganizationsAssumption ==
  IsFiniteSet(Org) /\ Threshold <= Cardinality(Org)

ApprovedBy == [p \in ProposalId |-> IF Exists(p) THEN ApprovingOrgs(proposals[p]) ELSE {}]
WithStatus(status) == {p \in ProposalId : HasStatus(p, status)}

Abstract ==
  INSTANCE ThresholdApproval WITH
    Party <- Org, Item <- ProposalId,
    members <- Org, threshold <- Threshold,
    approvals <- ApprovedBy,
    done <- WithStatus("EXECUTED"),
    dropped <- WithStatus("CANCELLED")

\* Proposals implement ThresholdApproval: each executes at most once, on the
\* approvals of a threshold of organizations, and never after its cancellation,
\* in whatever order proposals, approvals, executions and cancellations of all
\* organizations commit.
ImplementsThresholdApproval == Abstract!Spec
=============================================================================
