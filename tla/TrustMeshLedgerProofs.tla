------------------------ MODULE TrustMeshLedgerProofs ------------------------
(***************************************************************************)
(* What TrustMeshLedger promises, proved for every value of its constants, *)
(* and that its proposals are threshold approval by the organizations.     *)
(***************************************************************************)
EXTENDS LedgerGovernance, FiniteSetTheorems, TLAPS

-----------------------------------------------------------------------------
\* Type correctness.

LEMMA SetStatusType ==
  ASSUME TypeOK, NEW s \in StatusId, NEW revoked \in BOOLEAN,
         NEW e \in Nat \cup {Absent}, SetStatus(s, revoked, e)
  PROVE  statuses' \in [StatusId -> StatusRecord \cup {Absent}]
<1> DEFINE kept == IF statuses[s] = Absent THEN 0 ELSE statuses[s].expiry
           rec == [revoked |-> revoked, expiry |-> IF e = Absent THEN kept ELSE e]
<1>1. kept \in Nat
  BY DEF TypeOK, StatusRecord
<1>2. rec \in StatusRecord
  BY <1>1 DEF StatusRecord
<1>3. statuses' = [statuses EXCEPT ![s] = rec]
  BY DEF SetStatus, StatusWrite
<1>4. QED
  BY <1>2, <1>3 DEF TypeOK

LEMMA DispatchType ==
  ASSUME TypeOK, NEW a \in Action, NEW t \in Time, Dispatch(a, t)
  PROVE  /\ dids' \in [Did -> DidRecord \cup {Absent}]
         /\ roles' \in [RoleKey -> RoleRecord \cup {Absent}]
         /\ statuses' \in [StatusId -> StatusRecord \cup {Absent}]
         /\ assets' \in [AssetId -> AssetRecord \cup {Absent}]
         /\ assetCounter' \in 0 .. MaxAssets
<1>0. a \in PrivilegedAction
  BY ActionAssumption
<1>1. CASE a.type = "GRANT_ROLE" /\ GrantRoleWithExpiry(a.role, a.subject, a.expiry, t)
  <2>1. a.role \in RoleId /\ a.subject \in Did /\ a.expiry \in Nat
    BY <1>0, <1>1 DEF PrivilegedAction, GrantRole, RevokeRole, MintAsset,
       TransferAsset, UpdateController, SetCredentialStatus
  <2>2. StatusIdFor(a.role, a.subject) \in StatusId
    BY <2>1 DEF StatusId
  <2>3. statuses' \in [StatusId -> StatusRecord \cup {Absent}]
    BY <1>1, <2>1, <2>2, SetStatusType DEF GrantRoleWithExpiry, RoleGrant, CanGrantUntil
  <2>4. roles' \in [RoleKey -> RoleRecord \cup {Absent}]
    BY <1>1, <2>1 DEF GrantRoleWithExpiry, TypeOK, RoleKey, RoleRecord, RoleGrant,
       CanGrantUntil
  <2>5. QED
    BY <1>1, <2>3, <2>4 DEF GrantRoleWithExpiry, TypeOK, RoleGrant, CanGrantUntil
<1>2. CASE a.type = "REVOKE_ROLE" /\ RevokeRoleEarly(a.role, a.subject)
  <2>1. a.role \in RoleId /\ a.subject \in Did
    BY <1>0, <1>2 DEF PrivilegedAction, GrantRole, RevokeRole, MintAsset,
       TransferAsset, UpdateController, SetCredentialStatus
  <2>2. StatusIdFor(a.role, a.subject) \in StatusId
    BY <2>1 DEF StatusId
  <2>3. statuses' \in [StatusId -> StatusRecord \cup {Absent}]
    BY <1>2, <2>2, SetStatusType DEF RevokeRoleEarly, IsGranted
  <2>4. roles' \in [RoleKey -> RoleRecord \cup {Absent}]
    BY <1>2, <2>1 DEF RevokeRoleEarly, TypeOK, RoleKey, RoleRecord, IsGranted
  <2>5. QED
    BY <1>2, <2>3, <2>4 DEF RevokeRoleEarly, TypeOK, IsGranted
<1>3. CASE a.type = "MINT_ASSET" /\ Mint(a.owner)
  <2>1. a.owner \in Did
    BY <1>0, <1>3 DEF PrivilegedAction, GrantRole, RevokeRole, MintAsset,
       TransferAsset, UpdateController, SetCredentialStatus
  <2>2. QED
    BY <1>3, <2>1, ParametersAssumption DEF Mint, TypeOK, AssetRecord, AssetId
<1>4. CASE a.type = "TRANSFER_ASSET" /\ Transfer(a.asset, a.from, a.to)
  <2>1. a.asset \in AssetId /\ a.to \in Did
    BY <1>0, <1>4 DEF PrivilegedAction, GrantRole, RevokeRole, MintAsset,
       TransferAsset, UpdateController, SetCredentialStatus
  <2>2. QED
    BY <1>4, <2>1 DEF Transfer, TypeOK, AssetRecord, IsOwner
<1>5. CASE a.type = "UPDATE_CONTROLLER" /\ UpdateDidController(a.did, a.key)
  <2>1. a.did \in Did /\ a.key \in Key
    BY <1>0, <1>5 DEF PrivilegedAction, GrantRole, RevokeRole, MintAsset,
       TransferAsset, UpdateController, SetCredentialStatus
  <2>2. QED
    BY <1>5, <2>1 DEF UpdateDidController, TypeOK, DidRecord
<1>6. CASE /\ a.type = "SET_CREDENTIAL_STATUS"
           /\ SetStatus(a.status, a.revoked, a.expiry)
           /\ UNCHANGED <<dids, roles, assets, assetCounter>>
  <2>1. a.status \in StatusId /\ a.revoked \in BOOLEAN /\ a.expiry \in Nat \cup {Absent}
    BY <1>0, <1>6 DEF PrivilegedAction, GrantRole, RevokeRole, MintAsset,
       TransferAsset, UpdateController, SetCredentialStatus
  <2>2. statuses' \in [StatusId -> StatusRecord \cup {Absent}]
    BY <1>6, <2>1, SetStatusType
  <2>3. QED
    BY <1>6, <2>2 DEF TypeOK
<1>7. QED
  BY <1>1, <1>2, <1>3, <1>4, <1>5, <1>6 DEF Dispatch

LEMMA InitType == Init => TypeOK
  BY ParametersAssumption DEF Init, TypeOK, Time

LEMMA NextType ==
  ASSUME TypeOK, [Next]_vars
  PROVE  TypeOK'
<1>1. ASSUME NEW org \in Org, NEW p \in ProposalId, NEW a \in Action, NEW t \in TxTime,
             ProposeAction(org, p, a, t)
      PROVE  TypeOK'
  <2> DEFINE pr == [action |-> a, proposedBy |-> org, expiresAt |-> t + TTL,
                    approvals |-> <<[org |-> org, at |-> t]>>, status |-> "PENDING",
                    executedAt |-> Absent, result |-> Absent]
  <2>1. t \in Time /\ t + TTL \in Nat
    BY ParametersAssumption DEF TxTime, Time
  <2>2. <<[org |-> org, at |-> t]>> \in Seq(Approval)
    BY <2>1 DEF Approval
  <2>3. pr \in Proposal
    BY <2>1, <2>2 DEF Proposal
  <2>4. proposals' = [proposals EXCEPT ![p] = pr]
    BY <1>1 DEF ProposeAction, NewProposal
  <2>5. proposals' \in [ProposalId -> Proposal \cup {Absent}]
    BY <2>3, <2>4 DEF TypeOK
  <2>6. QED
    BY <1>1, <2>5 DEF ProposeAction, registries, TypeOK, NewProposal
<1>2. ASSUME NEW org \in Org, NEW p \in ProposalId, NEW t \in TxTime,
             ApproveProposal(org, p, t)
      PROVE  TypeOK'
  <2> DEFINE ap == Append(proposals[p].approvals, [org |-> org, at |-> t])
  <2>1. proposals[p] \in Proposal
    BY <1>2 DEF ApproveProposal, HasStatus, Exists, TypeOK, CanApprove, WithApproval
  <2>2. ap \in Seq(Approval)
    BY <2>1 DEF Proposal, Approval, TxTime
  <2>3. proposals' = [proposals EXCEPT ![p] = [proposals[p] EXCEPT !.approvals = ap]]
    BY <1>2, <2>1 DEF ApproveProposal, TypeOK, CanApprove, WithApproval
  <2>4. [proposals[p] EXCEPT !.approvals = ap] \in Proposal
    BY <2>1, <2>2 DEF Proposal
  <2>5. proposals' \in [ProposalId -> Proposal \cup {Absent}]
    BY <2>3, <2>4 DEF TypeOK
  <2>6. QED
    BY <1>2, <2>5 DEF ApproveProposal, registries, TypeOK, CanApprove, WithApproval
<1>3. ASSUME NEW p \in ProposalId, NEW t \in TxTime, ExecuteProposal(p, t)
      PROVE  TypeOK'
  <2>1. proposals[p] \in Proposal /\ t \in Time
    BY <1>3 DEF ExecuteProposal, HasStatus, Exists, TypeOK, TxTime, CanExecute,
       AsExecuted
  <2>2. proposals[p].action \in Action
    BY <2>1 DEF Proposal
  <2>3. Dispatch(proposals[p].action, t)
    BY <1>3 DEF ExecuteProposal, CanExecute, AsExecuted
  <2>4. proposals[p].action.type = "MINT_ASSET" => assetCounter \in AssetId
    BY <2>3, ParametersAssumption DEF Dispatch, Mint, TypeOK, AssetId
  <2> DEFINE res == IF proposals[p].action.type = "MINT_ASSET"
                      THEN assetCounter ELSE Absent
             pr == [proposals[p] EXCEPT !.status = "EXECUTED", !.executedAt = t,
                                        !.result = res]
  <2>5. res \in AssetId \cup {Absent}
    BY <2>4
  <2>6. pr \in Proposal
    BY <2>1, <2>5 DEF Proposal
  <2>7. proposals' = [proposals EXCEPT ![p] = pr]
    BY <1>3, <2>1 DEF ExecuteProposal, TypeOK, CanExecute, AsExecuted
  <2>8. proposals' \in [ProposalId -> Proposal \cup {Absent}]
    BY <2>6, <2>7 DEF TypeOK
  <2>9. clock' \in Time
    BY <1>3 DEF ExecuteProposal, TypeOK, CanExecute, AsExecuted
  <2>10. QED
    BY <2>1, <2>2, <2>3, <2>8, <2>9, DispatchType DEF TypeOK
<1>4. ASSUME NEW org \in Org, NEW p \in ProposalId, CancelProposal(org, p)
      PROVE  TypeOK'
  <2>1. proposals[p] \in Proposal
    BY <1>4 DEF CancelProposal, HasStatus, Exists, TypeOK, CanCancel
  <2>2. [proposals[p] EXCEPT !.status = "CANCELLED"] \in Proposal
    BY <2>1 DEF Proposal
  <2>3. proposals' \in [ProposalId -> Proposal \cup {Absent}]
    BY <1>4, <2>2 DEF CancelProposal, TypeOK, CanCancel
  <2>4. QED
    BY <1>4, <2>3 DEF CancelProposal, registries, TypeOK, CanCancel
<1>5. ASSUME NEW d \in Did, NEW key \in Key, RegisterDID(d, key)
      PROVE  TypeOK'
  BY <1>5 DEF RegisterDID, RegisterDid, TypeOK, DidRecord
<1>6. ASSUME Tick
      PROVE  TypeOK'
  BY <1>6, ParametersAssumption DEF Tick, registries, TypeOK, Time
<1>7. CASE UNCHANGED vars
  BY <1>7 DEF vars, registries, TypeOK
<1>8. QED
  BY <1>1, <1>2, <1>3, <1>4, <1>5, <1>6, <1>7 DEF Next

\* Every record of the world state has the shape its handlers rely on, whatever
\* the organizations, the actions they propose and the order of transactions.
THEOREM TypeCorrect == Spec => []TypeOK
<1>1. TypeOK /\ [Next]_vars => TypeOK'
  BY NextType
<1>2. QED
  BY InitType, <1>1, PTL DEF Spec

-----------------------------------------------------------------------------
\* What each governance step does to the proposals.

LEMMA ProposeFacts ==
  ASSUME TypeOK, NEW org \in Org, NEW p \in ProposalId, NEW a \in Action,
         NEW t \in TxTime, ProposeAction(org, p, a, t)
  PROVE  /\ t \in Time
         /\ ~Exists(p)
         /\ proposals'[p] =
              [action |-> a, proposedBy |-> org, expiresAt |-> t + TTL,
               approvals |-> <<[org |-> org, at |-> t]>>, status |-> "PENDING",
               executedAt |-> Absent, result |-> Absent]
         /\ \A q \in ProposalId \ {p} : proposals'[q] = proposals[q]
         /\ UNCHANGED <<registries, clock>>
  BY DEF ProposeAction, TypeOK, TxTime, NewProposal

LEMMA ApproveFacts ==
  ASSUME TypeOK, NEW org \in Org, NEW p \in ProposalId, NEW t \in TxTime,
         ApproveProposal(org, p, t)
  PROVE  /\ t \in Time
         /\ Exists(p)
         /\ proposals[p] \in Proposal
         /\ proposals[p].status = "PENDING"
         /\ t <= proposals[p].expiresAt
         /\ org \notin ApprovingOrgs(proposals[p])
         /\ proposals'[p] = [proposals[p] EXCEPT !.approvals =
                               Append(proposals[p].approvals, [org |-> org, at |-> t])]
         /\ \A q \in ProposalId \ {p} : proposals'[q] = proposals[q]
         /\ UNCHANGED <<registries, clock>>
<1>1. Exists(p) /\ proposals[p] \in Proposal /\ proposals[p].status = "PENDING"
  BY DEF ApproveProposal, HasStatus, Exists, TypeOK, CanApprove, WithApproval
<1>2. t \in Time /\ proposals[p].expiresAt \in Nat
  BY <1>1 DEF TxTime, Proposal
<1>3. t <= proposals[p].expiresAt
  BY <1>2 DEF ApproveProposal, Expired, Time, CanApprove, WithApproval
<1>4. QED
  BY <1>1, <1>2, <1>3 DEF ApproveProposal, TypeOK, CanApprove, WithApproval

LEMMA ExecuteFacts ==
  ASSUME TypeOK, NEW p \in ProposalId, NEW t \in TxTime, ExecuteProposal(p, t)
  PROVE  /\ t \in Time
         /\ Exists(p)
         /\ proposals[p] \in Proposal
         /\ proposals[p].action \in Action
         /\ proposals[p].status = "PENDING"
         /\ t <= proposals[p].expiresAt
         /\ HasQuorum(proposals[p])
         /\ Dispatch(proposals[p].action, t)
         /\ proposals'[p] = [proposals[p] EXCEPT !.status = "EXECUTED", !.executedAt = t,
              !.result = IF proposals[p].action.type = "MINT_ASSET"
                           THEN assetCounter ELSE Absent]
         /\ proposals'[p] # Absent
         /\ proposals'[p].status = "EXECUTED"
         /\ proposals'[p].executedAt = t
         /\ proposals'[p].action = proposals[p].action
         /\ \A q \in ProposalId \ {p} : proposals'[q] = proposals[q]
         /\ UNCHANGED clock
<1>1. Exists(p) /\ proposals[p] \in Proposal /\ proposals[p].status = "PENDING"
  BY DEF ExecuteProposal, HasStatus, Exists, TypeOK, CanExecute, AsExecuted
<1>2. t \in Time /\ proposals[p].expiresAt \in Nat /\ proposals[p].action \in Action
  BY <1>1 DEF TxTime, Proposal
<1>3. t <= proposals[p].expiresAt
  BY <1>2 DEF ExecuteProposal, Expired, Time, CanExecute, AsExecuted
<1>4. proposals'[p] = [proposals[p] EXCEPT !.status = "EXECUTED", !.executedAt = t,
              !.result = IF proposals[p].action.type = "MINT_ASSET"
                           THEN assetCounter ELSE Absent]
  BY DEF ExecuteProposal, TypeOK, CanExecute, AsExecuted
<1>5. /\ proposals'[p].status = "EXECUTED"
      /\ proposals'[p].executedAt = t
      /\ proposals'[p].action = proposals[p].action
  BY <1>1, <1>4 DEF Proposal
<1>6. TypeOK'
  BY NextType DEF Next
<1>7. proposals'[p] # Absent
  <2>1. proposals'[p] \in Proposal \cup {Absent}
    BY <1>6 DEF TypeOK
  <2>2. [proposals[p] EXCEPT !.status = "EXECUTED", !.executedAt = t,
              !.result = IF proposals[p].action.type = "MINT_ASSET"
                           THEN assetCounter ELSE Absent] \in Proposal
    <3>1. Dispatch(proposals[p].action, t)
      BY DEF ExecuteProposal, CanExecute, AsExecuted
    <3>2. proposals[p].action.type = "MINT_ASSET" => assetCounter \in AssetId
      BY <3>1, ParametersAssumption DEF Dispatch, Mint, TypeOK, AssetId
    <3>3. QED
      BY <1>1, <1>2, <3>2 DEF Proposal
  <2>3. QED
    BY <1>4, <2>2, AbsentAssumption
<1>8. QED
  BY <1>1, <1>2, <1>3, <1>4, <1>5, <1>7 DEF ExecuteProposal, HasQuorum, TypeOK,
     CanExecute, AsExecuted

LEMMA CancelFacts ==
  ASSUME TypeOK, NEW org \in Org, NEW p \in ProposalId, CancelProposal(org, p)
  PROVE  /\ Exists(p)
         /\ proposals[p] \in Proposal
         /\ proposals[p].status = "PENDING"
         /\ proposals'[p] = [proposals[p] EXCEPT !.status = "CANCELLED"]
         /\ proposals'[p].status = "CANCELLED"
         /\ \A q \in ProposalId \ {p} : proposals'[q] = proposals[q]
         /\ UNCHANGED <<registries, clock>>
<1>1. Exists(p) /\ proposals[p] \in Proposal /\ proposals[p].status = "PENDING"
  BY DEF CancelProposal, HasStatus, Exists, TypeOK, CanCancel
<1>2. proposals'[p] = [proposals[p] EXCEPT !.status = "CANCELLED"]
  BY DEF CancelProposal, TypeOK, CanCancel
<1>3. proposals'[p].status = "CANCELLED"
  BY <1>1, <1>2 DEF Proposal
<1>4. QED
  BY <1>1, <1>2, <1>3 DEF CancelProposal, TypeOK, CanCancel

-----------------------------------------------------------------------------
\* The quorum.  ExecutedHadQuorum is not inductive: it says nothing of a pending
\* proposal, whose approvals the execution takes as they are.  The invariant
\* below says of every proposal that no approval is late or doubled.

ApprovalsSound(pr) ==
  /\ Len(pr.approvals) >= 1
  /\ pr.approvals[1].org = pr.proposedBy
  /\ \A i \in DOMAIN pr.approvals : pr.approvals[i].at <= pr.expiresAt
  /\ IsFiniteSet(ApprovingOrgs(pr))
  /\ Cardinality(ApprovingOrgs(pr)) = Len(pr.approvals)
  /\ pr.status = "EXECUTED" => HasQuorum(pr) /\ pr.executedAt <= pr.expiresAt

QuorumInv == \A p \in ProposalId : Exists(p) => ApprovalsSound(proposals[p])

LEMMA FirstApproval ==
  ASSUME NEW org \in Org, NEW a \in Action, NEW t \in Time
  PROVE  ApprovalsSound(
           [action |-> a, proposedBy |-> org, expiresAt |-> t + TTL,
            approvals |-> <<[org |-> org, at |-> t]>>, status |-> "PENDING",
            executedAt |-> Absent, result |-> Absent])
<1> DEFINE pr == [action |-> a, proposedBy |-> org, expiresAt |-> t + TTL,
                  approvals |-> <<[org |-> org, at |-> t]>>, status |-> "PENDING",
                  executedAt |-> Absent, result |-> Absent]
<1>1. /\ pr.approvals = <<[org |-> org, at |-> t]>>
      /\ pr.status = "PENDING"
      /\ pr.expiresAt = t + TTL
      /\ pr.proposedBy = org
  OBVIOUS
<1>2. DOMAIN pr.approvals = {1} /\ Len(pr.approvals) = 1 /\ pr.approvals[1].org = org
      /\ pr.approvals[1].at = t
  BY <1>1
<1>3. ApprovingOrgs(pr) = {org}
  BY <1>2 DEF ApprovingOrgs
<1>4. IsFiniteSet(ApprovingOrgs(pr)) /\ Cardinality(ApprovingOrgs(pr)) = 1
  BY <1>3, FS_Singleton
<1>5. t <= t + TTL
  BY ParametersAssumption DEF Time
<1> HIDE DEF pr
<1>6. QED
  BY <1>1, <1>2, <1>4, <1>5 DEF ApprovalsSound, pr

LEMMA NextApproval ==
  ASSUME NEW pr \in Proposal, ApprovalsSound(pr), pr.status = "PENDING",
         NEW org \in Org, org \notin ApprovingOrgs(pr),
         NEW t \in Time, t <= pr.expiresAt
  PROVE  ApprovalsSound(WithApproval(pr, org, t))
<1> DEFINE x == [org |-> org, at |-> t]
           qr == [pr EXCEPT !.approvals = Append(pr.approvals, x)]
           n == Len(pr.approvals)
<1>1. /\ pr.approvals \in Seq(Approval)
      /\ x \in Approval
      /\ n \in Nat
      /\ DOMAIN pr.approvals = 1 .. n
  BY DEF Proposal, Approval
<1>2. /\ qr.approvals = Append(pr.approvals, x)
      /\ qr.proposedBy = pr.proposedBy
      /\ qr.expiresAt = pr.expiresAt
      /\ qr.status = "PENDING"
  BY DEF Proposal
<1> HIDE DEF qr
<1>3. /\ Len(qr.approvals) = n + 1
      /\ DOMAIN qr.approvals = 1 .. (n + 1)
      /\ \A i \in 1 .. n : qr.approvals[i] = pr.approvals[i]
      /\ qr.approvals[n + 1] = x
  BY <1>1, <1>2
<1>4. ApprovingOrgs(qr) = ApprovingOrgs(pr) \cup {org}
  <2>1. ASSUME NEW o \in ApprovingOrgs(qr)
        PROVE  o \in ApprovingOrgs(pr) \cup {org}
    <3>1. PICK i \in 1 .. (n + 1) : o = qr.approvals[i].org
      BY <2>1, <1>3 DEF ApprovingOrgs
    <3>2. CASE i = n + 1
      BY <3>1, <3>2, <1>3
    <3>3. CASE i \in 1 .. n
      BY <3>1, <3>3, <1>1, <1>3 DEF ApprovingOrgs
    <3>4. QED
      BY <3>1, <3>2, <3>3, <1>1
  <2>2. ASSUME NEW o \in ApprovingOrgs(pr)
        PROVE  o \in ApprovingOrgs(qr)
    <3>1. PICK i \in 1 .. n : o = pr.approvals[i].org
      BY <2>2, <1>1 DEF ApprovingOrgs
    <3>2. i \in DOMAIN qr.approvals /\ qr.approvals[i].org = o
      BY <3>1, <1>1, <1>3
    <3>3. QED
      BY <3>2 DEF ApprovingOrgs
  <2>3. org \in ApprovingOrgs(qr)
    <3>1. n + 1 \in DOMAIN qr.approvals /\ qr.approvals[n + 1].org = org
      BY <1>1, <1>3
    <3>2. QED
      BY <3>1 DEF ApprovingOrgs
  <2>4. QED
    BY <2>1, <2>2, <2>3
<1>5. /\ IsFiniteSet(ApprovingOrgs(qr))
      /\ Cardinality(ApprovingOrgs(qr)) = n + 1
  BY <1>4, FS_AddElement DEF ApprovalsSound
<1>6. qr.approvals[1].org = qr.proposedBy /\ Len(qr.approvals) >= 1
  BY <1>1, <1>2, <1>3 DEF ApprovalsSound
<1>7. ASSUME NEW i \in DOMAIN qr.approvals
      PROVE  qr.approvals[i].at <= qr.expiresAt
  <2>1. CASE i = n + 1
    BY <2>1, <1>2, <1>3
  <2>2. CASE i \in 1 .. n
    BY <2>2, <1>1, <1>2, <1>3 DEF ApprovalsSound
  <2>3. QED
    BY <2>1, <2>2, <1>1, <1>3
<1>8. ApprovalsSound(qr)
  BY <1>2, <1>3, <1>5, <1>6, <1>7 DEF ApprovalsSound
<1>9. QED
  BY <1>8 DEF qr, WithApproval

LEMMA InitQuorum == Init => QuorumInv
  BY DEF Init, QuorumInv, Exists

LEMMA NextQuorum ==
  ASSUME TypeOK, QuorumInv, [Next]_vars
  PROVE  QuorumInv'
<1> SUFFICES ASSUME NEW q \in ProposalId, Exists(q)'
             PROVE  ApprovalsSound(proposals'[q])
  BY DEF QuorumInv, ApprovalsSound, ApprovingOrgs, HasQuorum
<1>1. CASE proposals'[q] = proposals[q]
  BY <1>1 DEF QuorumInv, Exists
<1>2. ASSUME NEW org \in Org, NEW p \in ProposalId, NEW a \in Action, NEW t \in TxTime,
             ProposeAction(org, p, a, t)
      PROVE  ApprovalsSound(proposals'[q])
  <2>1. CASE q = p
    <3>1. /\ t \in Time
          /\ proposals'[p] =
              [action |-> a, proposedBy |-> org, expiresAt |-> t + TTL,
               approvals |-> <<[org |-> org, at |-> t]>>, status |-> "PENDING",
               executedAt |-> Absent, result |-> Absent]
      BY <1>2, ProposeFacts
    <3>2. ApprovalsSound(proposals'[p])
      BY <3>1, FirstApproval, Zenon
    <3>3. QED
      BY <2>1, <3>2
  <2>2. CASE q # p
    BY <1>1, <1>2, <2>2, ProposeFacts
  <2>3. QED
    BY <2>1, <2>2
<1>3. ASSUME NEW org \in Org, NEW p \in ProposalId, NEW t \in TxTime,
             ApproveProposal(org, p, t)
      PROVE  ApprovalsSound(proposals'[q])
  <2>1. CASE q = p
    <3>1. ApprovalsSound(proposals[p])
      BY <1>3, ApproveFacts DEF QuorumInv
    <3>2. /\ t \in Time
          /\ proposals[p] \in Proposal
          /\ proposals[p].status = "PENDING"
          /\ t <= proposals[p].expiresAt
          /\ org \notin ApprovingOrgs(proposals[p])
          /\ proposals'[p] = [proposals[p] EXCEPT !.approvals =
               Append(proposals[p].approvals, [org |-> org, at |-> t])]
      BY <1>3, ApproveFacts
    <3>3. proposals'[p] = WithApproval(proposals[p], org, t)
      BY <3>2 DEF WithApproval
    <3>4. ApprovalsSound(WithApproval(proposals[p], org, t))
      BY <3>1, <3>2, NextApproval
    <3>5. QED
      BY <2>1, <3>3, <3>4
  <2>2. QED
    BY <1>1, <1>3, <2>1, ApproveFacts
<1>4. ASSUME NEW p \in ProposalId, NEW t \in TxTime, ExecuteProposal(p, t)
      PROVE  ApprovalsSound(proposals'[q])
  <2>1. CASE q = p
    <3>1. ApprovalsSound(proposals[p])
      BY <1>4, ExecuteFacts DEF QuorumInv
    <3>2. /\ proposals'[p].approvals = proposals[p].approvals
          /\ proposals'[p].proposedBy = proposals[p].proposedBy
          /\ proposals'[p].expiresAt = proposals[p].expiresAt
          /\ proposals'[p].executedAt = t
      <4>1. /\ proposals[p] \in Proposal
            /\ proposals'[p] =
                 [proposals[p] EXCEPT !.status = "EXECUTED", !.executedAt = t,
                    !.result = IF proposals[p].action.type = "MINT_ASSET"
                                 THEN assetCounter ELSE Absent]
        BY <1>4, ExecuteFacts
      <4>2. QED
        BY <4>1 DEF Proposal
    <3>3. HasQuorum(proposals[p]) /\ t <= proposals[p].expiresAt
      BY <1>4, ExecuteFacts
    <3>4. QED
      BY <2>1, <3>1, <3>2, <3>3 DEF ApprovalsSound, HasQuorum, ApprovingOrgs
  <2>2. QED
    BY <1>1, <1>4, <2>1, ExecuteFacts
<1>5. ASSUME NEW org \in Org, NEW p \in ProposalId, CancelProposal(org, p)
      PROVE  ApprovalsSound(proposals'[q])
  <2>1. CASE q = p
    <3>1. ApprovalsSound(proposals[p])
      BY <1>5, CancelFacts DEF QuorumInv
    <3>2. /\ proposals'[p].approvals = proposals[p].approvals
          /\ proposals'[p].proposedBy = proposals[p].proposedBy
          /\ proposals'[p].expiresAt = proposals[p].expiresAt
          /\ proposals'[p].status = "CANCELLED"
      <4>1. /\ proposals[p] \in Proposal
            /\ proposals'[p] = [proposals[p] EXCEPT !.status = "CANCELLED"]
        BY <1>5, CancelFacts
      <4>2. QED
        BY <4>1 DEF Proposal
    <3>3. QED
      BY <2>1, <3>1, <3>2 DEF ApprovalsSound, ApprovingOrgs
  <2>2. QED
    BY <1>1, <1>5, <2>1, CancelFacts
<1>6. ASSUME NEW d \in Did, NEW key \in Key, RegisterDID(d, key)
      PROVE  ApprovalsSound(proposals'[q])
  BY <1>1, <1>6 DEF RegisterDID
<1>7. CASE Tick
  BY <1>1, <1>7 DEF Tick
<1>8. CASE UNCHANGED vars
  BY <1>1, <1>8 DEF vars
<1>9. QED
  BY <1>2, <1>3, <1>4, <1>5, <1>6, <1>7, <1>8 DEF Next

\* No proposal takes effect without the approvals of a threshold of distinct
\* organizations, one approval each and none later than the proposal's expiry,
\* for any number of organizations, any threshold, lifetime and skew.
THEOREM ExecutionNeedsQuorum == Spec => []ExecutedHadQuorum
<1>1. QuorumInv => ExecutedHadQuorum
  BY DEF QuorumInv, ExecutedHadQuorum, ApprovalsSound, HasStatus
<1>2. TypeOK /\ QuorumInv /\ [Next]_vars => QuorumInv'
  BY NextQuorum
<1>3. QED
  BY InitQuorum, TypeCorrect, <1>1, <1>2, PTL DEF Spec

-----------------------------------------------------------------------------
\* What a step may do to the registries.

\* The keys that executing an action writes.
LEMMA DispatchNamesKeys ==
  ASSUME TypeOK, NEW a \in Action, NEW t \in Time, Dispatch(a, t)
  PROVE  /\ \A k \in RoleKey : roles'[k] # roles[k] => GovernsRole(a, k)
         /\ \A s \in StatusId : statuses'[s] # statuses[s] => GovernsStatus(a, s)
         /\ \A d \in Did : dids'[d] # dids[d] => GovernsDid(a, d)
         /\ \A i \in AssetId : assets'[i] # assets[i] => GovernsAsset(a, i)
<1> USE DEF TypeOK, GovernsRole, GovernsStatus, GovernsDid, GovernsAsset
<1>1. CASE a.type = "GRANT_ROLE" /\ GrantRoleWithExpiry(a.role, a.subject, a.expiry, t)
  BY <1>1 DEF GrantRoleWithExpiry, SetStatus, StatusWrite, RoleGrant, CanGrantUntil
<1>2. CASE a.type = "REVOKE_ROLE" /\ RevokeRoleEarly(a.role, a.subject)
  BY <1>2 DEF RevokeRoleEarly, SetStatus, StatusWrite, IsGranted
<1>3. CASE a.type = "MINT_ASSET" /\ Mint(a.owner)
  BY <1>3 DEF Mint
<1>4. CASE a.type = "TRANSFER_ASSET" /\ Transfer(a.asset, a.from, a.to)
  BY <1>4 DEF Transfer, IsOwner
<1>5. CASE a.type = "UPDATE_CONTROLLER" /\ UpdateDidController(a.did, a.key)
  BY <1>5 DEF UpdateDidController
<1>6. CASE /\ a.type = "SET_CREDENTIAL_STATUS"
           /\ SetStatus(a.status, a.revoked, a.expiry)
           /\ UNCHANGED <<dids, roles, assets, assetCounter>>
  BY <1>6 DEF SetStatus, StatusWrite
<1>7. QED
  BY <1>1, <1>2, <1>3, <1>4, <1>5, <1>6 DEF Dispatch

LEMMA ExecutionEnacts ==
  ASSUME TypeOK, NEW p \in ProposalId, NEW t \in TxTime, ExecuteProposal(p, t)
  PROVE  proposals[p].action \in Enacted
<1>1. /\ Exists(p)
      /\ proposals[p].status = "PENDING"
      /\ proposals[p].action \in Action
      /\ HasQuorum(proposals[p])
      /\ proposals'[p] # Absent
      /\ proposals'[p].status = "EXECUTED"
  BY ExecuteFacts
<1>2. Executes(p)
  BY <1>1 DEF Executes, HasStatus, Exists
<1>3. QED
  BY <1>1, <1>2 DEF Enacted

LEMMA StepsAreGoverned ==
  ASSUME TypeOK, [Next]_vars
  PROVE  GovernedWrites
<1>1. ASSUME NEW p \in ProposalId, NEW t \in TxTime, ExecuteProposal(p, t)
      PROVE  GovernedWrites
  <2>1. /\ t \in Time
        /\ proposals[p].action \in Action
        /\ Dispatch(proposals[p].action, t)
    BY <1>1, ExecuteFacts
  <2>2. proposals[p].action \in Enacted
    BY <1>1, ExecutionEnacts
  <2>3. QED
    BY <2>1, <2>2, DispatchNamesKeys DEF GovernedWrites
<1>2. ASSUME NEW d \in Did, NEW key \in Key, RegisterDID(d, key)
      PROVE  GovernedWrites
  BY <1>2 DEF RegisterDID, RegisterDid, GovernedWrites, TypeOK
<1>3. ASSUME UNCHANGED registries
      PROVE  GovernedWrites
  BY <1>3 DEF registries, GovernedWrites
<1>4. QED
  BY <1>1, <1>2, <1>3 DEF Next, vars, ProposeAction, ApproveProposal, CancelProposal,
     Tick, NewProposal, CanApprove, WithApproval, CanCancel

\* No step writes a role, a status, an asset or a registered DID except by
\* executing a proposal with its quorum that names what is written.
THEOREM OnlyGovernedWrites == Spec => WritesAreGoverned
<1>1. TypeOK /\ [Next]_vars => [GovernedWrites]_vars
  BY StepsAreGoverned
<1>2. QED
  BY <1>1, TypeCorrect, PTL DEF Spec, WritesAreGoverned

LEMMA StepsSettle ==
  ASSUME TypeOK, [Next]_vars
  PROVE  Settled
<1> SUFFICES ASSUME NEW q \in ProposalId, Exists(q)
             PROVE  /\ proposals[q].status # "PENDING" => proposals'[q] = proposals[q]
                    /\ proposals'[q].action = proposals[q].action
                    /\ \A i \in DOMAIN proposals[q].approvals :
                         proposals'[q].approvals[i] = proposals[q].approvals[i]
  BY DEF Settled
<1>1. CASE proposals'[q] = proposals[q]
  BY <1>1
<1>2. ASSUME NEW org \in Org, NEW t \in TxTime, ApproveProposal(org, q, t)
      PROVE  /\ proposals[q].status = "PENDING"
             /\ proposals'[q].action = proposals[q].action
             /\ \A i \in DOMAIN proposals[q].approvals :
                  proposals'[q].approvals[i] = proposals[q].approvals[i]
  <2>1. /\ proposals[q] \in Proposal
        /\ proposals[q].status = "PENDING"
        /\ proposals'[q] = [proposals[q] EXCEPT !.approvals =
               Append(proposals[q].approvals, [org |-> org, at |-> t])]
    BY <1>2, ApproveFacts
  <2>2. /\ proposals'[q].action = proposals[q].action
        /\ proposals'[q].approvals =
             Append(proposals[q].approvals, [org |-> org, at |-> t])
    BY <2>1 DEF Proposal
  <2>3. proposals[q].approvals \in Seq(Approval)
    BY <2>1 DEF Proposal
  <2>4. QED
    BY <2>1, <2>2, <2>3
<1>3. ASSUME NEW t \in TxTime, ExecuteProposal(q, t)
      PROVE  /\ proposals[q].status = "PENDING"
             /\ proposals'[q].action = proposals[q].action
             /\ proposals'[q].approvals = proposals[q].approvals
  <2>1. /\ proposals[q] \in Proposal
        /\ proposals[q].status = "PENDING"
        /\ proposals'[q] =
             [proposals[q] EXCEPT !.status = "EXECUTED", !.executedAt = t,
                !.result = IF proposals[q].action.type = "MINT_ASSET"
                             THEN assetCounter ELSE Absent]
    BY <1>3, ExecuteFacts
  <2>2. QED
    BY <2>1 DEF Proposal
<1>4. ASSUME NEW org \in Org, CancelProposal(org, q)
      PROVE  /\ proposals[q].status = "PENDING"
             /\ proposals'[q].action = proposals[q].action
             /\ proposals'[q].approvals = proposals[q].approvals
  <2>1. /\ proposals[q] \in Proposal
        /\ proposals[q].status = "PENDING"
        /\ proposals'[q] = [proposals[q] EXCEPT !.status = "CANCELLED"]
    BY <1>4, CancelFacts
  <2>2. QED
    BY <2>1 DEF Proposal
<1>5. \/ proposals'[q] = proposals[q]
      \/ \E org \in Org, t \in TxTime : ApproveProposal(org, q, t)
      \/ \E t \in TxTime : ExecuteProposal(q, t)
      \/ \E org \in Org : CancelProposal(org, q)
  BY DEF Next, vars, TypeOK, ProposeAction, ApproveProposal, ExecuteProposal,
     CancelProposal, RegisterDID, Tick, NewProposal, CanApprove, WithApproval,
     CanExecute, AsExecuted, CanCancel
<1>6. QED
  BY <1>1, <1>2, <1>3, <1>4, <1>5

\* Whatever else happens, a proposal that was executed or cancelled stays as it
\* was, and a pending one keeps its action and the approvals it has.
THEOREM SettledStays == Spec => SettledIsFinal
<1>1. TypeOK /\ [Next]_vars => [Settled]_vars
  BY StepsSettle
<1>2. QED
  BY <1>1, TypeCorrect, PTL DEF Spec, SettledIsFinal

-----------------------------------------------------------------------------
\* Roles: where they come from, and what the status registry says of them.

LEMMA ExecutedStays ==
  ASSUME TypeOK, [Next]_vars, NEW q \in ProposalId, HasStatus(q, "EXECUTED")
  PROVE  HasStatus(q, "EXECUTED")' /\ proposals'[q] = proposals[q]
<1>1. Exists(q) /\ proposals[q].status # "PENDING"
  BY DEF HasStatus
<1>2. proposals'[q] = proposals[q]
  BY <1>1, StepsSettle DEF Settled
<1>3. QED
  BY <1>1, <1>2 DEF HasStatus, Exists

\* The role and status registries change only in an execution.
LEMMA OthersKeepRoles ==
  ASSUME [Next]_vars, \A p \in ProposalId, t \in TxTime : ~ExecuteProposal(p, t)
  PROVE  UNCHANGED <<roles, statuses>>
  BY DEF Next, vars, registries, ProposeAction, ApproveProposal, CancelProposal,
     RegisterDID, RegisterDid, Tick, NewProposal, CanApprove, WithApproval, CanCancel

GrantedBy(p, r, s, expiry) ==
  /\ HasStatus(p, "EXECUTED")
  /\ proposals[p].action.type = "GRANT_ROLE"
  /\ proposals[p].action.role = r
  /\ proposals[p].action.subject = s
  /\ proposals[p].action.expiry = expiry
  /\ expiry > proposals[p].executedAt
  /\ proposals[p].executedAt \in Time

\* Strengthens ActiveRoleWasGranted: it holds of revoked roles as well, whose
\* records a later step may still read.
RolesTrace ==
  \A r \in RoleId, s \in Did : roles[<<r, s>>] # Absent =>
    \E p \in ProposalId : GrantedBy(p, r, s, roles[<<r, s>>].expiry)

LEMMA NextRolesTrace ==
  ASSUME TypeOK, RolesTrace, [Next]_vars
  PROVE  RolesTrace'
<1> SUFFICES ASSUME NEW r \in RoleId, NEW s \in Did, roles'[<<r, s>>] # Absent
             PROVE  \E p \in ProposalId : GrantedBy(p, r, s, roles[<<r, s>>].expiry)'
  BY DEF RolesTrace
<1>0. <<r, s>> \in RoleKey
  BY DEF RoleKey
<1>1. CASE roles[<<r, s>>] # Absent /\ roles'[<<r, s>>].expiry = roles[<<r, s>>].expiry
  <2>1. PICK p \in ProposalId : GrantedBy(p, r, s, roles[<<r, s>>].expiry)
    BY <1>1 DEF RolesTrace
  <2>2. roles[<<r, s>>].expiry \in Nat
    BY <1>0, <1>1 DEF TypeOK, RoleRecord
  <2>3. GrantedBy(p, r, s, roles[<<r, s>>].expiry)'
    BY <1>1, <2>1, <2>2, ExecutedStays DEF GrantedBy
  <2>4. QED
    BY <2>3
<1>2. ASSUME NEW p \in ProposalId, NEW t \in TxTime, ExecuteProposal(p, t),
             roles'[<<r, s>>] # roles[<<r, s>>]
      PROVE  \/ roles[<<r, s>>] # Absent /\ roles'[<<r, s>>].expiry = roles[<<r, s>>].expiry
             \/ GrantedBy(p, r, s, roles[<<r, s>>].expiry)'
  <2> DEFINE a == proposals[p].action
  <2>1. /\ t \in Time
        /\ a \in Action
        /\ Dispatch(a, t)
        /\ proposals'[p] # Absent
        /\ proposals'[p].status = "EXECUTED"
        /\ proposals'[p].executedAt = t
        /\ proposals'[p].action = a
    BY <1>2, ExecuteFacts
  <2>2. a \in PrivilegedAction
    BY <2>1, ActionAssumption
  <2>3. GovernsRole(a, <<r, s>>)
    BY <1>0, <1>2, <2>1, DispatchNamesKeys
  <2> HIDE DEF a
  <2>4. a.role = r /\ a.subject = s
    BY <2>3 DEF GovernsRole
  <2>5. CASE a.type = "GRANT_ROLE"
    <3>1. GrantRoleWithExpiry(r, s, a.expiry, t)
      BY <2>1, <2>4, <2>5 DEF Dispatch
    <3>2. roles'[<<r, s>>] = [expiry |-> a.expiry, granted |-> TRUE] /\ a.expiry > t
      BY <1>0, <3>1 DEF GrantRoleWithExpiry, TypeOK, RoleGrant, CanGrantUntil
    <3>3. GrantedBy(p, r, s, roles[<<r, s>>].expiry)'
      BY <2>1, <2>4, <2>5, <3>2 DEF GrantedBy, HasStatus, Exists
    <3>4. QED
      BY <3>3
  <2>6. CASE a.type = "REVOKE_ROLE"
    <3>1. RevokeRoleEarly(r, s)
      BY <2>1, <2>4, <2>6 DEF Dispatch
    <3>2. roles[<<r, s>>] # Absent /\ roles[<<r, s>>] \in RoleRecord
      BY <1>0, <3>1 DEF RevokeRoleEarly, TypeOK, IsGranted
    <3>3. roles'[<<r, s>>] = [roles[<<r, s>>] EXCEPT !.granted = FALSE]
      BY <1>0, <3>1 DEF RevokeRoleEarly, TypeOK, IsGranted
    <3>4. roles'[<<r, s>>].expiry = roles[<<r, s>>].expiry
      BY <3>2, <3>3 DEF RoleRecord
    <3>5. QED
      BY <3>2, <3>4
  <2>7. QED
    BY <2>3, <2>5, <2>6 DEF GovernsRole
<1>3. CASE roles'[<<r, s>>] = roles[<<r, s>>]
  BY <1>1, <1>3
<1>4. CASE roles'[<<r, s>>] # roles[<<r, s>>]
  <2>1. PICK p \in ProposalId, t \in TxTime : ExecuteProposal(p, t)
    BY <1>4, OthersKeepRoles
  <2>2. QED
    BY <1>1, <1>2, <1>4, <2>1
<1>5. QED
  BY <1>3, <1>4

\* No role is ever reported active, at whatever time it is asked for, that no
\* executed proposal granted to that subject for at least that time.
THEOREM RolesComeFromGrants == Spec => []ActiveRoleWasGranted
<1>1. Init => RolesTrace
  BY DEF Init, RolesTrace, RoleKey
<1>2. TypeOK /\ RolesTrace /\ [Next]_vars => RolesTrace'
  BY NextRolesTrace
<1>3. TypeOK /\ RolesTrace => ActiveRoleWasGranted
  <2> SUFFICES ASSUME TypeOK, RolesTrace, NEW r \in RoleId, NEW s \in Did, NEW t \in Time,
                      HasActiveRole(r, s, t)
               PROVE  \E p \in ProposalId :
                        /\ HasStatus(p, "EXECUTED")
                        /\ proposals[p].action.type = "GRANT_ROLE"
                        /\ proposals[p].action.role = r
                        /\ proposals[p].action.subject = s
                        /\ proposals[p].action.expiry >= t
                        /\ proposals[p].action.expiry > proposals[p].executedAt
    BY DEF ActiveRoleWasGranted
  <2> DEFINE e == roles[<<r, s>>].expiry
  <2>1. roles[<<r, s>>] # Absent /\ ~(e # 0 /\ t > e)
    BY DEF HasActiveRole
  <2>2. e \in Nat
    BY <2>1 DEF TypeOK, RoleKey, RoleRecord
  <2>3. PICK p \in ProposalId : GrantedBy(p, r, s, e)
    BY <2>1 DEF RolesTrace
  <2> HIDE DEF e
  <2>4. e # 0 /\ e >= t
    BY <2>1, <2>2, <2>3 DEF GrantedBy, Time
  <2>5. QED
    BY <2>3, <2>4 DEF GrantedBy
<1>4. QED
  BY TypeCorrect, <1>1, <1>2, <1>3, PTL DEF Spec

LEMMA WrittenRecords ==
  ASSUME NEW e \in Nat, NEW b \in BOOLEAN
  PROVE  /\ [expiry |-> e, granted |-> b] # Absent
         /\ [revoked |-> b, expiry |-> e] # Absent
<1>1. [expiry |-> e, granted |-> b] \in RoleRecord
  BY DEF RoleRecord
<1>2. [revoked |-> b, expiry |-> e] \in StatusRecord
  BY DEF StatusRecord
<1>3. QED
  BY <1>1, <1>2, AbsentAssumption

StatusOverridden(r, s) ==
  \E p \in ProposalId :
    /\ HasStatus(p, "EXECUTED")
    /\ proposals[p].action.type = "SET_CREDENTIAL_STATUS"
    /\ proposals[p].action.status = StatusIdFor(r, s)

InStep(r, s) ==
  \/ /\ roles[<<r, s>>] = Absent
     /\ statuses[StatusIdFor(r, s)] = Absent
  \/ /\ roles[<<r, s>>] # Absent
     /\ statuses[StatusIdFor(r, s)] =
          [revoked |-> ~roles[<<r, s>>].granted, expiry |-> roles[<<r, s>>].expiry]

LEMMA NextInStep ==
  ASSUME TypeOK, RegistriesInStep, [Next]_vars, NEW r \in RoleId, NEW s \in Did
  PROVE  (StatusOverridden(r, s) \/ InStep(r, s))'
<1>0. <<r, s>> \in RoleKey /\ StatusIdFor(r, s) \in StatusId
  BY DEF RoleKey, StatusId
<1>1. CASE StatusOverridden(r, s)
  <2>1. PICK p \in ProposalId :
          /\ HasStatus(p, "EXECUTED")
          /\ proposals[p].action.type = "SET_CREDENTIAL_STATUS"
          /\ proposals[p].action.status = StatusIdFor(r, s)
    BY <1>1 DEF StatusOverridden
  <2>2. HasStatus(p, "EXECUTED")' /\ proposals'[p] = proposals[p]
    BY <2>1, ExecutedStays
  <2>3. QED
    BY <2>1, <2>2 DEF StatusOverridden, StatusIdFor
<1>2. CASE /\ roles'[<<r, s>>] = roles[<<r, s>>]
           /\ statuses'[StatusIdFor(r, s)] = statuses[StatusIdFor(r, s)]
           /\ InStep(r, s)
  BY <1>2 DEF InStep, StatusIdFor
<1>3. ASSUME InStep(r, s), NEW p \in ProposalId, NEW t \in TxTime, ExecuteProposal(p, t),
             \/ roles'[<<r, s>>] # roles[<<r, s>>]
             \/ statuses'[StatusIdFor(r, s)] # statuses[StatusIdFor(r, s)]
      PROVE  (StatusOverridden(r, s) \/ InStep(r, s))'
  <2> DEFINE a == proposals[p].action
  <2>1. /\ t \in Time
        /\ a \in Action
        /\ Dispatch(a, t)
        /\ proposals'[p] # Absent
        /\ proposals'[p].status = "EXECUTED"
        /\ proposals'[p].action = a
    BY <1>3, ExecuteFacts
  <2>2. a \in PrivilegedAction
    BY <2>1, ActionAssumption
  <2>3. GovernsRole(a, <<r, s>>) \/ GovernsStatus(a, StatusIdFor(r, s))
    BY <1>0, <1>3, <2>1, DispatchNamesKeys
  <2>4. a.type = "GRANT_ROLE" => a.expiry \in Nat
    BY <2>2 DEF PrivilegedAction, GrantRole, RevokeRole, MintAsset, TransferAsset,
       UpdateController, SetCredentialStatus
  <2> HIDE DEF a
  <2>5. CASE a.type = "SET_CREDENTIAL_STATUS"
    <3>1. a.status = StatusIdFor(r, s)
      BY <2>3, <2>5 DEF GovernsRole, GovernsStatus
    <3>2. QED
      BY <2>1, <2>5, <3>1 DEF StatusOverridden, HasStatus, Exists, StatusIdFor
  <2>6. CASE a.type = "GRANT_ROLE"
    <3>1. a.role = r /\ a.subject = s
      BY <2>3, <2>6 DEF GovernsRole, GovernsStatus, StatusIdFor
    <3>2. GrantRoleWithExpiry(r, s, a.expiry, t)
      BY <2>1, <2>6, <3>1 DEF Dispatch
    <3>3. roles'[<<r, s>>] = [expiry |-> a.expiry, granted |-> TRUE]
      BY <1>0, <3>2 DEF GrantRoleWithExpiry, TypeOK, RoleGrant, CanGrantUntil
    <3>4. a.expiry # Absent
      BY <2>4, <2>6, AbsentAssumption
    <3>5. statuses'[StatusIdFor(r, s)] = [revoked |-> FALSE, expiry |-> a.expiry]
      BY <1>0, <3>2, <3>4 DEF GrantRoleWithExpiry, SetStatus, TypeOK, StatusWrite,
         RoleGrant, CanGrantUntil
    <3>6. roles'[<<r, s>>] # Absent
      BY <3>3, <2>4, <2>6, WrittenRecords
    <3>7. /\ roles'[<<r, s>>].granted = TRUE
          /\ roles'[<<r, s>>].expiry = a.expiry
      BY <3>3
    <3>8. statuses'[StatusIdFor(r, s)] =
            [revoked |-> ~roles'[<<r, s>>].granted, expiry |-> roles'[<<r, s>>].expiry]
      BY <3>5, <3>7
    <3>9. QED
      BY <3>6, <3>8 DEF InStep, StatusIdFor
  <2>7. CASE a.type = "REVOKE_ROLE"
    <3>1. a.role = r /\ a.subject = s
      BY <2>3, <2>7 DEF GovernsRole, GovernsStatus, StatusIdFor
    <3>2. RevokeRoleEarly(r, s)
      BY <2>1, <2>7, <3>1 DEF Dispatch
    <3> DEFINE e == roles[<<r, s>>].expiry
    <3>3. roles[<<r, s>>] # Absent /\ roles[<<r, s>>] \in RoleRecord /\ e \in Nat
      BY <1>0, <3>2 DEF RevokeRoleEarly, TypeOK, RoleRecord, IsGranted
    <3>4. roles'[<<r, s>>] = [roles[<<r, s>>] EXCEPT !.granted = FALSE]
      BY <1>0, <3>2 DEF RevokeRoleEarly, TypeOK, IsGranted
    <3>5. roles'[<<r, s>>].granted = FALSE /\ roles'[<<r, s>>].expiry = e
      BY <3>3, <3>4 DEF RoleRecord
    <3>6. roles'[<<r, s>>] # Absent
      BY <3>3, <3>4, AbsentAssumption DEF RoleRecord
    <3>7. statuses[StatusIdFor(r, s)] = [revoked |-> ~roles[<<r, s>>].granted, expiry |-> e]
      BY <1>3, <3>3 DEF InStep
    <3>8. statuses[StatusIdFor(r, s)] # Absent
      <4>1. (~roles[<<r, s>>].granted) \in BOOLEAN
        OBVIOUS
      <4>2. QED
        BY <3>3, <3>7, <4>1, WrittenRecords
    <3>9. statuses'[StatusIdFor(r, s)] = [revoked |-> TRUE, expiry |-> e]
      <4>1. SetStatus(StatusIdFor(r, s), TRUE, Absent)
        BY <3>2 DEF RevokeRoleEarly, IsGranted
      <4>2. statuses[StatusIdFor(r, s)].expiry = e
        BY <3>7
      <4>3. QED
        BY <1>0, <3>8, <4>1, <4>2 DEF SetStatus, TypeOK, StatusWrite
    <3>10. QED
      BY <3>5, <3>6, <3>9 DEF InStep, StatusIdFor
  <2>8. QED
    BY <2>3, <2>5, <2>6, <2>7 DEF GovernsRole, GovernsStatus
<1>4. StatusOverridden(r, s) \/ InStep(r, s)
  BY DEF RegistriesInStep, StatusOverridden, InStep
<1>5. QED
  BY <1>1, <1>2, <1>3, <1>4, OthersKeepRoles

\* Through any sequence of grants, early revocations and regrants, of any number
\* of roles and subjects, the two registries that hasActiveRole reads agree on a
\* role until a SET_CREDENTIAL_STATUS addresses the role's own status id.
THEOREM RegistriesStayInStep == Spec => []RegistriesInStep
<1>1. Init => RegistriesInStep
  BY DEF Init, RegistriesInStep, RoleKey, StatusId
<1>2. TypeOK /\ RegistriesInStep /\ [Next]_vars => RegistriesInStep'
  BY NextInStep DEF RegistriesInStep, StatusOverridden, InStep
<1>3. QED
  BY TypeCorrect, <1>1, <1>2, PTL DEF Spec

\* Becoming active takes a grant or the reinstatement of the role's status.
LEMMA StepsActivate ==
  ASSUME TypeOK, [Next]_vars
  PROVE  GovernedActivation
<1> SUFFICES ASSUME NEW r \in RoleId, NEW s \in Did, NEW u \in Time,
                    ~HasActiveRole(r, s, u), HasActiveRole(r, s, u)'
             PROVE  \E a \in Enacted : Activates(a, r, s)
  BY DEF GovernedActivation
<1>0. <<r, s>> \in RoleKey /\ StatusIdFor(r, s) \in StatusId
  BY DEF RoleKey, StatusId
<1>1. \/ roles'[<<r, s>>] # roles[<<r, s>>]
      \/ statuses'[StatusIdFor(r, s)] # statuses[StatusIdFor(r, s)]
  BY DEF HasActiveRole, IsRevoked, StatusIdFor
<1>2. PICK p \in ProposalId, t \in TxTime : ExecuteProposal(p, t)
  BY <1>1, OthersKeepRoles
<1> DEFINE a == proposals[p].action
<1>3. t \in Time /\ a \in Action /\ Dispatch(a, t)
  BY <1>2, ExecuteFacts
<1>4. a \in Enacted
  BY <1>2, ExecutionEnacts
<1>5. GovernsRole(a, <<r, s>>) \/ GovernsStatus(a, StatusIdFor(r, s))
  BY <1>0, <1>1, <1>3, DispatchNamesKeys
<1> HIDE DEF a
<1>6. CASE a.type = "GRANT_ROLE"
  BY <1>4, <1>5, <1>6 DEF GovernsRole, GovernsStatus, Activates, StatusIdFor
<1>7. CASE a.type = "REVOKE_ROLE"
  <2>1. a.role = r /\ a.subject = s
    BY <1>5, <1>7 DEF GovernsRole, GovernsStatus, StatusIdFor
  <2>2. RevokeRoleEarly(r, s)
    BY <1>3, <1>7, <2>1 DEF Dispatch
  <2>3. roles[<<r, s>>] \in RoleRecord
    BY <1>0, <2>2 DEF RevokeRoleEarly, TypeOK, IsGranted
  <2>4. roles'[<<r, s>>] = [roles[<<r, s>>] EXCEPT !.granted = FALSE]
    BY <1>0, <2>2 DEF RevokeRoleEarly, TypeOK, IsGranted
  <2>5. roles'[<<r, s>>].granted = FALSE
    BY <2>3, <2>4 DEF RoleRecord
  <2>6. QED
    BY <2>5 DEF HasActiveRole
<1>8. CASE a.type = "SET_CREDENTIAL_STATUS"
  <2>1. a.status = StatusIdFor(r, s)
    BY <1>5, <1>8 DEF GovernsRole, GovernsStatus
  <2>2. SetStatus(a.status, a.revoked, a.expiry) /\ a \in PrivilegedAction
    BY <1>3, <1>8, ActionAssumption DEF Dispatch
  <2>3. a.revoked \in BOOLEAN
    BY <1>8, <2>2 DEF PrivilegedAction, GrantRole, RevokeRole, MintAsset, TransferAsset,
       UpdateController, SetCredentialStatus
  <2>4. statuses'[StatusIdFor(r, s)].revoked = a.revoked
    BY <1>0, <2>1, <2>2 DEF SetStatus, TypeOK, StatusWrite
  <2>5. CASE a.revoked
    <3>1. TypeOK'
      BY NextType
    <3>2. statuses'[StatusIdFor(r, s)] # Absent
      <4> DEFINE rec == statuses'[StatusIdFor(r, s)]
                 kept == IF statuses[a.status] = Absent THEN 0 ELSE statuses[a.status].expiry
      <4>1. kept \in Nat
        BY <1>0, <2>1 DEF TypeOK, StatusRecord
      <4>2. a.expiry \in Nat \cup {Absent}
        BY <1>8, <2>2 DEF PrivilegedAction, GrantRole, RevokeRole, MintAsset,
           TransferAsset, UpdateController, SetCredentialStatus
      <4>3. rec = [revoked |-> a.revoked,
                   expiry |-> IF a.expiry = Absent THEN kept ELSE a.expiry]
        BY <1>0, <2>1, <2>2 DEF SetStatus, TypeOK, StatusWrite
      <4>4. rec \in StatusRecord
        BY <2>3, <4>1, <4>2, <4>3 DEF StatusRecord
      <4>5. QED
        BY <4>4, AbsentAssumption
    <3>3. QED
      BY <2>4, <2>5, <3>2 DEF HasActiveRole, IsRevoked, StatusIdFor
  <2>6. CASE ~a.revoked
    BY <1>4, <1>8, <2>1, <2>6 DEF Activates
  <2>7. QED
    BY <2>5, <2>6
<1>9. QED
  BY <1>5, <1>6, <1>7, <1>8 DEF GovernsRole, GovernsStatus

\* A role that is not active, revoked or never granted, becomes active only by
\* a grant of that role or by a decision that addresses its status id, each with
\* its quorum.
THEOREM OnlyGovernedActivation == Spec => ActivationIsGoverned
<1>1. TypeOK /\ [Next]_vars => [GovernedActivation]_vars
  BY StepsActivate
<1>2. QED
  BY <1>1, TypeCorrect, PTL DEF Spec, ActivationIsGoverned

-----------------------------------------------------------------------------
\* Asset ids.

\* Strengthens MintsMatchCounter: the ids handed out lie below the counter, so
\* the next one is new.
MintsInv ==
  /\ MintsMatchCounter
  /\ \A p \in ExecutedMints : proposals[p].result \in 0 .. (assetCounter - 1)

LEMMA MintsAreFinite == IsFiniteSet(ExecutedMints)
  BY ParametersAssumption, FS_Subset DEF ExecutedMints

\* Only an execution makes a proposal executed.
LEMMA OthersExecuteNothing ==
  ASSUME TypeOK, [Next]_vars, \A p \in ProposalId, t \in TxTime : ~ExecuteProposal(p, t),
         NEW q \in ProposalId, HasStatus(q, "EXECUTED")'
  PROVE  proposals'[q] = proposals[q]
<1>1. ASSUME NEW org \in Org, NEW p \in ProposalId, NEW a \in Action, NEW t \in TxTime,
             ProposeAction(org, p, a, t)
      PROVE  proposals'[q] = proposals[q]
  <2>1. proposals'[p].status = "PENDING"
    <3>1. proposals'[p] =
            [action |-> a, proposedBy |-> org, expiresAt |-> t + TTL,
             approvals |-> <<[org |-> org, at |-> t]>>, status |-> "PENDING",
             executedAt |-> Absent, result |-> Absent]
      BY <1>1, ProposeFacts
    <3>2. QED
      BY <3>1
  <2>2. QED
    BY <1>1, <2>1, ProposeFacts DEF HasStatus
<1>2. ASSUME NEW org \in Org, NEW p \in ProposalId, NEW t \in TxTime,
             ApproveProposal(org, p, t)
      PROVE  proposals'[q] = proposals[q]
  <2>1. CASE q = p
    <3>1. /\ proposals[p] \in Proposal
          /\ proposals[p].status = "PENDING"
          /\ proposals'[p] = [proposals[p] EXCEPT !.approvals =
               Append(proposals[p].approvals, [org |-> org, at |-> t])]
      BY <1>2, ApproveFacts
    <3>2. proposals'[p].status = "PENDING"
      BY <3>1 DEF Proposal
    <3>3. QED
      BY <2>1, <3>2 DEF HasStatus
  <2>2. QED
    BY <1>2, <2>1, ApproveFacts
<1>3. ASSUME NEW org \in Org, NEW p \in ProposalId, CancelProposal(org, p)
      PROVE  proposals'[q] = proposals[q]
  BY <1>3, CancelFacts DEF HasStatus
<1>4. QED
  BY <1>1, <1>2, <1>3 DEF Next, vars, RegisterDID, Tick

LEMMA OthersKeepAssets ==
  ASSUME TypeOK, [Next]_vars, \A p \in ProposalId, t \in TxTime : ~ExecuteProposal(p, t)
  PROVE  /\ UNCHANGED <<assets, assetCounter>>
         /\ ExecutedMints' = ExecutedMints
         /\ \A p \in ExecutedMints : proposals'[p] = proposals[p]
<1>1. UNCHANGED <<assets, assetCounter>>
  BY DEF Next, vars, registries, ProposeAction, ApproveProposal, CancelProposal,
     RegisterDID, RegisterDid, Tick, NewProposal, CanApprove, WithApproval, CanCancel
<1>2. ASSUME NEW q \in ProposalId, HasStatus(q, "EXECUTED")'
      PROVE  proposals'[q] = proposals[q]
  BY <1>2, OthersExecuteNothing
<1>3. ASSUME NEW q \in ExecutedMints
      PROVE  q \in ExecutedMints' /\ proposals'[q] = proposals[q]
  BY <1>3, ExecutedStays DEF ExecutedMints
<1>4. ASSUME NEW q \in ExecutedMints'
      PROVE  q \in ExecutedMints
  BY <1>4, <1>2 DEF ExecutedMints, HasStatus, Exists
<1>5. QED
  BY <1>1, <1>3, <1>4

LEMMA ExecutionMints ==
  ASSUME TypeOK, NEW p \in ProposalId, NEW t \in TxTime, ExecuteProposal(p, t)
  PROVE  /\ p \notin ExecutedMints
         /\ ExecutedMints' = IF proposals[p].action.type = "MINT_ASSET"
                               THEN ExecutedMints \cup {p} ELSE ExecutedMints
         /\ \A q \in ExecutedMints : proposals'[q] = proposals[q]
         /\ proposals[p].action.type = "MINT_ASSET" => proposals'[p].result = assetCounter
<1>1. /\ proposals[p] \in Proposal
      /\ proposals[p].status = "PENDING"
      /\ proposals'[p] # Absent
      /\ proposals'[p].status = "EXECUTED"
      /\ proposals'[p].action = proposals[p].action
      /\ \A q \in ProposalId \ {p} : proposals'[q] = proposals[q]
  BY ExecuteFacts
<1>2. proposals'[p] = [proposals[p] EXCEPT !.status = "EXECUTED", !.executedAt = t,
              !.result = IF proposals[p].action.type = "MINT_ASSET"
                           THEN assetCounter ELSE Absent]
  BY ExecuteFacts
<1>3. proposals[p].action.type = "MINT_ASSET" => proposals'[p].result = assetCounter
  BY <1>1, <1>2 DEF Proposal
<1>4. p \notin ExecutedMints
  BY <1>1 DEF ExecutedMints, HasStatus
<1>5. p \in ExecutedMints' <=> proposals[p].action.type = "MINT_ASSET"
  BY <1>1 DEF ExecutedMints, HasStatus, Exists
<1>6. \A q \in ProposalId \ {p} : q \in ExecutedMints' <=> q \in ExecutedMints
  BY <1>1 DEF ExecutedMints, HasStatus, Exists
<1>7. ExecutedMints \subseteq ProposalId /\ ExecutedMints' \subseteq ProposalId
  BY DEF ExecutedMints
<1>8. QED
  BY <1>1, <1>3, <1>4, <1>5, <1>6, <1>7

LEMMA NextMints ==
  ASSUME TypeOK, MintsInv, [Next]_vars
  PROVE  MintsInv'
<1>1. CASE \A p \in ProposalId, t \in TxTime : ~ExecuteProposal(p, t)
  BY <1>1, OthersKeepAssets DEF MintsInv, MintsMatchCounter
<1>2. ASSUME NEW p \in ProposalId, NEW t \in TxTime, ExecuteProposal(p, t)
      PROVE  MintsInv'
  <2> DEFINE a == proposals[p].action
  <2>1. t \in Time /\ a \in Action /\ Dispatch(a, t)
    BY <1>2, ExecuteFacts
  <2>2. /\ p \notin ExecutedMints
        /\ ExecutedMints' = IF a.type = "MINT_ASSET"
                              THEN ExecutedMints \cup {p} ELSE ExecutedMints
        /\ \A q \in ExecutedMints : proposals'[q] = proposals[q]
        /\ a.type = "MINT_ASSET" => proposals'[p].result = assetCounter
    BY <1>2, ExecutionMints
  <2>3. a \in PrivilegedAction
    BY <2>1, ActionAssumption
  <2> HIDE DEF a
  <2>4. CASE a.type = "MINT_ASSET"
    <3>1. Mint(a.owner)
      BY <2>1, <2>4 DEF Dispatch
    <3>2. /\ assetCounter \in Nat
          /\ assetCounter \in AssetId
          /\ assetCounter' = assetCounter + 1
          /\ assets' = [assets EXCEPT ![assetCounter] = [owner |-> a.owner]]
      BY <3>1, ParametersAssumption DEF Mint, TypeOK, AssetId
    <3>3. a.owner \in Did
      BY <2>3, <2>4 DEF PrivilegedAction, GrantRole, RevokeRole, MintAsset,
         TransferAsset, UpdateController, SetCredentialStatus
    <3>4. [owner |-> a.owner] # Absent
      BY <3>3, AbsentAssumption DEF AssetRecord
    <3>5. \A i \in AssetId : assets'[i] # Absent <=> i < assetCounter'
      BY <3>2, <3>4 DEF MintsInv, MintsMatchCounter, AssetId, TypeOK
    <3>6. ExecutedMints' = ExecutedMints \cup {p}
      BY <2>2, <2>4
    <3>7. Cardinality(ExecutedMints') = assetCounter'
      <4>1. Cardinality(ExecutedMints \cup {p}) = Cardinality(ExecutedMints) + 1
        BY <2>2, MintsAreFinite, FS_AddElement
      <4>2. Cardinality(ExecutedMints) = assetCounter
        BY DEF MintsInv, MintsMatchCounter
      <4>3. QED
        BY <3>2, <3>6, <4>1, <4>2
    <3>8. \A q \in ExecutedMints : /\ proposals'[q].result = proposals[q].result
                                   /\ proposals'[q].result \in 0 .. (assetCounter - 1)
      BY <2>2 DEF MintsInv
    <3>9. proposals'[p].result = assetCounter
      BY <2>2, <2>4
    <3>10. \A q \in ExecutedMints' : proposals'[q].result \in 0 .. (assetCounter' - 1)
      BY <3>2, <3>6, <3>8, <3>9
    <3>11. \A q, u \in ExecutedMints' : proposals'[q].result = proposals'[u].result => q = u
      BY <3>2, <3>6, <3>8, <3>9 DEF MintsInv, MintsMatchCounter
    <3>12. QED
      BY <3>5, <3>7, <3>10, <3>11 DEF MintsInv, MintsMatchCounter
  <2>5. CASE a.type # "MINT_ASSET"
    <3>1. ExecutedMints' = ExecutedMints
      BY <2>2, <2>5
    <3>2. assetCounter' = assetCounter
      BY <2>1, <2>5 DEF Dispatch, GrantRoleWithExpiry, RevokeRoleEarly, Transfer,
         UpdateDidController, RoleGrant, CanGrantUntil, IsGranted, IsOwner
    <3>3. \A i \in AssetId : assets'[i] # Absent <=> assets[i] # Absent
      <4>1. CASE assets' = assets
        BY <4>1
      <4>2. CASE Transfer(a.asset, a.from, a.to) /\ a.type = "TRANSFER_ASSET"
        <5>1. a.asset \in AssetId /\ a.to \in Did
          BY <2>3, <4>2 DEF PrivilegedAction, GrantRole, RevokeRole, MintAsset,
             TransferAsset, UpdateController, SetCredentialStatus
        <5>2. assets[a.asset] \in AssetRecord
          BY <4>2, <5>1 DEF Transfer, TypeOK, IsOwner
        <5>3. [assets[a.asset] EXCEPT !.owner = a.to] \in AssetRecord
          BY <5>1, <5>2 DEF AssetRecord
        <5>4. assets' = [assets EXCEPT ![a.asset] =
                           [assets[a.asset] EXCEPT !.owner = a.to]]
          BY <4>2, <5>1 DEF Transfer, TypeOK, IsOwner
        <5>5. assets'[a.asset] # Absent /\ assets[a.asset] # Absent
          BY <5>1, <5>2, <5>3, <5>4, AbsentAssumption DEF TypeOK
        <5>6. QED
          BY <5>1, <5>4, <5>5 DEF TypeOK
      <4>3. QED
        BY <2>1, <2>5, <4>1, <4>2 DEF Dispatch, GrantRoleWithExpiry, RevokeRoleEarly,
           UpdateDidController, RoleGrant, CanGrantUntil, IsGranted
    <3>4. \A q \in ExecutedMints : proposals'[q].result = proposals[q].result
      BY <2>2
    <3>5. \A i \in AssetId : assets'[i] # Absent <=> i < assetCounter'
      BY <3>2, <3>3 DEF MintsInv, MintsMatchCounter
    <3>6. Cardinality(ExecutedMints') = assetCounter'
      BY <3>1, <3>2 DEF MintsInv, MintsMatchCounter
    <3>7. \A q, u \in ExecutedMints' : proposals'[q].result = proposals'[u].result => q = u
      BY <3>1, <3>4 DEF MintsInv, MintsMatchCounter
    <3>8. \A q \in ExecutedMints' : proposals'[q].result \in 0 .. (assetCounter' - 1)
      BY <3>1, <3>2, <3>4 DEF MintsInv
    <3>9. QED
      BY <3>5, <3>6, <3>7, <3>8 DEF MintsInv, MintsMatchCounter
  <2>6. QED
    BY <2>4, <2>5
<1>3. QED
  BY <1>1, <1>2

\* Asset ids are dense and never given twice: the counter, the assets on the
\* ledger and the executed mints always count the same things.
THEOREM AssetIdsAreDense == Spec => []MintsMatchCounter
<1>1. Init => MintsInv
  <2> SUFFICES ASSUME Init
               PROVE  MintsInv
    OBVIOUS
  <2>1. ExecutedMints = {}
    BY DEF Init, ExecutedMints, HasStatus, Exists
  <2>2. Cardinality(ExecutedMints) = 0
    BY <2>1, FS_EmptySet
  <2>3. QED
    BY <2>1, <2>2 DEF Init, MintsInv, MintsMatchCounter, AssetId
<1>2. TypeOK /\ MintsInv /\ [Next]_vars => MintsInv'
  BY NextMints
<1>3. MintsInv => MintsMatchCounter
  BY DEF MintsInv
<1>4. QED
  BY TypeCorrect, <1>1, <1>2, <1>3, PTL DEF Spec

-----------------------------------------------------------------------------
\* Custody: every asset is handed on as often as it was received.

LEMMA HandoversAreFinite ==
  ASSUME NEW i, NEW d
  PROVE  IsFiniteSet(Received(i, d)) /\ IsFiniteSet(Sent(i, d))
  BY ParametersAssumption, FS_Subset DEF Received, Sent

LEMMA ExecutionsOnly ==
  ASSUME TypeOK, [Next]_vars, \A p \in ProposalId, t \in TxTime : ~ExecuteProposal(p, t),
         NEW q \in ProposalId
  PROVE  /\ HasStatus(q, "EXECUTED")' <=> HasStatus(q, "EXECUTED")
         /\ HasStatus(q, "EXECUTED") => proposals'[q] = proposals[q]
  BY ExecutedStays, OthersExecuteNothing DEF HasStatus, Exists

\* What an execution adds to the handovers of an asset.
LEMMA ExecutionHandsOver ==
  ASSUME TypeOK, NEW p \in ProposalId, NEW t \in TxTime, ExecuteProposal(p, t),
         NEW i \in AssetId, NEW d \in Did
  PROVE  LET a == proposals[p].action
             in == \/ a.type = "MINT_ASSET" /\ i = assetCounter /\ a.owner = d
                   \/ a.type = "TRANSFER_ASSET" /\ a.asset = i /\ a.to = d
             out == a.type = "TRANSFER_ASSET" /\ a.asset = i /\ a.from = d
         IN  /\ p \notin Received(i, d)
             /\ p \notin Sent(i, d)
             /\ Received(i, d)' = IF in THEN Received(i, d) \cup {p} ELSE Received(i, d)
             /\ Sent(i, d)' = IF out THEN Sent(i, d) \cup {p} ELSE Sent(i, d)
<1> DEFINE a == proposals[p].action
           in == \/ a.type = "MINT_ASSET" /\ i = assetCounter /\ a.owner = d
                 \/ a.type = "TRANSFER_ASSET" /\ a.asset = i /\ a.to = d
           out == a.type = "TRANSFER_ASSET" /\ a.asset = i /\ a.from = d
<1>1. /\ proposals[p].status = "PENDING"
      /\ proposals'[p] # Absent
      /\ proposals'[p].status = "EXECUTED"
      /\ proposals'[p].action = a
      /\ \A q \in ProposalId \ {p} : proposals'[q] = proposals[q]
  BY ExecuteFacts
<1>2. a.type = "MINT_ASSET" => proposals'[p].result = assetCounter
  BY ExecutionMints
<1>3. p \notin Received(i, d) /\ p \notin Sent(i, d)
  BY <1>1 DEF Received, Sent, HasStatus
<1>4. (p \in Received(i, d)' <=> in) /\ (p \in Sent(i, d)' <=> out)
  BY <1>1, <1>2 DEF Received, Sent, HasStatus, Exists
<1>5. \A q \in ProposalId \ {p} : /\ q \in Received(i, d)' <=> q \in Received(i, d)
                                  /\ q \in Sent(i, d)' <=> q \in Sent(i, d)
  BY <1>1 DEF Received, Sent, HasStatus, Exists
<1>6. /\ Received(i, d) \subseteq ProposalId /\ Received(i, d)' \subseteq ProposalId
      /\ Sent(i, d) \subseteq ProposalId /\ Sent(i, d)' \subseteq ProposalId
  BY DEF Received, Sent
<1> HIDE DEF in, out
<1>7. Received(i, d)' = IF in THEN Received(i, d) \cup {p} ELSE Received(i, d)
  BY <1>3, <1>4, <1>5, <1>6
<1>8. Sent(i, d)' = IF out THEN Sent(i, d) \cup {p} ELSE Sent(i, d)
  BY <1>3, <1>4, <1>5, <1>6
<1>9. QED
  BY <1>3, <1>7, <1>8 DEF in, out

Owns(i, d) == assets[i] # Absent /\ assets[i].owner = d

LEMMA ExecutionMovesAssets ==
  ASSUME TypeOK, MintsInv, NEW p \in ProposalId, NEW t \in TxTime, ExecuteProposal(p, t),
         NEW i \in AssetId, NEW d \in Did
  PROVE  LET a == proposals[p].action
         IN  \/ /\ a.type = "MINT_ASSET" /\ i = assetCounter
                /\ ~Owns(i, d)
                /\ Owns(i, d)' <=> a.owner = d
             \/ /\ a.type = "TRANSFER_ASSET" /\ a.asset = i
                /\ Owns(i, d) <=> a.from = d
                /\ Owns(i, d)' <=> a.to = d
             \/ /\ ~(a.type = "MINT_ASSET" /\ i = assetCounter)
                /\ ~(a.type = "TRANSFER_ASSET" /\ a.asset = i)
                /\ Owns(i, d)' <=> Owns(i, d)
<1> DEFINE a == proposals[p].action
<1>1. Dispatch(a, t) /\ a \in PrivilegedAction
  BY ExecuteFacts, ActionAssumption
<1>2. assets \in [AssetId -> AssetRecord \cup {Absent}]
  BY DEF TypeOK
<1> HIDE DEF a
<1>3. CASE a.type = "MINT_ASSET"
  <2>1. a.owner \in Did
    BY <1>1, <1>3 DEF PrivilegedAction, GrantRole, RevokeRole, MintAsset, TransferAsset,
                      UpdateController, SetCredentialStatus
  <2>2. assets' = [assets EXCEPT ![assetCounter] = [owner |-> a.owner]]
    BY <1>1, <1>3 DEF Dispatch, Mint
  <2>3. [owner |-> a.owner] # Absent
    BY <2>1, AbsentAssumption DEF AssetRecord
  <2>4. i = assetCounter => assets[i] = Absent
    BY DEF MintsInv, MintsMatchCounter, AssetId
  <2>5. QED
    BY <1>2, <1>3, <2>2, <2>3, <2>4 DEF Owns, a
<1>4. CASE a.type = "TRANSFER_ASSET"
  <2>1. a.asset \in AssetId /\ a.to \in Did /\ a.from \in Did
    BY <1>1, <1>4 DEF PrivilegedAction, GrantRole, RevokeRole, MintAsset, TransferAsset,
                      UpdateController, SetCredentialStatus
  <2>2. Transfer(a.asset, a.from, a.to)
    BY <1>1, <1>4 DEF Dispatch
  <2>3. PICK x \in AssetId : x = a.asset
    BY <2>1
  <2>4. assets[x] \in AssetRecord /\ assets[x] # Absent /\ assets[x].owner = a.from
    BY <1>2, <2>2, <2>3 DEF Transfer, IsOwner
  <2>5. /\ [assets[x] EXCEPT !.owner = a.to] \in AssetRecord
        /\ [assets[x] EXCEPT !.owner = a.to].owner = a.to
    BY <2>1, <2>4 DEF AssetRecord
  <2>6. assets' = [assets EXCEPT ![x] = [assets[x] EXCEPT !.owner = a.to]]
    BY <2>2, <2>3 DEF Transfer
  <2>7. assets'[x] # Absent /\ assets'[x].owner = a.to
    BY <1>2, <2>5, <2>6, AbsentAssumption
  <2>8. CASE i = x
    BY <1>4, <2>3, <2>4, <2>7, <2>8 DEF Owns, a
  <2>9. CASE i # x
    <3>1. assets'[i] = assets[i]
      BY <1>2, <2>6, <2>9
    <3>2. QED
      BY <1>4, <2>3, <2>9, <3>1 DEF Owns, a
  <2>10. QED
    BY <2>8, <2>9
<1>5. CASE a.type \notin {"MINT_ASSET", "TRANSFER_ASSET"}
  <2>1. assets' = assets
    BY <1>1, <1>5 DEF Dispatch, GrantRoleWithExpiry, RevokeRoleEarly, UpdateDidController
  <2>2. QED
    BY <1>5, <2>1 DEF Owns, a
<1>6. QED
  BY <1>3, <1>4, <1>5

LEMMA NextCustody ==
  ASSUME TypeOK, MintsInv, CustodyBalances, [Next]_vars
  PROVE  CustodyBalances'
<1> SUFFICES ASSUME NEW i \in AssetId, NEW d \in Did
             PROVE  Cardinality(Received(i, d)') =
                      Cardinality(Sent(i, d)') + (IF Owns(i, d)' THEN 1 ELSE 0)
  BY DEF CustodyBalances, Owns
<1>1. Cardinality(Received(i, d)) = Cardinality(Sent(i, d)) + (IF Owns(i, d) THEN 1 ELSE 0)
  BY DEF CustodyBalances, Owns
<1>2. IsFiniteSet(Received(i, d)) /\ IsFiniteSet(Sent(i, d))
  BY HandoversAreFinite
<1>3. Cardinality(Received(i, d)) \in Nat /\ Cardinality(Sent(i, d)) \in Nat
  BY <1>2, FS_CardinalityType
<1>4. CASE \A p \in ProposalId, t \in TxTime : ~ExecuteProposal(p, t)
  <2>1. \A q \in ProposalId : /\ HasStatus(q, "EXECUTED")' <=> HasStatus(q, "EXECUTED")
                              /\ HasStatus(q, "EXECUTED") => proposals'[q] = proposals[q]
    BY <1>4, ExecutionsOnly
  <2>2. Received(i, d)' = Received(i, d) /\ Sent(i, d)' = Sent(i, d)
    BY <2>1 DEF Received, Sent
  <2>3. Owns(i, d)' <=> Owns(i, d)
    BY <1>4, OthersKeepAssets DEF Owns
  <2>4. QED
    BY <1>1, <2>2, <2>3
<1>5. ASSUME NEW p \in ProposalId, NEW t \in TxTime, ExecuteProposal(p, t)
      PROVE  Cardinality(Received(i, d)') =
               Cardinality(Sent(i, d)') + (IF Owns(i, d)' THEN 1 ELSE 0)
  <2> DEFINE a == proposals[p].action
             in == \/ a.type = "MINT_ASSET" /\ i = assetCounter /\ a.owner = d
                   \/ a.type = "TRANSFER_ASSET" /\ a.asset = i /\ a.to = d
             out == a.type = "TRANSFER_ASSET" /\ a.asset = i /\ a.from = d
  <2>1. /\ p \notin Received(i, d)
        /\ p \notin Sent(i, d)
        /\ Received(i, d)' = IF in THEN Received(i, d) \cup {p} ELSE Received(i, d)
        /\ Sent(i, d)' = IF out THEN Sent(i, d) \cup {p} ELSE Sent(i, d)
    BY <1>5, ExecutionHandsOver
  <2>2. \/ ~Owns(i, d) /\ ~out /\ (Owns(i, d)' <=> in)
        \/ (Owns(i, d) <=> out) /\ (Owns(i, d)' <=> in)
        \/ ~in /\ ~out /\ (Owns(i, d)' <=> Owns(i, d))
    <3>1. \/ /\ a.type = "MINT_ASSET" /\ i = assetCounter
             /\ ~Owns(i, d)
             /\ Owns(i, d)' <=> a.owner = d
          \/ /\ a.type = "TRANSFER_ASSET" /\ a.asset = i
             /\ Owns(i, d) <=> a.from = d
             /\ Owns(i, d)' <=> a.to = d
          \/ /\ ~(a.type = "MINT_ASSET" /\ i = assetCounter)
             /\ ~(a.type = "TRANSFER_ASSET" /\ a.asset = i)
             /\ Owns(i, d)' <=> Owns(i, d)
      BY <1>5, ExecutionMovesAssets
    <3> HIDE DEF a
    <3>2. QED
      BY <3>1
  <2> HIDE DEF in, out
  <2>3. /\ Cardinality(Received(i, d) \cup {p}) = Cardinality(Received(i, d)) + 1
        /\ Cardinality(Sent(i, d) \cup {p}) = Cardinality(Sent(i, d)) + 1
    BY <1>2, <2>1, FS_AddElement
  <2>4. /\ Cardinality(Received(i, d)') =
             Cardinality(Received(i, d)) + (IF in THEN 1 ELSE 0)
        /\ Cardinality(Sent(i, d)') = Cardinality(Sent(i, d)) + (IF out THEN 1 ELSE 0)
    BY <1>3, <2>1, <2>3
  <2>5. QED
    BY <1>1, <1>3, <2>2, <2>4
<1>6. QED
  BY <1>4, <1>5

\* Custody is conserved, however many transfers of one asset were approved: its
\* owner received it exactly once more often than they handed it on, and everybody
\* else as often.
THEOREM CustodyIsConserved == Spec => []CustodyBalances
<1>1. Init => MintsInv /\ CustodyBalances
  <2> SUFFICES ASSUME Init
               PROVE  MintsInv /\ CustodyBalances
    OBVIOUS
  <2>1. /\ ExecutedMints = {}
        /\ \A i \in AssetId, d \in Did : Received(i, d) = {} /\ Sent(i, d) = {}
    BY DEF Init, ExecutedMints, Received, Sent, HasStatus, Exists
  <2>2. Cardinality({}) = 0
    BY FS_EmptySet
  <2>3. \A i \in AssetId : assets[i] = Absent
    BY DEF Init
  <2>4. CustodyBalances
    BY <2>1, <2>2, <2>3 DEF CustodyBalances
  <2>5. MintsInv
    BY <2>1, <2>2 DEF Init, MintsInv, MintsMatchCounter, AssetId
  <2>6. QED
    BY <2>4, <2>5
<1>2. TypeOK /\ MintsInv /\ CustodyBalances /\ [Next]_vars => (MintsInv /\ CustodyBalances)'
  BY NextMints, NextCustody
<1>3. QED
  BY TypeCorrect, <1>1, <1>2, PTL DEF Spec

-----------------------------------------------------------------------------
\* The ledger as threshold approval: every step of it is an approval, an execution,
\* a cancellation or a stutter.

\* The instance's copy of Cardinality is Cardinality.
LEMMA SameCardinality == \A S : Abstract!Cardinality(S) = Cardinality(S)
  BY DEF Abstract!Cardinality, Cardinality

\* A step that writes one proposal, seen through the mapping.
LEMMA OneProposal ==
  ASSUME TypeOK, NEW p \in ProposalId,
         \A q \in ProposalId \ {p} : proposals'[q] = proposals[q]
  PROVE  /\ \A q \in ProposalId \ {p} : ApprovedBy'[q] = ApprovedBy[q]
         /\ WithStatus("EXECUTED")' \ {p} = WithStatus("EXECUTED") \ {p}
         /\ WithStatus("CANCELLED")' \ {p} = WithStatus("CANCELLED") \ {p}
<1>1. \A q \in ProposalId \ {p} : Exists(q)' = Exists(q)
  BY DEF Exists
<1>2. \A q \in ProposalId \ {p} : \A status : HasStatus(q, status)' = HasStatus(q, status)
  BY <1>1 DEF HasStatus
<1>3. QED
  BY <1>1, <1>2, Zenon DEF ApprovedBy, WithStatus, ApprovingOrgs

\* Approvals are organizations', so that all of them count.
LEMMA ApproversAreMembers ==
  ASSUME TypeOK, NEW p \in ProposalId
  PROVE  ApprovedBy[p] \subseteq Org
<1>1. CASE Exists(p)
  <2>1. proposals[p] \in Proposal
    BY <1>1 DEF Exists, TypeOK
  <2>2. proposals[p].approvals \in Seq(Approval)
    BY <2>1 DEF Proposal
  <2>3. ASSUME NEW i \in DOMAIN proposals[p].approvals
        PROVE  proposals[p].approvals[i].org \in Org
    <3>1. proposals[p].approvals[i] \in Approval
      BY <2>2
    <3>2. QED
      BY <3>1 DEF Approval
  <2>4. QED
    BY <1>1, <2>3 DEF ApprovedBy, ApprovingOrgs
<1>2. CASE ~Exists(p)
  BY <1>2 DEF ApprovedBy
<1>3. QED
  BY <1>1, <1>2

\* Proposing is the proposer's approval.
LEMMA ProposingApproves ==
  ASSUME TypeOK, NEW org \in Org, NEW p \in ProposalId, NEW a \in Action,
         NEW t \in TxTime, ProposeAction(org, p, a, t)
  PROVE  Abstract!Approve
<1>1. /\ ~Exists(p)
      /\ proposals'[p] =
           [action |-> a, proposedBy |-> org, expiresAt |-> t + TTL,
            approvals |-> <<[org |-> org, at |-> t]>>, status |-> "PENDING",
            executedAt |-> Absent, result |-> Absent]
      /\ \A q \in ProposalId \ {p} : proposals'[q] = proposals[q]
  BY ProposeFacts
<1>2. TypeOK' /\ proposals' = [proposals EXCEPT ![p] = NewProposal(org, a, t)]
  BY NextType DEF Next, ProposeAction
<1>3. /\ proposals'[p].status = "PENDING"
      /\ proposals'[p].approvals = <<[org |-> org, at |-> t]>>
  BY <1>1
<1>4. proposals'[p] # Absent
  <2>1. t \in Time /\ t + TTL \in Nat
    BY ParametersAssumption DEF TxTime, Time
  <2>2. proposals'[p] \in Proposal
    BY <1>1, <2>1 DEF Proposal, Approval, PrivilegedAction
  <2>3. QED
    BY <2>2, AbsentAssumption
<1>5. ApprovedBy[p] = {} /\ ApprovedBy'[p] = {org}
  BY <1>1, <1>3, <1>4 DEF ApprovedBy, ApprovingOrgs, Exists
<1>6. /\ p \notin WithStatus("EXECUTED") /\ p \notin WithStatus("EXECUTED")'
      /\ p \notin WithStatus("CANCELLED") /\ p \notin WithStatus("CANCELLED")'
  BY <1>1, <1>3 DEF WithStatus, HasStatus, Exists
<1>7. /\ WithStatus("EXECUTED")' = WithStatus("EXECUTED")
      /\ WithStatus("CANCELLED")' = WithStatus("CANCELLED")
  BY <1>1, <1>6, OneProposal
<1>8. ApprovedBy' = [ApprovedBy EXCEPT ![p] = @ \cup {org}]
  BY <1>1, <1>5, OneProposal DEF ApprovedBy
<1>9. QED
  BY <1>5, <1>7, <1>8 DEF Abstract!Approve

LEMMA ApprovingApproves ==
  ASSUME TypeOK, NEW org \in Org, NEW p \in ProposalId, NEW t \in TxTime,
         ApproveProposal(org, p, t)
  PROVE  Abstract!Approve
<1>1. /\ Exists(p)
      /\ proposals[p] \in Proposal
      /\ proposals[p].status = "PENDING"
      /\ org \notin ApprovingOrgs(proposals[p])
      /\ proposals'[p] = [proposals[p] EXCEPT !.approvals =
                            Append(proposals[p].approvals, [org |-> org, at |-> t])]
      /\ \A q \in ProposalId \ {p} : proposals'[q] = proposals[q]
  BY ApproveFacts
<1>2. TypeOK'
  BY NextType DEF Next
<1>3. /\ proposals'[p].status = "PENDING"
      /\ proposals'[p].approvals = Append(proposals[p].approvals, [org |-> org, at |-> t])
  BY <1>1 DEF Proposal
<1>4. proposals'[p] # Absent
  <2>1. Append(proposals[p].approvals, [org |-> org, at |-> t]) \in Seq(Approval)
    BY <1>1 DEF Proposal, Approval, TxTime
  <2>2. proposals'[p] \in Proposal
    BY <1>1, <2>1 DEF Proposal
  <2>3. QED
    BY <2>2, AbsentAssumption
<1>5. ApprovingOrgs(proposals'[p]) = ApprovingOrgs(proposals[p]) \cup {org}
  <2>1. proposals[p].approvals \in Seq(Approval)
    BY <1>1 DEF Proposal
  <2> DEFINE old == proposals[p].approvals
             new == Append(old, [org |-> org, at |-> t])
  <2>2. /\ DOMAIN new = DOMAIN old \cup {Len(old) + 1}
        /\ \A i \in DOMAIN old : new[i] = old[i]
        /\ new[Len(old) + 1].org = org
    BY <2>1
  <2> HIDE DEF new
  <2>3. {new[i].org : i \in DOMAIN new} = {old[i].org : i \in DOMAIN old} \cup {org}
    BY <2>2
  <2>4. QED
    BY <1>3, <2>3 DEF ApprovingOrgs, new
<1>6. /\ ApprovedBy[p] = ApprovingOrgs(proposals[p])
      /\ ApprovedBy'[p] = ApprovedBy[p] \cup {org}
  BY <1>1, <1>4, <1>5 DEF ApprovedBy, ApprovingOrgs, Exists
<1>7. /\ p \notin WithStatus("EXECUTED") /\ p \notin WithStatus("EXECUTED")'
      /\ p \notin WithStatus("CANCELLED") /\ p \notin WithStatus("CANCELLED")'
  BY <1>1, <1>3 DEF WithStatus, HasStatus, Exists
<1>8. /\ WithStatus("EXECUTED")' = WithStatus("EXECUTED")
      /\ WithStatus("CANCELLED")' = WithStatus("CANCELLED")
  <2>1. \A q \in ProposalId \ {p} : proposals'[q] = proposals[q]
    BY <1>1
  <2>2. QED
    BY <2>1, <1>7, OneProposal
<1>9. ApprovedBy' = [ApprovedBy EXCEPT ![p] = @ \cup {org}]
  BY <1>1, <1>6, OneProposal DEF ApprovedBy
<1>10. QED
  BY <1>1, <1>6, <1>8, <1>9 DEF Abstract!Approve

\* Organizations never change, so the approvals that an execution counts are those
\* of members.
LEMMA ExecutingExecutes ==
  ASSUME TypeOK, NEW p \in ProposalId, NEW t \in TxTime, ExecuteProposal(p, t)
  PROVE  /\ Abstract!Execute(p)
         /\ WithStatus("EXECUTED")' # WithStatus("EXECUTED")
<1>1. /\ Exists(p)
      /\ proposals[p] \in Proposal
      /\ proposals[p].status = "PENDING"
      /\ HasQuorum(proposals[p])
      /\ proposals'[p] = [proposals[p] EXCEPT !.status = "EXECUTED", !.executedAt = t,
           !.result = IF proposals[p].action.type = "MINT_ASSET"
                        THEN assetCounter ELSE Absent]
      /\ proposals'[p] # Absent
      /\ proposals'[p].status = "EXECUTED"
      /\ \A q \in ProposalId \ {p} : proposals'[q] = proposals[q]
  BY ExecuteFacts
<1>2. proposals'[p].approvals = proposals[p].approvals
  BY <1>1 DEF Proposal
<1>3. ApprovedBy[p] = ApprovingOrgs(proposals[p]) /\ ApprovedBy'[p] = ApprovedBy[p]
  <2>1. ApprovingOrgs(proposals'[p]) = ApprovingOrgs(proposals[p])
    BY <1>2 DEF ApprovingOrgs
  <2>2. ApprovedBy'[p] = ApprovingOrgs(proposals'[p])
    BY <1>1 DEF ApprovedBy, Exists, ApprovingOrgs
  <2>3. QED
    BY <1>1, <2>1, <2>2 DEF ApprovedBy
<1>4. ApprovedBy' = ApprovedBy
  BY <1>1, <1>3, OneProposal DEF ApprovedBy
<1>5. /\ p \notin WithStatus("EXECUTED") /\ p \in WithStatus("EXECUTED")'
      /\ p \notin WithStatus("CANCELLED") /\ p \notin WithStatus("CANCELLED")'
  BY <1>1 DEF WithStatus, HasStatus, Exists
<1>6. /\ WithStatus("EXECUTED")' = WithStatus("EXECUTED") \cup {p}
      /\ WithStatus("CANCELLED")' = WithStatus("CANCELLED")
  BY <1>1, <1>5, OneProposal
<1>7. WithStatus("CANCELLED") \subseteq ProposalId \ WithStatus("EXECUTED")'
  BY <1>5, <1>6 DEF WithStatus, HasStatus
<1>8. Cardinality((ApprovedBy[p] \cup {}) \cap Org) >= Threshold
  <2>1. (ApprovedBy[p] \cup {}) \cap Org = ApprovingOrgs(proposals[p])
    BY <1>3, ApproversAreMembers
  <2>2. QED
    BY <1>1, <2>1 DEF HasQuorum
<1>9. ApprovedBy' = [ApprovedBy EXCEPT ![p] = @ \cup {}]
  BY <1>4 DEF ApprovedBy
<1>10. Threshold \in 1 .. Cardinality(Org)
  BY ParametersAssumption, OrganizationsAssumption, FS_CardinalityType
<1>11. \E e \in {{}} \cup {{o} : o \in Org} :
         /\ Cardinality((ApprovedBy[p] \cup e) \cap Org) >= Threshold
         /\ ApprovedBy' = [ApprovedBy EXCEPT ![p] = @ \cup e]
  BY <1>8, <1>9
<1>12. WithStatus("EXECUTED")' # WithStatus("EXECUTED")
  BY <1>5
<1>13. QED
  BY <1>5, <1>6, <1>7, <1>10, <1>11, <1>12, SameCardinality DEF Abstract!Execute, Abstract!Open

LEMMA CancellingDrops ==
  ASSUME TypeOK, NEW org \in Org, NEW p \in ProposalId, CancelProposal(org, p)
  PROVE  /\ Abstract!Drop(p)
         /\ WithStatus("CANCELLED")' # WithStatus("CANCELLED")
<1>1. /\ Exists(p)
      /\ proposals[p] \in Proposal
      /\ proposals[p].status = "PENDING"
      /\ proposals'[p] = [proposals[p] EXCEPT !.status = "CANCELLED"]
      /\ proposals'[p].status = "CANCELLED"
      /\ \A q \in ProposalId \ {p} : proposals'[q] = proposals[q]
  BY CancelFacts
<1>2. proposals'[p].approvals = proposals[p].approvals
  BY <1>1 DEF Proposal
<1>3. proposals'[p] # Absent
  <2>1. proposals'[p] \in Proposal
    BY <1>1 DEF Proposal
  <2>2. QED
    BY <2>1, AbsentAssumption
<1>4. ApprovedBy[p] = ApprovingOrgs(proposals[p]) /\ ApprovedBy'[p] = ApprovedBy[p]
  <2>1. ApprovingOrgs(proposals'[p]) = ApprovingOrgs(proposals[p])
    BY <1>2 DEF ApprovingOrgs
  <2>2. ApprovedBy'[p] = ApprovingOrgs(proposals'[p])
    BY <1>3 DEF ApprovedBy, Exists, ApprovingOrgs
  <2>3. QED
    BY <1>1, <2>1, <2>2 DEF ApprovedBy
<1>5. ApprovedBy' = ApprovedBy
  BY <1>1, <1>4, OneProposal DEF ApprovedBy
<1>6. /\ p \notin WithStatus("EXECUTED") /\ p \notin WithStatus("EXECUTED")'
      /\ p \notin WithStatus("CANCELLED") /\ p \in WithStatus("CANCELLED")'
  BY <1>1, <1>3 DEF WithStatus, HasStatus, Exists
<1>7. /\ WithStatus("EXECUTED")' = WithStatus("EXECUTED")
      /\ WithStatus("CANCELLED")' = WithStatus("CANCELLED") \cup {p}
  BY <1>1, <1>6, OneProposal
<1>8. QED
  BY <1>5, <1>6, <1>7 DEF Abstract!Drop, Abstract!Open

\* Registrations and the clock are stutters; every other step is one of the
\* abstract ones.
LEMMA StepsImplement ==
  ASSUME TypeOK, [Next]_vars
  PROVE  [Abstract!Next]_(Abstract!vars)
<1>1. CASE \E org \in Org, p \in ProposalId, a \in Action, t \in TxTime :
             ProposeAction(org, p, a, t)
  BY <1>1, ProposingApproves DEF Abstract!Next
<1>2. CASE \E org \in Org, p \in ProposalId, t \in TxTime : ApproveProposal(org, p, t)
  BY <1>2, ApprovingApproves DEF Abstract!Next
<1>3. CASE \E p \in ProposalId, t \in TxTime : ExecuteProposal(p, t)
  BY <1>3, ExecutingExecutes DEF Abstract!Next
<1>4. CASE \E org \in Org, p \in ProposalId : CancelProposal(org, p)
  BY <1>4, CancellingDrops DEF Abstract!Next
<1>5. CASE proposals' = proposals
  BY <1>5 DEF Abstract!vars, ApprovedBy, WithStatus, HasStatus, Exists, ApprovingOrgs
<1>6. (\E d \in Did, key \in Key : RegisterDID(d, key)) \/ Tick \/ UNCHANGED vars
        => proposals' = proposals
  BY DEF RegisterDID, Tick, vars
<1>7. QED
  BY <1>1, <1>2, <1>3, <1>4, <1>5, <1>6 DEF Next

LEMMA InitImplements == Init => Abstract!Init
<1> SUFFICES ASSUME Init PROVE Abstract!Init
  OBVIOUS
<1>1. ApprovedBy = [p \in ProposalId |-> {}]
  BY DEF Init, ApprovedBy, Exists
<1>2. WithStatus("EXECUTED") = {} /\ WithStatus("CANCELLED") = {}
  BY DEF Init, WithStatus, HasStatus, Exists
<1>3. Threshold \in 1 .. Cardinality(Org)
  BY ParametersAssumption, OrganizationsAssumption, FS_CardinalityType
<1>4. QED
  BY <1>1, <1>2, <1>3, SameCardinality DEF Abstract!Init

\* The governance contract (governance.contract.ts) is threshold approval by the
\* organizations of the channel: whatever they propose and in whatever order their
\* transactions commit, each proposal takes effect at most once, on a threshold of
\* their approvals, and never after its cancellation.
THEOREM LedgerImplementsThresholdApproval == Spec => ImplementsThresholdApproval
<1>1. TypeOK /\ [Next]_vars => [Abstract!Next]_(Abstract!vars)
  BY StepsImplement
<1>2. QED
  BY <1>1, InitImplements, TypeCorrect, PTL
     DEF Spec, ImplementsThresholdApproval, Abstract!Spec
===============================================================================
