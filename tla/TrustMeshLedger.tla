--------------------------- MODULE TrustMeshLedger ---------------------------
(***************************************************************************)
(* The TrustMesh chaincode (chaincode/trustmesh/src) as a serial machine:  *)
(* one action per committed transaction.  Privileged writes to the four    *)
(* registries happen only inside ExecuteProposal; registering a DID is the *)
(* one ungoverned write.                                                   *)
(*                                                                         *)
(* A transaction that throws leaves the world state as it was, so it is no *)
(* step here: what makes a handler throw is the guard of its action.       *)
(* Every transaction carries the timestamp its client chose when it built  *)
(* the request.  Commit order need not be timestamp order: a transaction   *)
(* may commit up to Skew after its stamp.                                  *)
(***************************************************************************)
EXTENDS Integers, Sequences, FiniteSets

CONSTANTS
  Org,          \* the organizations' MSP ids
  Did,          \* DID hashes: subjects of roles, owners of assets
  Key,          \* controller public keys
  RoleId,
  CredentialId, \* status ids that are not a role's
  ProposalId,   \* transaction ids of proposals
  Action,       \* the actions that clients propose
  Threshold,    \* GOVERNANCE_THRESHOLD
  TTL,          \* PROPOSAL_TTL_MS, in clock ticks
  Skew,         \* bound on commit time minus transaction timestamp
  MaxTime,      \* bound on the clock
  MaxAssets,    \* bound on the asset counter
  Absent        \* what getState returns for a key never written

Time == 0 .. MaxTime
AssetId == 0 .. (MaxAssets - 1)

\* statusIdFor is a collision-free hash of role and subject: the pair itself.
StatusIdFor(role, subject) == <<role, subject>>
RoleKey == RoleId \X Did
StatusId == CredentialId \cup {StatusIdFor(r, s) : r \in RoleId, s \in Did}

-----------------------------------------------------------------------------
\* The records of the world state.  An expiry of 0 means "none".

GrantRole == [type : {"GRANT_ROLE"}, role : RoleId, subject : Did, expiry : Nat]
RevokeRole == [type : {"REVOKE_ROLE"}, role : RoleId, subject : Did]
MintAsset == [type : {"MINT_ASSET"}, owner : Did]
TransferAsset == [type : {"TRANSFER_ASSET"}, asset : AssetId, from : Did, to : Did]
UpdateController == [type : {"UPDATE_CONTROLLER"}, did : Did, key : Key]
SetCredentialStatus ==
  [type : {"SET_CREDENTIAL_STATUS"}, status : StatusId, revoked : BOOLEAN,
   expiry : Nat \cup {Absent}]

PrivilegedAction ==
  GrantRole \cup RevokeRole \cup MintAsset \cup TransferAsset
    \cup UpdateController \cup SetCredentialStatus

Approval == [org : Org, at : Time]

Proposal ==
  [action     : Action,
   proposedBy : Org,
   expiresAt  : Nat,
   approvals  : Seq(Approval),
   status     : {"PENDING", "EXECUTED", "CANCELLED"},
   executedAt : Time \cup {Absent},
   result     : AssetId \cup {Absent}]   \* the id a MINT_ASSET was given

DidRecord == [controller : Key]
RoleRecord == [expiry : Nat, granted : BOOLEAN]
StatusRecord == [revoked : BOOLEAN, expiry : Nat]
AssetRecord == [owner : Did]

ASSUME ParametersAssumption ==
  /\ Threshold \in Nat \ {0}
  /\ TTL \in Nat
  /\ Skew \in Nat
  /\ MaxTime \in Nat
  /\ MaxAssets \in Nat
  /\ IsFiniteSet(ProposalId)

ASSUME ActionAssumption == \A a \in Action : a \in PrivilegedAction

ASSUME AbsentAssumption ==
  /\ Absent \notin Proposal
  /\ Absent \notin DidRecord
  /\ Absent \notin RoleRecord
  /\ Absent \notin StatusRecord
  /\ Absent \notin AssetRecord
  /\ Absent \notin Nat

-----------------------------------------------------------------------------
VARIABLES
  proposals,    \* the world state, one function per key prefix
  dids,
  roles,
  statuses,
  assets,
  assetCounter,
  clock         \* the most advanced client clock

registries == <<dids, roles, statuses, assets, assetCounter>>
vars == <<proposals, registries, clock>>

Init ==
  /\ proposals = [p \in ProposalId |-> Absent]
  /\ dids = [d \in Did |-> Absent]
  /\ roles = [k \in RoleKey |-> Absent]
  /\ statuses = [s \in StatusId |-> Absent]
  /\ assets = [i \in AssetId |-> Absent]
  /\ assetCounter = 0
  /\ clock = 0

\* The stamps a transaction committing now may carry.
TxTime == {t \in Time : t <= clock /\ clock <= t + Skew}

Exists(p) == proposals[p] # Absent
HasStatus(p, status) == Exists(p) /\ proposals[p].status = status

ApprovingOrgs(pr) == {pr.approvals[i].org : i \in DOMAIN pr.approvals}
Expired(pr, t) == t > pr.expiresAt

-----------------------------------------------------------------------------
\* registry.ts: each function throws (its guard) or writes its keys.

RegisterDid(d, key) ==
  /\ dids[d] = Absent
  /\ dids' = [dids EXCEPT ![d] = [controller |-> key]]
  /\ UNCHANGED <<roles, statuses, assets, assetCounter>>

UpdateDidController(d, key) ==
  /\ dids[d] # Absent
  /\ dids' = [dids EXCEPT ![d].controller = key]
  /\ UNCHANGED <<roles, statuses, assets, assetCounter>>

\* Faulty: the flag the wrong way round.
StatusWriteInverted(s, revoked, expiry) ==
  [revoked |-> ~revoked, expiry |-> IF expiry = Absent THEN 0 ELSE expiry]

\* Faulty: the expiry as it came, given or not.
StatusWriteUndefaulted(s, revoked, expiry) == [revoked |-> revoked, expiry |-> expiry]

\* The record setStatus writes: an expiry not given keeps the one on record.
StatusWrite(s, revoked, expiry) ==
  LET kept == IF statuses[s] = Absent THEN 0 ELSE statuses[s].expiry
  IN  [revoked |-> revoked, expiry |-> IF expiry = Absent THEN kept ELSE expiry]

SetStatus(s, revoked, expiry) ==
  statuses' = [statuses EXCEPT ![s] = StatusWrite(s, revoked, expiry)]

RoleGrant(expiry) == [expiry |-> expiry, granted |-> TRUE]
CanGrantUntil(expiry, t) == expiry > 0 /\ expiry > t

GrantRoleWithExpiry(role, subject, expiry, t) ==
  /\ CanGrantUntil(expiry, t)
  /\ roles' = [roles EXCEPT ![<<role, subject>>] = RoleGrant(expiry)]
  /\ SetStatus(StatusIdFor(role, subject), FALSE, expiry)
  /\ UNCHANGED <<dids, assets, assetCounter>>

IsGranted(role, subject) ==
  roles[<<role, subject>>] # Absent /\ roles[<<role, subject>>].granted

\* Faulty: the status registry is forgotten.
RevokeRoleOnly(role, subject) ==
  /\ IsGranted(role, subject)
  /\ roles' = [roles EXCEPT ![<<role, subject>>].granted = FALSE]
  /\ UNCHANGED <<dids, statuses, assets, assetCounter>>

RevokeRoleEarly(role, subject) ==
  /\ IsGranted(role, subject)
  /\ roles' = [roles EXCEPT ![<<role, subject>>].granted = FALSE]
  /\ SetStatus(StatusIdFor(role, subject), TRUE, Absent)
  /\ UNCHANGED <<dids, assets, assetCounter>>

\* Faulty: the counter is read and not written.
MintUncounted(owner) ==
  /\ assetCounter < MaxAssets
  /\ assets' = [assets EXCEPT ![assetCounter] = [owner |-> owner]]
  /\ UNCHANGED <<dids, roles, statuses, assetCounter>>

\* The bound MaxAssets stands for a counter that does not end.
Mint(owner) ==
  /\ assetCounter < MaxAssets
  /\ assets' = [assets EXCEPT ![assetCounter] = [owner |-> owner]]
  /\ assetCounter' = assetCounter + 1
  /\ UNCHANGED <<dids, roles, statuses>>

\* Faulty: whoever the owner is.
IsMinted(d, asset) == assets[asset] # Absent

IsOwner(d, asset) == assets[asset] # Absent /\ assets[asset].owner = d

Transfer(asset, from, to) ==
  /\ IsOwner(from, asset)
  /\ assets' = [assets EXCEPT ![asset].owner = to]
  /\ UNCHANGED <<dids, roles, statuses, assetCounter>>

\* hasActiveRole: granted, not expired, and its status not revoked.
IsRevoked(s) == statuses[s] # Absent /\ statuses[s].revoked

\* Faulty: no expiry check.
HasUnrevokedRole(role, subject, t) ==
  /\ IsGranted(role, subject)
  /\ ~IsRevoked(StatusIdFor(role, subject))

HasActiveRole(role, subject, t) ==
  LET r == roles[<<role, subject>>]
  IN  /\ r # Absent
      /\ r.granted
      /\ ~(r.expiry # 0 /\ t > r.expiry)
      /\ ~IsRevoked(StatusIdFor(role, subject))

-----------------------------------------------------------------------------
\* governance.contract.ts

NewProposal(org, action, t) ==
  [action     |-> action,
   proposedBy |-> org,
   expiresAt  |-> t + TTL,
   approvals  |-> <<[org |-> org, at |-> t]>>,
   status     |-> "PENDING",
   executedAt |-> Absent,
   result     |-> Absent]

ProposeAction(org, p, action, t) ==
  /\ ~Exists(p)
  /\ proposals' = [proposals EXCEPT ![p] = NewProposal(org, action, t)]
  /\ UNCHANGED <<registries, clock>>

\* Faulty: an organization may approve again.
CanApproveAgain(org, p, t) ==
  HasStatus(p, "PENDING") /\ ~Expired(proposals[p], t)

CanApprove(org, p, t) ==
  /\ HasStatus(p, "PENDING")
  /\ ~Expired(proposals[p], t)
  /\ org \notin ApprovingOrgs(proposals[p])

WithApproval(pr, org, t) ==
  [pr EXCEPT !.approvals = Append(pr.approvals, [org |-> org, at |-> t])]

ApproveProposal(org, p, t) ==
  /\ CanApprove(org, p, t)
  /\ proposals' = [proposals EXCEPT ![p] = WithApproval(proposals[p], org, t)]
  /\ UNCHANGED <<registries, clock>>

Dispatch(a, t) ==
  \/ a.type = "GRANT_ROLE" /\ GrantRoleWithExpiry(a.role, a.subject, a.expiry, t)
  \/ a.type = "REVOKE_ROLE" /\ RevokeRoleEarly(a.role, a.subject)
  \/ a.type = "MINT_ASSET" /\ Mint(a.owner)
  \/ a.type = "TRANSFER_ASSET" /\ Transfer(a.asset, a.from, a.to)
  \/ a.type = "UPDATE_CONTROLLER" /\ UpdateDidController(a.did, a.key)
  \/ /\ a.type = "SET_CREDENTIAL_STATUS"
     /\ SetStatus(a.status, a.revoked, a.expiry)
     /\ UNCHANGED <<dids, roles, assets, assetCounter>>

\* Faulty: one approval short.
CanExecuteOneShort(p, t) ==
  /\ HasStatus(p, "PENDING")
  /\ ~Expired(proposals[p], t)
  /\ Cardinality(ApprovingOrgs(proposals[p])) + 1 >= Threshold

\* Any organization may submit the execution: the caller is not looked at.
CanExecute(p, t) ==
  /\ HasStatus(p, "PENDING")
  /\ ~Expired(proposals[p], t)
  /\ Cardinality(ApprovingOrgs(proposals[p])) >= Threshold

AsExecuted(pr, t) ==
  [pr EXCEPT !.status = "EXECUTED",
             !.executedAt = t,
             !.result = IF pr.action.type = "MINT_ASSET" THEN assetCounter ELSE Absent]

ExecuteProposal(p, t) ==
  /\ CanExecute(p, t)
  /\ Dispatch(proposals[p].action, t)
  /\ proposals' = [proposals EXCEPT ![p] = AsExecuted(proposals[p], t)]
  /\ UNCHANGED clock

\* Faulty: whatever the status.
CanCancelAlways(org, p) == Exists(p) /\ org = proposals[p].proposedBy

\* No expiry check: an expired proposal can still be withdrawn.
CanCancel(org, p) == HasStatus(p, "PENDING") /\ org = proposals[p].proposedBy

CancelProposal(org, p) ==
  /\ CanCancel(org, p)
  /\ proposals' = [proposals EXCEPT ![p].status = "CANCELLED"]
  /\ UNCHANGED <<registries, clock>>

\* The proof of possession is the caller's to give: any key may come with one.
RegisterDID(d, key) ==
  /\ RegisterDid(d, key)
  /\ UNCHANGED <<proposals, clock>>

Tick ==
  /\ clock < MaxTime
  /\ clock' = clock + 1
  /\ UNCHANGED <<proposals, registries>>

Next ==
  \/ \E org \in Org, p \in ProposalId, a \in Action, t \in TxTime :
       ProposeAction(org, p, a, t)
  \/ \E org \in Org, p \in ProposalId, t \in TxTime : ApproveProposal(org, p, t)
  \/ \E p \in ProposalId, t \in TxTime : ExecuteProposal(p, t)
  \/ \E org \in Org, p \in ProposalId : CancelProposal(org, p)
  \/ \E d \in Did, key \in Key : RegisterDID(d, key)
  \/ Tick

Spec == Init /\ [][Next]_vars

-----------------------------------------------------------------------------
\* What the ledger promises.

TypeOK ==
  /\ proposals \in [ProposalId -> Proposal \cup {Absent}]
  /\ dids \in [Did -> DidRecord \cup {Absent}]
  /\ roles \in [RoleKey -> RoleRecord \cup {Absent}]
  /\ statuses \in [StatusId -> StatusRecord \cup {Absent}]
  /\ assets \in [AssetId -> AssetRecord \cup {Absent}]
  /\ assetCounter \in 0 .. MaxAssets
  /\ clock \in Time

HasQuorum(pr) == Cardinality(ApprovingOrgs(pr)) >= Threshold

\* The header of governance.contract.ts: nothing takes effect before a
\* threshold of organizations approved it, each by an approval of its own, the
\* first of them the proposer's; and an executed proposal was approved and
\* executed before it expired, by the stamps of those transactions.
ExecutedHadQuorum ==
  \A p \in ProposalId : HasStatus(p, "EXECUTED") =>
    LET pr == proposals[p]
    IN  /\ HasQuorum(pr)
        /\ Cardinality(ApprovingOrgs(pr)) = Len(pr.approvals)
        /\ pr.approvals[1].org = pr.proposedBy
        /\ pr.executedAt <= pr.expiresAt
        /\ \A i \in DOMAIN pr.approvals : pr.approvals[i].at <= pr.expiresAt

Executes(p) == HasStatus(p, "PENDING") /\ HasStatus(p, "EXECUTED")'

\* The executing proposal that accounts for a change of a role, of a status, of
\* a registered DID, of an asset.
GovernsRole(a, k) ==
  a.type \in {"GRANT_ROLE", "REVOKE_ROLE"} /\ k = <<a.role, a.subject>>
GovernsStatus(a, s) ==
  \/ a.type = "SET_CREDENTIAL_STATUS" /\ s = a.status
  \/ /\ a.type \in {"GRANT_ROLE", "REVOKE_ROLE"}
     /\ s = StatusIdFor(a.role, a.subject)
GovernsDid(a, d) == a.type = "UPDATE_CONTROLLER" /\ d = a.did
GovernsAsset(a, i) ==
  \/ a.type = "MINT_ASSET" /\ i = assetCounter
  \/ a.type = "TRANSFER_ASSET" /\ i = a.asset /\ assets[i].owner = a.from

\* The actions that this step executes, with the quorum they need.
Enacted ==
  {a \in Action : \E p \in ProposalId :
     Executes(p) /\ HasQuorum(proposals[p]) /\ proposals[p].action = a}

GovernedWrites ==
  /\ \A k \in RoleKey : roles'[k] # roles[k] =>
       \E a \in Enacted : GovernsRole(a, k)
  /\ \A s \in StatusId : statuses'[s] # statuses[s] =>
       \E a \in Enacted : GovernsStatus(a, s)
  /\ \A d \in Did : dids'[d] # dids[d] /\ dids[d] # Absent =>
       \E a \in Enacted : GovernsDid(a, d)
  /\ \A i \in AssetId : assets'[i] # assets[i] =>
       \E a \in Enacted : GovernsAsset(a, i)

\* ExecuteProposal is "the ONLY path to any privileged state change"
\* (governance.contract.ts:170): every change of a role, status, asset or
\* registered DID is the step that executes a proposal, which names the key
\* changed and has its quorum.  Registering a new DID is the exception.
WritesAreGoverned == [][GovernedWrites]_vars

Settled ==
  \A p \in ProposalId : Exists(p) =>
    /\ proposals[p].status # "PENDING" => proposals'[p] = proposals[p]
    /\ proposals'[p].action = proposals[p].action
    /\ \A i \in DOMAIN proposals[p].approvals :
         proposals'[p].approvals[i] = proposals[p].approvals[i]

\* A proposal executes at most once and a cancelled one never: once settled,
\* nothing of it changes.  While it is pending its action is fixed and approvals
\* are only added.
SettledIsFinal == [][Settled]_vars

\* A role that hasActiveRole reports at some time was granted, to that subject
\* and until then or longer, by an executed proposal.
ActiveRoleWasGranted ==
  \A r \in RoleId, s \in Did, t \in Time : HasActiveRole(r, s, t) =>
    \E p \in ProposalId :
      /\ HasStatus(p, "EXECUTED")
      /\ proposals[p].action.type = "GRANT_ROLE"
      /\ proposals[p].action.role = r
      /\ proposals[p].action.subject = s
      /\ proposals[p].action.expiry >= t
      /\ proposals[p].action.expiry > proposals[p].executedAt

Activates(a, r, s) ==
  \/ a.type = "GRANT_ROLE" /\ a.role = r /\ a.subject = s
  \/ /\ a.type = "SET_CREDENTIAL_STATUS"
     /\ a.status = StatusIdFor(r, s)
     /\ ~a.revoked

GovernedActivation ==
  \A r \in RoleId, s \in Did, t \in Time :
    ~HasActiveRole(r, s, t) /\ HasActiveRole(r, s, t)' =>
      \E a \in Enacted : Activates(a, r, s)

\* A role that is not active for some time becomes active for it only by the
\* execution of a grant of that role, or of a SET_CREDENTIAL_STATUS that takes
\* back the revocation of its status id: never as a side effect of another
\* proposal, of a cancellation or of an approval.
ActivationIsGoverned == [][GovernedActivation]_vars

\* "Keep the shared status registry in step" (registry.ts:180): as long as no
\* SET_CREDENTIAL_STATUS addressed a role's status id, the status registry says
\* of a role exactly what the role registry says, after any sequence of grants,
\* early revocations and regrants.
RegistriesInStep ==
  \A r \in RoleId, s \in Did :
    \/ \E p \in ProposalId :
         /\ HasStatus(p, "EXECUTED")
         /\ proposals[p].action.type = "SET_CREDENTIAL_STATUS"
         /\ proposals[p].action.status = StatusIdFor(r, s)
    \/ /\ roles[<<r, s>>] = Absent
       /\ statuses[StatusIdFor(r, s)] = Absent
    \/ /\ roles[<<r, s>>] # Absent
       /\ statuses[StatusIdFor(r, s)] =
            [revoked |-> ~roles[<<r, s>>].granted, expiry |-> roles[<<r, s>>].expiry]

ExecutedMints ==
  {p \in ProposalId : HasStatus(p, "EXECUTED")
                         /\ proposals[p].action.type = "MINT_ASSET"}

\* The asset ids in use are exactly those below the counter, and each was given
\* to one executed MINT_ASSET proposal: no id is skipped, shared or reused.
MintsMatchCounter ==
  /\ \A i \in AssetId : assets[i] # Absent <=> i < assetCounter
  /\ Cardinality(ExecutedMints) = assetCounter
  /\ \A p, q \in ExecutedMints : proposals[p].result = proposals[q].result => p = q

Received(i, d) ==
  {p \in ProposalId :
     /\ HasStatus(p, "EXECUTED")
     /\ LET a == proposals[p].action
        IN  \/ a.type = "MINT_ASSET" /\ proposals[p].result = i /\ a.owner = d
            \/ a.type = "TRANSFER_ASSET" /\ a.asset = i /\ a.to = d}

Sent(i, d) ==
  {p \in ProposalId :
     /\ HasStatus(p, "EXECUTED")
     /\ proposals[p].action.type = "TRANSFER_ASSET"
     /\ proposals[p].action.asset = i
     /\ proposals[p].action.from = d}

\* Custody is conserved: whoever owns an asset received it, by its mint or by
\* executed transfers, exactly once more often than they handed it on; everybody
\* else handed it on as often as they received it.  So of several approved
\* transfers by one owner at most one executes per time that owner holds it.
CustodyBalances ==
  \A i \in AssetId, d \in Did :
    Cardinality(Received(i, d)) =
      Cardinality(Sent(i, d))
        + (IF assets[i] # Absent /\ assets[i].owner = d THEN 1 ELSE 0)
=============================================================================
