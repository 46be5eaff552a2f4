---------------------------- MODULE GovernanceApi ----------------------------
(***************************************************************************)
(* Governance as people reach it: the HTTP routes for admins               *)
(* (routes/fabric/governance.routes.ts, and those of the roles, assets and *)
(* credentials routes that propose), composed with the ledger.             *)
(*                                                                         *)
(* One backend holds the identities of all organizations.  A route first   *)
(* reads on the ledger whether the person of the session is an Admin, an   *)
(* approval then looks up that person's organization, and only then is a   *)
(* transaction submitted: as that organization for an approval, as         *)
(* primaryOrg for everything else.  Other requests are handled between     *)
(* these awaits, and the role may be gone by the time of the submission.   *)
(*                                                                         *)
(* One request governs without any admin: the guardian's vote that         *)
(* completes a recovery, for which the backend itself proposes, approves   *)
(* as further organizations and executes.  The requests and votes behind   *)
(* it are module Recovery's.                                               *)
(***************************************************************************)
EXTENDS TrustMeshLedger

CONSTANTS
  AdminRole,
  PrimaryOrg,     \* fabricConfig.primaryOrg
  OrgAdmins,      \* org_admins: per DID its organization, or Absent
  GenesisExpiry,  \* the expiry of the Admin roles granted by bootstrap.ts
  BirthKey,       \* the key that each DID is registered with
  Call,           \* requests that the backend handles at once
  Idle            \* a call that is not under way

VARIABLES
  calls,
  author,       \* history: the person who proposed each proposal
  approvedBy,   \* history: the people whose call to /approve was recorded
  vouched       \* history: the organizations that a recovery approved as

history == <<author, approvedBy, vouched>>
apiVars == <<calls, history>>

ASSUME PeopleAssumption ==
  /\ AdminRole \in RoleId
  /\ PrimaryOrg \in Org
  /\ OrgAdmins \in [Did -> Org \cup {Absent}]
  /\ GenesisExpiry \in Nat
  /\ BirthKey \in [Did -> Key]
  /\ Absent \notin Org
  /\ Absent \notin Did

-----------------------------------------------------------------------------
\* bootstrap.ts has granted the founders their role, by proposals that are over
\* and not among those of the model, and assigned each an organization.  Everybody
\* is registered: onboarding is the subject of Recovery.
FoundersKey(k) == k[1] = AdminRole /\ OrgAdmins[k[2]] # Absent

GenesisRole(k) == IF FoundersKey(k) THEN RoleGrant(GenesisExpiry) ELSE Absent
GenesisStatus(s) ==
  IF s \in RoleKey /\ FoundersKey(s)
  THEN [revoked |-> FALSE, expiry |-> GenesisExpiry] ELSE Absent

ApiInit ==
  /\ proposals = [p \in ProposalId |-> Absent]
  /\ dids = [d \in Did |-> [controller |-> BirthKey[d]]]
  /\ roles = [k \in RoleKey |-> GenesisRole(k)]
  /\ statuses = [s \in StatusId |-> GenesisStatus(s)]
  /\ assets = [i \in AssetId |-> Absent]
  /\ assetCounter = 0
  /\ clock = 0
  /\ calls = [c \in Call |-> Idle]
  /\ author = [p \in ProposalId |-> Absent]
  /\ approvedBy = [p \in ProposalId |-> {}]
  /\ vouched = [p \in ProposalId |-> {}]

At(c, route, step) ==
  calls[c] # Idle /\ calls[c].route = route /\ calls[c].at = step
Return(c) == calls' = [calls EXCEPT ![c] = Idle]

\* The approval queue, expired proposals among it.
QueryPendingProposals == {p \in ProposalId : HasStatus(p, "PENDING")}

\* requireRole('Admin'): what it read is not looked at again.  A request names an
\* action to propose, or a proposal that its sender has seen pending; for one that is
\* settled by now it would be refused.
RequireAdmin(c, who, call) ==
  /\ calls[c] = Idle
  /\ HasActiveRole(AdminRole, who, clock)
  /\ calls' = [calls EXCEPT ![c] = call]
  /\ UNCHANGED <<vars, history>>

\* What an admin can propose; minting takes a document first: AssetDocuments.  No
\* route of an admin's rotates a controller, or takes back a revocation.
RoleRoute(a) == a.type \in {"GRANT_ROLE", "REVOKE_ROLE"}
TransferRoute(a) == a.type = "TRANSFER_ASSET"
CredentialRoute(a) ==
  a.type = "SET_CREDENTIAL_STATUS" /\ a.revoked /\ a.expiry = Absent

BeginProposal(c, who, a) ==
  /\ RoleRoute(a) \/ TransferRoute(a) \/ CredentialRoute(a)
  /\ RequireAdmin(c, who, [route |-> "propose", at |-> "submit", who |-> who, action |-> a])

BeginApproval(c, who, p) ==
  /\ p \in QueryPendingProposals
  /\ RequireAdmin(c, who, [route |-> "approve", at |-> "lookup", who |-> who, proposal |-> p])

BeginOther(c, who, route, p) ==
  /\ p \in QueryPendingProposals
  /\ RequireAdmin(c, who, [route |-> route, at |-> "submit", proposal |-> p])

\* getOrgForDidHash: nobody without an organization gets further.
LookupOrg(c) ==
  /\ At(c, "approve", "lookup")
  /\ OrgAdmins[calls[c].who] # Absent
  /\ calls' = [calls EXCEPT ![c].at = "submit"]
  /\ UNCHANGED <<vars, history>>

\* Faulty: an organization of the caller's choice.
ChosenOrg(who) == CHOOSE org \in Org : org # PrimaryOrg

\* The organization that an approval is submitted as.
SigningOrg(who) == OrgAdmins[who]

HttpPropose(c, p, t) ==
  /\ At(c, "propose", "submit")
  /\ ProposeAction(PrimaryOrg, p, calls[c].action, t)
  /\ author' = [author EXCEPT ![p] = calls[c].who]
  /\ Return(c)
  /\ UNCHANGED <<approvedBy, vouched>>

HttpApprove(c, t) ==
  /\ At(c, "approve", "submit")
  /\ ApproveProposal(SigningOrg(calls[c].who), calls[c].proposal, t)
  /\ approvedBy' = [approvedBy EXCEPT ![calls[c].proposal] = @ \cup {calls[c].who}]
  /\ Return(c)
  /\ UNCHANGED <<author, vouched>>

HttpExecute(c, t) ==
  /\ At(c, "execute", "submit")
  /\ ExecuteProposal(calls[c].proposal, t)
  /\ Return(c)
  /\ UNCHANGED history

HttpCancel(c) ==
  /\ At(c, "cancel", "submit")
  /\ CancelProposal(PrimaryOrg, calls[c].proposal)
  /\ Return(c)
  /\ UNCHANGED history

-----------------------------------------------------------------------------
\* POST /recovery/vote, from the vote on that completes the guardians' threshold:
\* proposeApproveExecute of a rebind.  No admin takes part; anybody's rebind may
\* come, for which votes lead here is a matter of Recovery.

RecoveryRoute(a) == a.type = "UPDATE_CONTROLLER"

BeginRecovery(c, a) ==
  /\ RecoveryRoute(a)
  /\ calls[c] = Idle
  /\ calls' = [calls EXCEPT ![c] = [route |-> "recovery", at |-> "propose", action |-> a]]
  /\ UNCHANGED <<vars, history>>

RecoveryPropose(c, p, t) ==
  /\ At(c, "recovery", "propose")
  /\ ProposeAction(PrimaryOrg, p, calls[c].action, t)
  /\ calls' = [calls EXCEPT ![c] = [route |-> "recovery", at |-> "approve",
                                   proposal |-> p, approved |-> {PrimaryOrg}]]
  /\ UNCHANGED history

EnoughApproved(c) == Cardinality(calls[c].approved) >= Threshold

\* The loop over ORG_KEYS; which organization comes next matters in Recovery only.
\* When it has approved by now, as an admin's, the approval is refused and the call
\* fails.
RecoveryApprove(c, org, t) ==
  /\ At(c, "recovery", "approve")
  /\ ~EnoughApproved(c)
  /\ org \notin calls[c].approved
  /\ ApproveProposal(org, calls[c].proposal, t)
  /\ calls' = [calls EXCEPT ![c].approved = @ \cup {org}]
  /\ vouched' = [vouched EXCEPT ![calls[c].proposal] = @ \cup {org}]
  /\ UNCHANGED <<author, approvedBy>>

RecoveryExecute(c, t) ==
  /\ At(c, "recovery", "approve")
  /\ EnoughApproved(c)
  /\ ExecuteProposal(calls[c].proposal, t)
  /\ Return(c)
  /\ UNCHANGED history

-----------------------------------------------------------------------------
\* Refused, by the route or by the chaincode, or cut off.
Fail(c) ==
  /\ calls[c] # Idle
  /\ Return(c)
  /\ UNCHANGED <<vars, history>>

\* All but an admin's submission of a proposal.
ApiStep ==
  \/ \E c \in Call, who \in Did, a \in Action : BeginProposal(c, who, a)
  \/ \E c \in Call, who \in Did, p \in ProposalId : BeginApproval(c, who, p)
  \/ \E c \in Call, who \in Did, p \in ProposalId, route \in {"execute", "cancel"} :
       BeginOther(c, who, route, p)
  \/ \E c \in Call : LookupOrg(c)
  \/ \E c \in Call, t \in TxTime : HttpApprove(c, t)
  \/ \E c \in Call, t \in TxTime : HttpExecute(c, t)
  \/ \E c \in Call : HttpCancel(c)
  \/ \E c \in Call, a \in Action : BeginRecovery(c, a)
  \/ \E c \in Call, p \in ProposalId, t \in TxTime : RecoveryPropose(c, p, t)
  \/ \E c \in Call, org \in Org, t \in TxTime : RecoveryApprove(c, org, t)
  \/ \E c \in Call, t \in TxTime : RecoveryExecute(c, t)
  \/ \E c \in Call : Fail(c)
  \/ Tick /\ UNCHANGED apiVars

ApiNext ==
  \/ \E c \in Call, p \in ProposalId, t \in TxTime : HttpPropose(c, p, t)
  \/ ApiStep

ApiSpec == ApiInit /\ [][ApiNext]_<<vars, apiVars>>

-----------------------------------------------------------------------------
\* Beyond the proposer's own, every approval on the ledger stands for one call: of
\* one person to /approve, who represents the organization that signed it, or of a
\* recovery, which approves as each organization once and never what an admin
\* proposed.  Nobody appears twice, whatever that person calls and however often,
\* and nothing but a controller's rotation is on the ledger without a person who
\* proposed it, or approved without one.
ApprovalsAreAttributable ==
  \A p \in ProposalId : Exists(p) =>
    LET given == proposals[p].approvals
    IN  /\ given[1].org = PrimaryOrg
        /\ {given[i].org : i \in 2 .. Len(given)} =
             {OrgAdmins[w] : w \in approvedBy[p]} \cup vouched[p]
        /\ Cardinality(approvedBy[p]) + Cardinality(vouched[p]) = Len(given) - 1
        /\ vouched[p] # {} => author[p] = Absent
        /\ author[p] = Absent => proposals[p].action.type = "UPDATE_CONTROLLER"

\* Admins of the primary organization, which signs every proposal, never reach
\* the quorum among themselves: whatever was executed, but for the rotation of a
\* controller, a person approved who represents another organization.
QuorumNeedsAnotherOrg ==
  \A p \in ProposalId :
    HasStatus(p, "EXECUTED") /\ proposals[p].action.type # "UPDATE_CONTROLLER" =>
      \E w \in approvedBy[p] : OrgAdmins[w] \notin {PrimaryOrg, Absent}

\* "A different, real human holding a different organization's Admin credential is
\* now structurally required for the second approval" (governance.routes.ts:68): of
\* an executed proposal that a person made, that person and the approvers are two
\* at least.
SecondHumanRequired ==
  \A p \in ProposalId : HasStatus(p, "EXECUTED") /\ author[p] # Absent =>
    Cardinality(approvedBy[p] \cup {author[p]}) >= 2
=============================================================================
