------------------------ MODULE AssetDocumentsProofs ------------------------
(***************************************************************************)
(* What governance over HTTP and the asset documents promise, for every    *)
(* number of people, organizations, overlapping calls and uploads.         *)
(*                                                                         *)
(* Every step of the backend is a step of the ledger, or none, so what the *)
(* ledger's steps preserve (TrustMeshLedgerProofs) holds here as well.     *)
(* The rest of the invariant says what each call has established before    *)
(* the await it is at (Standing), whom the approvals of a proposal stand   *)
(* for (Attributed), and that every CID belongs to one upload, of which at *)
(* most one call or proposal has the use (OwnCids, Documented).            *)
(***************************************************************************)
EXTENDS AssetDocuments, TrustMeshLedgerProofs

Minting == {a \in Action : a.type = "MINT_ASSET"}
NotMinting == {a \in Action : a.type # "MINT_ASSET"}

Proposing == [route : {"propose"}, at : {"submit"}, who : Did, action : NotMinting]
Documenting ==
  [route : {"propose"}, at : {"submit"}, who : Did, action : Minting, cid : Nat]
Approving ==
  [route : {"approve"}, at : {"lookup", "submit"}, who : Did, proposal : ProposalId]
Settling == [route : {"execute", "cancel"}, at : {"submit"}, proposal : ProposalId]
Uploading ==
  [route : {"mint"}, at : {"upload"}, who : Did, action : Minting, file : File]
Storing == [route : {"mint"}, at : {"store key"}, who : Did, action : Minting, cid : Nat]
Reading ==
  [route : {"document"}, at : {"admin?", "auditor?", "key", "fetch"}, who : Did,
   asset : AssetId, cid : Nat \cup {Absent}]
Rebinding ==
  [route : {"recovery"}, at : {"propose"},
   action : {a \in Action : a.type = "UPDATE_CONTROLLER"}]
Vouching ==
  [route : {"recovery"}, at : {"approve"}, proposal : ProposalId, approved : SUBSET Org]

CallState ==
  Proposing \cup Documenting \cup Approving \cup Settling \cup Uploading \cup Storing
    \cup Reading \cup Rebinding \cup Vouching

ApiTypes ==
  /\ calls \in [Call -> CallState \cup {Idle}]
  /\ author \in [ProposalId -> Did \cup {Absent}]
  /\ approvedBy \in [ProposalId -> SUBSET Did]
  /\ vouched \in [ProposalId -> SUBSET Org]

DocTypes ==
  /\ ipfs \in Seq(File)
  /\ keyRows \in SUBSET Nat
  /\ cidOf \in [ProposalId -> Nat \cup {Absent}]
  /\ delivered \in SUBSET (Did \X AssetId)

\* The organizations that approved after the proposer's, and those of some people.
LaterOrgs(given) == {given[i].org : i \in 2 .. Len(given)}
Represented(people) == {OrgAdmins[w] : w \in people}

\* Whom the approvals of a proposal stand for: people, or a recovery.
Attributed(p) ==
  LET given == proposals[p].approvals
  IN  /\ IsFiniteSet(approvedBy[p]) /\ IsFiniteSet(vouched[p])
      /\ ~Exists(p) => approvedBy[p] = {} /\ vouched[p] = {} /\ author[p] = Absent
      /\ Exists(p) =>
           /\ given[1].org = PrimaryOrg
           /\ LaterOrgs(given) = Represented(approvedBy[p]) \cup vouched[p]
           /\ Cardinality(approvedBy[p]) + Cardinality(vouched[p]) = Len(given) - 1
           /\ vouched[p] # {} => author[p] = Absent
           /\ author[p] = Absent => proposals[p].action.type = "UPDATE_CONTROLLER"

\* A proposal that no person made.
Unauthored(p) == Exists(p) /\ author[p] = Absent

\* A role on record was granted, by the bootstrap or by an executed proposal.
GrantsTrace ==
  \A r \in RoleId, s \in Did : roles[<<r, s>>] # Absent =>
    \/ GenesisRole(<<r, s>>) # Absent
    \/ \E p \in ProposalId :
         /\ HasStatus(p, "EXECUTED")
         /\ proposals[p].action.type = "GRANT_ROLE"
         /\ proposals[p].action.role = r
         /\ proposals[p].action.subject = s

\* An upload that can be read back once its key is stored.
Stored(k) == k \in DOMAIN ipfs /\ DetectAllowedFileType(ipfs[k])

\* A call that has an upload in hand.
Carries(x) ==
  /\ x # Idle
  /\ \/ x.route = "mint" /\ x.at = "store key"
     \/ x.route = "propose" /\ x.action.type = "MINT_ASSET"

Standing(c) ==
  LET x == calls[c]
  IN  /\ x.route = "approve" /\ x.at = "submit" => OrgAdmins[x.who] # Absent
      /\ x.route = "mint" /\ x.at = "upload" => DetectAllowedFileType(x.file)
      /\ Carries(x) => Stored(x.cid)
      /\ Carries(x) /\ x.route = "propose" => x.cid \in keyRows
      /\ x.route = "document" /\ x.at \in {"key", "fetch"} => EverEntitled(x.who, x.asset)
      /\ x.route = "recovery" /\ x.at = "approve" => Unauthored(x.proposal)

OwnCids ==
  /\ \A b, c \in Call : b # c /\ Carries(calls[b]) /\ Carries(calls[c]) =>
       calls[b].cid # calls[c].cid
  /\ \A c \in Call, p \in ProposalId : Carries(calls[c]) => cidOf[p] # calls[c].cid
  /\ \A p, q \in ProposalId : p # q /\ cidOf[p] # Absent => cidOf[q] # cidOf[p]

Documented(p) ==
  /\ Exists(p) /\ proposals[p].action.type = "MINT_ASSET" => cidOf[p] # Absent
  /\ cidOf[p] # Absent => Exists(p) /\ Stored(cidOf[p]) /\ cidOf[p] \in keyRows

AllMinted == \A i \in AssetId : assets[i] # Absent => Minted(i) # {}

LedgerInv ==
  /\ TypeOK
  /\ QuorumInv
  /\ MintsInv
  /\ CustodyBalances
  /\ AllMinted
  /\ GrantsTrace

DocInv ==
  /\ LedgerInv
  /\ ApiTypes
  /\ DocTypes
  /\ \A c \in Call : calls[c] # Idle => Standing(c)
  /\ \A p \in ProposalId : Attributed(p)
  /\ OwnCids
  /\ \A p \in ProposalId : Documented(p)
  /\ \A d \in delivered : EverEntitled(d[1], d[2])

\* What no step undoes.
ProposalsLast ==
  \A p \in ProposalId : Exists(p) =>
    Exists(p)' /\ proposals'[p].action = proposals[p].action
UploadsLast ==
  /\ \A k \in Nat : Stored(k) => Stored(k)'
  /\ keyRows \subseteq keyRows'
EntitledLast == \A who \in Did, i \in AssetId : EverEntitled(who, i) => EverEntitled(who, i)'
UnauthoredLast == \A p \in ProposalId : Unauthored(p) => Unauthored(p)'

-----------------------------------------------------------------------------
\* The ledger under the backend.

LEMMA InitLedger == ApiInit => LedgerInv
<1> SUFFICES ASSUME ApiInit
             PROVE  LedgerInv
  OBVIOUS
<1>1. \A p \in ProposalId : ~Exists(p) /\ ~HasStatus(p, "EXECUTED")
  BY DEF ApiInit, Exists, HasStatus
<1>2. TypeOK
  <2>1. \A k \in RoleKey : GenesisRole(k) \in RoleRecord \cup {Absent}
    BY PeopleAssumption DEF GenesisRole, RoleGrant, RoleRecord
  <2>2. \A s \in StatusId : GenesisStatus(s) \in StatusRecord \cup {Absent}
    BY PeopleAssumption DEF GenesisStatus, StatusRecord
  <2>3. \A d \in Did : [controller |-> BirthKey[d]] \in DidRecord
    BY PeopleAssumption DEF DidRecord
  <2>4. 0 \in Time /\ 0 \in 0 .. MaxAssets
    BY ParametersAssumption DEF Time
  <2>5. QED
    BY <2>1, <2>2, <2>3, <2>4 DEF ApiInit, TypeOK
<1>3. QuorumInv
  BY <1>1 DEF QuorumInv
<1>4. MintsInv
  <2>1. ExecutedMints = {}
    BY <1>1 DEF ExecutedMints
  <2>2. Cardinality(ExecutedMints) = 0
    BY <2>1, FS_EmptySet
  <2>3. QED
    BY <2>1, <2>2 DEF ApiInit, MintsInv, MintsMatchCounter, AssetId
<1>5. CustodyBalances
  <2>1. \A i \in AssetId, d \in Did : Received(i, d) = {} /\ Sent(i, d) = {}
    BY <1>1 DEF Received, Sent
  <2>2. Cardinality({}) = 0
    BY FS_EmptySet
  <2>3. \A i \in AssetId : assets[i] = Absent
    BY DEF ApiInit
  <2>4. QED
    BY <2>1, <2>2, <2>3 DEF CustodyBalances
<1>6. AllMinted
  BY DEF ApiInit, AllMinted
<1>7. GrantsTrace
  BY DEF ApiInit, GrantsTrace, RoleKey
<1>8. QED
  BY <1>2, <1>3, <1>4, <1>5, <1>6, <1>7 DEF LedgerInv

LEMMA ActionFields ==
  ASSUME NEW a \in Action
  PROVE  /\ a.type = "GRANT_ROLE" => a.role \in RoleId /\ a.subject \in Did
         /\ a.type = "REVOKE_ROLE" => a.role \in RoleId /\ a.subject \in Did
         /\ a.type = "MINT_ASSET" => a.owner \in Did
         /\ a.type = "TRANSFER_ASSET" =>
              a.asset \in AssetId /\ a.from \in Did /\ a.to \in Did
  BY ActionAssumption
     DEF PrivilegedAction, GrantRole, RevokeRole, MintAsset, TransferAsset,
         UpdateController, SetCredentialStatus

LEMMA NextGrantsTrace ==
  ASSUME TypeOK, GrantsTrace, [Next]_vars
  PROVE  GrantsTrace'
<1> SUFFICES ASSUME NEW r \in RoleId, NEW s \in Did, roles'[<<r, s>>] # Absent
             PROVE  \/ GenesisRole(<<r, s>>) # Absent
                    \/ \E p \in ProposalId :
                         /\ HasStatus(p, "EXECUTED")'
                         /\ proposals'[p].action.type = "GRANT_ROLE"
                         /\ proposals'[p].action.role = r
                         /\ proposals'[p].action.subject = s
  BY DEF GrantsTrace, GenesisRole, FoundersKey
<1>0. <<r, s>> \in RoleKey
  BY DEF RoleKey
<1>1. CASE roles[<<r, s>>] # Absent
  BY <1>1, ExecutedStays DEF GrantsTrace
<1>2. CASE roles[<<r, s>>] = Absent
  <2>1. PICK p \in ProposalId, t \in TxTime : ExecuteProposal(p, t)
    BY <1>2, OthersKeepRoles
  <2> DEFINE a == proposals[p].action
  <2>2. /\ t \in Time
        /\ a \in Action
        /\ Dispatch(a, t)
        /\ proposals'[p] # Absent
        /\ proposals'[p].status = "EXECUTED"
        /\ proposals'[p].action = a
    BY <2>1, ExecuteFacts
  <2>3. GovernsRole(a, <<r, s>>)
    BY <1>0, <1>2, <2>2, DispatchNamesKeys
  <2> HIDE DEF a
  <2>4. a.role = r /\ a.subject = s
    BY <2>3 DEF GovernsRole
  <2>5. a.type # "REVOKE_ROLE"
    BY <1>2, <2>2, <2>4 DEF Dispatch, RevokeRoleEarly, IsGranted
  <2>6. a.type = "GRANT_ROLE"
    BY <2>3, <2>5 DEF GovernsRole
  <2>7. QED
    BY <2>2, <2>4, <2>6 DEF HasStatus, Exists
<1>3. QED
  BY <1>1, <1>2

LEMMA NextAllMinted ==
  ASSUME TypeOK, MintsInv, AllMinted, [Next]_vars
  PROVE  AllMinted'
<1> SUFFICES ASSUME NEW i \in AssetId, assets'[i] # Absent
             PROVE  \E p \in ProposalId :
                      HasStatus(p, "EXECUTED")' /\ proposals'[p].result = i
  BY DEF AllMinted, Minted
<1>1. CASE assets[i] # Absent
  <2>1. PICK p \in ProposalId : HasStatus(p, "EXECUTED") /\ proposals[p].result = i
    BY <1>1 DEF AllMinted, Minted
  <2>2. QED
    BY <2>1, ExecutedStays
<1>2. CASE assets[i] = Absent
  <2>1. PICK p \in ProposalId, t \in TxTime : ExecuteProposal(p, t)
    BY <1>2, OthersKeepAssets
  <2> DEFINE a == proposals[p].action
  <2>2. a \in Action /\ Dispatch(a, t)
    BY <2>1, ExecuteFacts
  <2>3. assets \in [AssetId -> AssetRecord \cup {Absent}]
    BY DEF TypeOK
  <2> HIDE DEF a
  <2>4. a.type = "MINT_ASSET" /\ i = assetCounter
    <3>1. CASE a.type = "MINT_ASSET"
      BY <1>2, <2>2, <2>3, <3>1 DEF Dispatch, Mint
    <3>2. CASE a.type = "TRANSFER_ASSET"
      <4>1. a.asset \in AssetId /\ assets[a.asset] # Absent
        BY <2>2, <3>2, ActionFields DEF Dispatch, Transfer, IsOwner
      <4>2. assets' = [assets EXCEPT ![a.asset].owner = a.to]
        BY <2>2, <3>2 DEF Dispatch, Transfer
      <4>3. i # a.asset
        BY <1>2, <4>1
      <4>4. assets'[i] = assets[i]
        BY <2>3, <4>1, <4>2, <4>3
      <4>5. QED
        BY <1>2, <4>4
    <3>3. CASE a.type \notin {"MINT_ASSET", "TRANSFER_ASSET"}
      <4>1. assets' = assets
        BY <2>2, <3>3
           DEF Dispatch, GrantRoleWithExpiry, RevokeRoleEarly, UpdateDidController
      <4>2. QED
        BY <1>2, <4>1
    <3>4. QED
      BY <3>1, <3>2, <3>3
  <2>5. proposals'[p].result = i
    BY <2>1, <2>4, ExecutionMints DEF a
  <2>6. HasStatus(p, "EXECUTED")'
    BY <2>1, ExecuteFacts DEF HasStatus, Exists
  <2>7. QED
    BY <2>5, <2>6
<1>3. QED
  BY <1>1, <1>2

LEMMA NextLedger ==
  ASSUME LedgerInv, [Next]_vars
  PROVE  LedgerInv'
  BY NextType, NextQuorum, NextMints, NextCustody, NextAllMinted, NextGrantsTrace
     DEF LedgerInv

LEMMA LedgerLasts ==
  ASSUME TypeOK, [Next]_vars
  PROVE  ProposalsLast /\ EntitledLast
<1>1. TypeOK'
  BY NextType
<1>2. ProposalsLast
  <2> SUFFICES ASSUME NEW p \in ProposalId, Exists(p)
               PROVE  Exists(p)' /\ proposals'[p].action = proposals[p].action
    BY DEF ProposalsLast
  <2>1. proposals'[p].action = proposals[p].action
    BY StepsSettle DEF Settled
  <2>2. Exists(p)'
    <3>1. ASSUME NEW q \in ProposalId, NEW pr, pr # Absent,
                 proposals' = [proposals EXCEPT ![q] = pr]
          PROVE  Exists(p)'
      BY <3>1 DEF TypeOK, Exists
    <3>2. CASE UNCHANGED proposals
      BY <3>2 DEF Exists
    <3>3. ASSUME NEW org \in Org, NEW q \in ProposalId, NEW a \in Action,
                 NEW t \in TxTime, ProposeAction(org, q, a, t)
          PROVE  Exists(p)'
      BY <3>3, ProposeFacts DEF Exists
    <3>4. ASSUME NEW org \in Org, NEW q \in ProposalId, NEW t \in TxTime,
                 ApproveProposal(org, q, t)
          PROVE  Exists(p)'
      <4> DEFINE ap == Append(proposals[q].approvals, [org |-> org, at |-> t])
      <4>1. /\ proposals[q] \in Proposal
            /\ proposals' = [proposals EXCEPT ![q] = [proposals[q] EXCEPT !.approvals = ap]]
        BY <3>4, ApproveFacts DEF ApproveProposal, WithApproval
      <4>2. ap \in Seq(Approval)
        BY <4>1 DEF Proposal, Approval, TxTime
      <4> HIDE DEF ap
      <4>3. [proposals[q] EXCEPT !.approvals = ap] \in Proposal
        BY <4>1, <4>2 DEF Proposal
      <4>4. QED
        BY <3>1, <4>1, <4>3, AbsentAssumption
    <3>5. ASSUME NEW q \in ProposalId, NEW t \in TxTime, ExecuteProposal(q, t)
          PROVE  Exists(p)'
      BY <3>5, ExecuteFacts DEF Exists
    <3>6. ASSUME NEW org \in Org, NEW q \in ProposalId, CancelProposal(org, q)
          PROVE  Exists(p)'
      <4>1. /\ proposals[q] \in Proposal
            /\ proposals' = [proposals EXCEPT ![q] = [proposals[q] EXCEPT !.status = "CANCELLED"]]
        BY <3>6, CancelFacts DEF CancelProposal
      <4>2. [proposals[q] EXCEPT !.status = "CANCELLED"] \in Proposal
        BY <4>1 DEF Proposal
      <4>3. QED
        BY <3>1, <4>1, <4>2, AbsentAssumption
    <3>7. QED
      BY <3>2, <3>3, <3>4, <3>5, <3>6 DEF Next, vars, RegisterDID, Tick
  <2>3. QED
    BY <2>1, <2>2
<1>3. EntitledLast
  <2> SUFFICES ASSUME NEW who \in Did, NEW i \in AssetId, EverEntitled(who, i)
               PROVE  EverEntitled(who, i)'
    BY DEF EntitledLast
  <2>1. CASE GenesisRole(<<AdminRole, who>>) # Absent
    BY <2>1 DEF EverEntitled, GenesisRole, FoundersKey
  <2>2. ASSUME NEW p \in ProposalId, HasStatus(p, "EXECUTED"),
               LET a == proposals[p].action
               IN  \/ a.type = "MINT_ASSET" /\ proposals[p].result = i /\ a.owner = who
                   \/ a.type = "TRANSFER_ASSET" /\ a.asset = i /\ a.to = who
                   \/ a.type = "GRANT_ROLE" /\ a.role \in {AdminRole, AuditorRole}
                        /\ a.subject = who
        PROVE  EverEntitled(who, i)'
    BY <2>2, ExecutedStays DEF EverEntitled
  <2>3. QED
    BY <2>1, <2>2 DEF EverEntitled
<1>4. QED
  BY <1>2, <1>3

LEMMA AuthorsLast ==
  ASSUME TypeOK, [Next]_vars,
         \A p \in ProposalId : Exists(p) => author'[p] = author[p]
  PROVE  UnauthoredLast
  BY LedgerLasts DEF UnauthoredLast, Unauthored, ProposalsLast

\* Who may read, may because of something that was executed, or of the bootstrap.
LEMMA OwnersAreEntitled ==
  ASSUME LedgerInv, NEW i \in AssetId, NEW who \in Did, assets[i] # Absent,
         assets[i].owner = who
  PROVE  EverEntitled(who, i)
<1>1. Cardinality(Received(i, who)) = Cardinality(Sent(i, who)) + 1
  BY DEF LedgerInv, CustodyBalances
<1>2. Cardinality(Sent(i, who)) \in Nat
  BY HandoversAreFinite, FS_CardinalityType
<1>3. Received(i, who) # {}
  BY <1>1, <1>2, FS_EmptySet
<1>4. QED
  BY <1>3 DEF Received, EverEntitled

LEMMA RolesAreEntitled ==
  ASSUME LedgerInv, NEW r \in {AdminRole, AuditorRole}, NEW who \in Did, NEW i \in AssetId,
         NEW t, HasActiveRole(r, who, t)
  PROVE  EverEntitled(who, i)
<1>1. r \in RoleId /\ roles[<<r, who>>] # Absent
  BY PeopleAssumption, RolesAssumption DEF HasActiveRole
<1>2. CASE GenesisRole(<<r, who>>) # Absent
  BY <1>2 DEF GenesisRole, FoundersKey, RoleGrant, EverEntitled
<1>3. CASE GenesisRole(<<r, who>>) = Absent
  BY <1>1, <1>3 DEF LedgerInv, GrantsTrace, EverEntitled
<1>4. QED
  BY <1>2, <1>3

-----------------------------------------------------------------------------
\* What a step does to the call that takes it, and leaves alone.

Moves(c, x) ==
  /\ calls' \in [Call -> CallState \cup {Idle}]
  /\ \A b \in Call : b # c => calls'[b] = calls[b]
  /\ calls'[c] = x

LEMMA Moving ==
  ASSUME ApiTypes, NEW c \in Call, NEW x \in CallState \cup {Idle},
         calls' = [calls EXCEPT ![c] = x]
  PROVE  Moves(c, x)
  BY DEF ApiTypes, Moves

LEMMA CallFields ==
  ASSUME ApiTypes, NEW c \in Call, calls[c] # Idle
  PROVE  LET x == calls[c]
         IN  /\ x \in CallState
             /\ x.route = "propose" => x \in Proposing \cup Documenting
             /\ x.route = "approve" => x \in Approving
             /\ x.route \in {"execute", "cancel"} => x \in Settling
             /\ x.route = "mint" /\ x.at = "upload" => x \in Uploading
             /\ x.route = "mint" /\ x.at = "store key" => x \in Storing
             /\ x.route = "document" => x \in Reading
             /\ x.route = "recovery" /\ x.at = "propose" => x \in Rebinding
             /\ x.route = "recovery" /\ x.at = "approve" => x \in Vouching
<1>1. calls[c] \in CallState
  BY DEF ApiTypes
<1>2. QED
  BY <1>1 DEF CallState, Proposing, Documenting, Approving, Settling, Uploading, Storing,
              Reading, Rebinding, Vouching

LEMMA CarriedCids ==
  ASSUME ApiTypes, NEW c \in Call, Carries(calls[c])
  PROVE  calls[c] # Idle /\ calls[c].cid \in Nat
  BY CallFields DEF Carries, Proposing, Documenting, Storing, NotMinting

\* Nothing new was uploaded, and no call got hold of an upload.
LEMMA OwnCidsStay ==
  ASSUME OwnCids, UNCHANGED cidOf,
         \A b \in Call : Carries(calls'[b]) =>
           Carries(calls[b]) /\ calls'[b].cid = calls[b].cid
  PROVE  OwnCids'
<1>1. \A b \in Call : Carries(calls[b])' =>
        Carries(calls[b]) /\ calls'[b].cid = calls[b].cid
  BY DEF Carries
<1>2. \A b, c \in Call : b # c /\ Carries(calls[b])' /\ Carries(calls[c])' =>
        calls'[b].cid # calls'[c].cid
  BY <1>1 DEF OwnCids
<1>3. \A c \in Call, p \in ProposalId : Carries(calls[c])' => cidOf'[p] # calls'[c].cid
  BY <1>1 DEF OwnCids
<1>4. \A p, q \in ProposalId : p # q /\ cidOf'[p] # Absent => cidOf'[q] # cidOf'[p]
  BY DEF OwnCids
<1>5. QED
  BY <1>2, <1>3, <1>4 DEF OwnCids

LEMMA StandsStill ==
  ASSUME DocInv, UploadsLast, EntitledLast, UnauthoredLast, NEW c \in Call, calls[c] # Idle,
         calls'[c] = calls[c]
  PROVE  Standing(c)'
<1> DEFINE x == calls[c]
<1>1. Standing(c) /\ ApiTypes
  BY DEF DocInv
<1>2. PICK y : y = x
  OBVIOUS
<1>3. /\ y.route = "approve" /\ y.at = "submit" => OrgAdmins[y.who] # Absent
      /\ y.route = "mint" /\ y.at = "upload" => DetectAllowedFileType(y.file)
  BY <1>1, <1>2 DEF Standing
<1>4. Carries(y) => Stored(y.cid)' /\ (y.route = "propose" => y.cid \in keyRows')
  BY <1>1, <1>2, CarriedCids DEF Standing, UploadsLast
<1>5. y.route = "document" /\ y.at \in {"key", "fetch"} => EverEntitled(y.who, y.asset)'
  <2>1. y.route = "document" => y.who \in Did /\ y.asset \in AssetId
    BY <1>1, <1>2, CallFields DEF Reading
  <2>2. QED
    BY <1>1, <1>2, <2>1 DEF Standing, EntitledLast
<1>6. y.route = "recovery" /\ y.at = "approve" => Unauthored(y.proposal)'
  <2>1. y.route = "recovery" /\ y.at = "approve" => y.proposal \in ProposalId
    BY <1>1, <1>2, CallFields DEF Vouching
  <2>2. QED
    BY <1>1, <1>2, <2>1 DEF Standing, UnauthoredLast
<1>7. calls'[c] = y
  BY <1>2
<1>8. /\ Carries(calls[c])' <=> Carries(y)
      /\ Stored(calls[c].cid)' <=> Stored(y.cid)'
      /\ EverEntitled(calls[c].who, calls[c].asset)' <=> EverEntitled(y.who, y.asset)'
      /\ Unauthored(calls[c].proposal)' <=> Unauthored(y.proposal)'
  BY <1>7 DEF Carries, Stored, EverEntitled, Unauthored, Exists
<1>9. QED
  BY <1>3, <1>4, <1>5, <1>6, <1>7, <1>8 DEF Standing

\* The invariant after a step of the ledger, given what the step did to its own
\* call, to the approvals and to the documents.
LEMMA Preserved ==
  ASSUME DocInv, [Next]_vars, ApiTypes', DocTypes', UploadsLast,
         \A p \in ProposalId : Exists(p) => author'[p] = author[p],
         \A b \in Call : calls'[b] = calls[b] \/ (calls'[b] # Idle => Standing(b)'),
         \A p \in ProposalId : Attributed(p)',
         OwnCids',
         \A p \in ProposalId : Documented(p)',
         \A d \in delivered' : d \in delivered \/ EverEntitled(d[1], d[2])'
  PROVE  DocInv'
<1>1. LedgerInv' /\ EntitledLast /\ UnauthoredLast
  BY NextLedger, LedgerLasts, AuthorsLast DEF DocInv, LedgerInv
<1>2. \A b \in Call : calls'[b] # Idle => Standing(b)'
  BY <1>1, StandsStill
<1>3. ASSUME NEW d \in delivered'
      PROVE  EverEntitled(d[1], d[2])'
  <2>1. CASE d \in delivered
    <3>1. d[1] \in Did /\ d[2] \in AssetId /\ EverEntitled(d[1], d[2])
      BY <2>1 DEF DocInv, DocTypes
    <3>2. PICK who \in Did, i \in AssetId : who = d[1] /\ i = d[2]
      BY <3>1
    <3>3. EverEntitled(who, i)'
      BY <1>1, <3>1, <3>2 DEF EntitledLast
    <3>4. QED
      BY <3>2, <3>3
  <2>2. QED
    BY <2>1
<1>4. QED
  BY <1>1, <1>2, <1>3 DEF DocInv

\* Most steps leave who proposed and approved what as it is.
KeepsApprovals ==
  \A p \in ProposalId :
    /\ Exists(p)' <=> Exists(p)
    /\ Exists(p) =>
         /\ proposals'[p].approvals = proposals[p].approvals
         /\ proposals'[p].action = proposals[p].action

LEMMA OthersKeepApprovals ==
  ASSUME TypeOK,
         \/ UNCHANGED vars
         \/ \E p \in ProposalId, t \in TxTime : ExecuteProposal(p, t)
         \/ \E org \in Org, p \in ProposalId : CancelProposal(org, p)
         \/ Tick
  PROVE  KeepsApprovals /\ [Next]_vars
<1>1. [Next]_vars
  BY DEF Next
<1>2. ASSUME UNCHANGED proposals
      PROVE  KeepsApprovals
  <2>1. proposals' = proposals
    BY <1>2
  <2>2. \A p \in ProposalId : Exists(p)' <=> Exists(p)
    BY <2>1 DEF Exists
  <2>3. QED
    BY <2>1, <2>2 DEF KeepsApprovals
<1>3. ASSUME NEW p \in ProposalId, NEW t \in TxTime, ExecuteProposal(p, t)
      PROVE  KeepsApprovals
  <2> DEFINE result == IF proposals[p].action.type = "MINT_ASSET" THEN assetCounter
                       ELSE Absent
  <2>1. /\ Exists(p)
        /\ Exists(p)'
        /\ proposals[p] \in Proposal
        /\ proposals'[p] = [proposals[p] EXCEPT !.status = "EXECUTED", !.executedAt = t,
                                                !.result = result]
        /\ \A q \in ProposalId \ {p} : proposals'[q] = proposals[q]
    BY <1>3, ExecuteFacts DEF Exists
  <2> HIDE DEF result
  <2>2. /\ proposals'[p].approvals = proposals[p].approvals
        /\ proposals'[p].action = proposals[p].action
    BY <2>1 DEF Proposal
  <2>3. QED
    BY <2>1, <2>2 DEF KeepsApprovals, Exists
<1>4. ASSUME NEW org \in Org, NEW p \in ProposalId, CancelProposal(org, p)
      PROVE  KeepsApprovals
  <2>1. /\ Exists(p)
        /\ proposals[p] \in Proposal
        /\ proposals'[p] = [proposals[p] EXCEPT !.status = "CANCELLED"]
        /\ \A q \in ProposalId \ {p} : proposals'[q] = proposals[q]
    BY <1>4, CancelFacts
  <2>2. /\ proposals'[p].approvals = proposals[p].approvals
        /\ proposals'[p].action = proposals[p].action
        /\ proposals'[p] \in Proposal
    BY <2>1 DEF Proposal
  <2>3. Exists(p)'
    BY <2>2, AbsentAssumption DEF Exists
  <2>4. QED
    BY <2>1, <2>2, <2>3 DEF KeepsApprovals, Exists
<1>5. UNCHANGED vars \/ Tick => UNCHANGED proposals
  BY DEF vars, Tick
<1>6. QED
  BY <1>1, <1>2, <1>3, <1>4, <1>5

LEMMA AttributedStill ==
  ASSUME NEW p \in ProposalId, Attributed(p),
         UNCHANGED <<author[p], approvedBy[p], vouched[p]>>,
         Exists(p)' <=> Exists(p),
         Exists(p) => /\ proposals'[p].approvals = proposals[p].approvals
                      /\ proposals'[p].action = proposals[p].action
  PROVE  Attributed(p)'
<1>1. CASE Exists(p)
  <2>1. PICK given : given = proposals[p].approvals
    OBVIOUS
  <2>2. PICK a : a = proposals[p].action
    OBVIOUS
  <2>3. /\ IsFiniteSet(approvedBy[p]) /\ IsFiniteSet(vouched[p])
        /\ given[1].org = PrimaryOrg
        /\ LaterOrgs(given) = Represented(approvedBy[p]) \cup vouched[p]
        /\ Cardinality(approvedBy[p]) + Cardinality(vouched[p]) = Len(given) - 1
        /\ vouched[p] # {} => author[p] = Absent
        /\ author[p] = Absent => a.type = "UPDATE_CONTROLLER"
    BY <1>1, <2>1, <2>2 DEF Attributed
  <2>4. proposals'[p].approvals = given /\ proposals'[p].action = a /\ Exists(p)'
    BY <1>1, <2>1, <2>2
  <2>5. QED
    BY <2>3, <2>4 DEF Attributed
<1>2. CASE ~Exists(p)
  BY <1>2 DEF Attributed
<1>3. QED
  BY <1>1, <1>2

LEMMA DocumentedStill ==
  ASSUME DocTypes, UploadsLast, ProposalsLast, NEW p \in ProposalId, Documented(p),
         cidOf'[p] = cidOf[p], Exists(p)' <=> Exists(p)
  PROVE  Documented(p)'
<1>1. Exists(p)' /\ proposals'[p].action.type = "MINT_ASSET" => cidOf'[p] # Absent
  BY DEF Documented, ProposalsLast
<1>2. PICK k \in Nat \cup {Absent} : k = cidOf[p]
  BY DEF DocTypes
<1>3. k # Absent => Exists(p) /\ Stored(k)' /\ k \in keyRows'
  BY <1>2 DEF Documented, UploadsLast
<1>4. Stored(cidOf[p])' <=> Stored(k)'
  BY <1>2 DEF Stored
<1>5. QED
  BY <1>1, <1>2, <1>3, <1>4 DEF Documented

\* Uploads stay when none is made.
LEMMA UploadsStay ==
  ASSUME ipfs' = ipfs, keyRows \subseteq keyRows'
  PROVE  UploadsLast
  BY DEF UploadsLast, Stored

\* A step that moves a call, and may submit something else than a proposal or an
\* approval, and may hand out a document.
LEMMA QuietStep ==
  ASSUME DocInv, NEW c \in Call, NEW x \in CallState \cup {Idle},
         calls' = [calls EXCEPT ![c] = x],
         \/ UNCHANGED vars
         \/ \E p \in ProposalId, t \in TxTime : ExecuteProposal(p, t)
         \/ \E org \in Org, p \in ProposalId : CancelProposal(org, p),
         UNCHANGED <<history, ipfs, keyRows, cidOf>>,
         delivered' \in SUBSET (Did \X AssetId),
         \A d \in delivered' : d \in delivered \/ EverEntitled(d[1], d[2])',
         Carries(x) => Carries(calls[c]) /\ x.cid = calls[c].cid,
         x # Idle => Standing(c)'
  PROVE  DocInv'
<1>1. TypeOK /\ ApiTypes /\ DocTypes
  BY DEF DocInv, LedgerInv
<1>2. KeepsApprovals /\ [Next]_vars
  BY <1>1, OthersKeepApprovals
<1>3. Moves(c, x)
  BY <1>1, Moving
<1>4. ApiTypes' /\ DocTypes' /\ UploadsLast
  BY <1>1, <1>3, UploadsStay DEF ApiTypes, DocTypes, Moves, history
<1>5. OwnCids'
  BY <1>3, OwnCidsStay DEF DocInv, Moves
<1>6. \A p \in ProposalId : Attributed(p)'
  BY <1>2, AttributedStill DEF DocInv, KeepsApprovals, history
<1>7. \A p \in ProposalId : Documented(p)'
  BY <1>1, <1>2, <1>4, LedgerLasts, DocumentedStill DEF DocInv, KeepsApprovals
<1>8. \A b \in Call : calls'[b] = calls[b] \/ (calls'[b] # Idle => Standing(b)')
  BY <1>3 DEF Moves
<1>9. QED
  BY <1>2, <1>4, <1>5, <1>6, <1>7, <1>8, Preserved DEF history

\* A call under way that ends.
LEMMA Returning ==
  ASSUME DocInv, NEW c \in Call, Return(c),
         \/ UNCHANGED vars
         \/ \E p \in ProposalId, t \in TxTime : ExecuteProposal(p, t)
         \/ \E org \in Org, p \in ProposalId : CancelProposal(org, p),
         UNCHANGED <<history, docVars>>
  PROVE  DocInv'
<1>1. /\ calls' = [calls EXCEPT ![c] = Idle]
      /\ UNCHANGED <<history, ipfs, keyRows, cidOf, delivered>>
  BY DEF Return, docVars
<1>2. delivered' \in SUBSET (Did \X AssetId) /\ ~Carries(Idle)
  BY <1>1 DEF DocInv, DocTypes, Carries
<1>3. QED
  BY <1>1, <1>2, QuietStep

LEMMA StandsWith ==
  ASSUME NEW c \in Call, NEW x, calls'[c] = x,
         x.route = "approve" /\ x.at = "submit" => OrgAdmins[x.who] # Absent,
         x.route = "mint" /\ x.at = "upload" => DetectAllowedFileType(x.file),
         Carries(x) => Stored(x.cid)',
         Carries(x) /\ x.route = "propose" => x.cid \in keyRows',
         x.route = "document" /\ x.at \in {"key", "fetch"} => EverEntitled(x.who, x.asset)',
         x.route = "recovery" /\ x.at = "approve" => Unauthored(x.proposal)'
  PROVE  Standing(c)'
<1>1. /\ Carries(calls[c])' <=> Carries(x)
      /\ Stored(calls[c].cid)' <=> Stored(x.cid)'
      /\ EverEntitled(calls[c].who, calls[c].asset)' <=> EverEntitled(x.who, x.asset)'
      /\ Unauthored(calls[c].proposal)' <=> Unauthored(x.proposal)'
  BY DEF Carries, Stored, EverEntitled, Unauthored, Exists
<1>2. QED
  BY <1>1 DEF Standing

\* A call that begins or goes on, with nothing submitted and no upload in hand.
LEMMA Stepping ==
  ASSUME DocInv, NEW c \in Call, NEW x \in CallState,
         calls' = [calls EXCEPT ![c] = x],
         UNCHANGED <<vars, history, docVars>>,
         ~Carries(x),
         x.route = "approve" /\ x.at = "submit" => OrgAdmins[x.who] # Absent,
         x.route = "mint" /\ x.at = "upload" => DetectAllowedFileType(x.file),
         x.route = "document" /\ x.at \in {"key", "fetch"} =>
           x.who \in Did /\ x.asset \in AssetId /\ EverEntitled(x.who, x.asset),
         x.route = "recovery" => x.at = "propose"
  PROVE  DocInv'
<1>1. TypeOK /\ ApiTypes /\ DocTypes
  BY DEF DocInv, LedgerInv
<1>2. EntitledLast
  <2>1. [Next]_vars
    OBVIOUS
  <2>2. QED
    BY <1>1, <2>1, LedgerLasts
<1>3. calls'[c] = x
  BY <1>1, Moving DEF Moves
<1>4. x.route = "document" /\ x.at \in {"key", "fetch"} => EverEntitled(x.who, x.asset)'
  BY <1>2 DEF EntitledLast
<1>5. Standing(c)'
  BY <1>3, <1>4, StandsWith
<1>6. /\ UNCHANGED <<history, ipfs, keyRows, cidOf, delivered>>
      /\ delivered' \in SUBSET (Did \X AssetId)
  BY <1>1 DEF docVars, DocTypes
<1>7. QED
  BY <1>5, <1>6, QuietStep

-----------------------------------------------------------------------------
\* One lemma per action.

LEMMA BeginProposalKeeps ==
  ASSUME DocInv, NEW c \in Call, NEW who \in Did, NEW a \in Action,
         BeginProposal(c, who, a), UNCHANGED docVars
  PROVE  DocInv'
<1> DEFINE x == [route |-> "propose", at |-> "submit", who |-> who, action |-> a]
<1>1. a.type # "MINT_ASSET"
  BY DEF BeginProposal, RoleRoute, TransferRoute, CredentialRoute
<1>2. x \in CallState /\ ~Carries(x) /\ x.route = "propose"
  BY <1>1 DEF CallState, Proposing, NotMinting, Carries
<1>3. /\ calls' = [calls EXCEPT ![c] = x]
      /\ UNCHANGED <<vars, history, docVars>>
  BY DEF BeginProposal, RequireAdmin
<1> HIDE DEF x
<1>4. QED
  BY <1>2, <1>3, Stepping

LEMMA BeginApprovalKeeps ==
  ASSUME DocInv, NEW c \in Call, NEW who \in Did, NEW p \in ProposalId,
         BeginApproval(c, who, p), UNCHANGED docVars
  PROVE  DocInv'
<1> DEFINE x == [route |-> "approve", at |-> "lookup", who |-> who, proposal |-> p]
<1>1. x \in CallState /\ ~Carries(x) /\ x.route = "approve" /\ x.at = "lookup"
  BY DEF CallState, Approving, Carries
<1>2. /\ calls' = [calls EXCEPT ![c] = x]
      /\ UNCHANGED <<vars, history, docVars>>
  BY DEF BeginApproval, RequireAdmin
<1> HIDE DEF x
<1>3. QED
  BY <1>1, <1>2, Stepping

LEMMA BeginOtherKeeps ==
  ASSUME DocInv, NEW c \in Call, NEW who \in Did, NEW p \in ProposalId,
         NEW route \in {"execute", "cancel"}, BeginOther(c, who, route, p),
         UNCHANGED docVars
  PROVE  DocInv'
<1> DEFINE x == [route |-> route, at |-> "submit", proposal |-> p]
<1>1. x \in CallState /\ ~Carries(x) /\ x.route \in {"execute", "cancel"}
  BY DEF CallState, Settling, Carries
<1>2. /\ calls' = [calls EXCEPT ![c] = x]
      /\ UNCHANGED <<vars, history, docVars>>
  BY DEF BeginOther, RequireAdmin
<1> HIDE DEF x
<1>3. QED
  BY <1>1, <1>2, Stepping

LEMMA LookupOrgKeeps ==
  ASSUME DocInv, NEW c \in Call, LookupOrg(c), UNCHANGED docVars
  PROVE  DocInv'
<1>1. calls[c] \in Approving
  BY CallFields DEF LookupOrg, At, DocInv
<1>2. PICK x : x = [calls[c] EXCEPT !.at = "submit"]
  OBVIOUS
<1>3. /\ x \in CallState
      /\ x.route = "approve"
      /\ x.at = "submit"
      /\ x.who = calls[c].who
  BY <1>1, <1>2 DEF CallState, Approving
<1>4. /\ calls' = [calls EXCEPT ![c] = x]
      /\ UNCHANGED <<vars, history, docVars>>
      /\ OrgAdmins[x.who] # Absent
  BY <1>2, <1>3 DEF LookupOrg
<1>5. ~Carries(x)
  BY <1>3 DEF Carries
<1>6. QED
  BY <1>3, <1>4, <1>5, Stepping

LEMMA EndsKeep ==
  ASSUME DocInv, NEW c \in Call, UNCHANGED docVars,
         \/ Fail(c) \/ HttpCancel(c)
         \/ \E t \in TxTime : HttpExecute(c, t) \/ RecoveryExecute(c, t)
  PROVE  DocInv'
<1>1. CASE Fail(c)
  BY <1>1, Returning DEF Fail
<1>2. ASSUME NEW t \in TxTime, HttpExecute(c, t)
      PROVE  DocInv'
  <2>1. calls[c].proposal \in ProposalId
    BY <1>2, CallFields DEF HttpExecute, At, DocInv, Settling
  <2>2. QED
    BY <1>2, <2>1, Returning DEF HttpExecute
<1>3. CASE HttpCancel(c)
  <2>1. calls[c].proposal \in ProposalId
    BY <1>3, CallFields DEF HttpCancel, At, DocInv, Settling
  <2>2. QED
    BY <1>3, <2>1, Returning, PeopleAssumption DEF HttpCancel
<1>4. ASSUME NEW t \in TxTime, RecoveryExecute(c, t)
      PROVE  DocInv'
  <2>1. calls[c].proposal \in ProposalId
    BY <1>4, CallFields DEF RecoveryExecute, At, DocInv, Vouching
  <2>2. QED
    BY <1>4, <2>1, Returning DEF RecoveryExecute
<1>5. QED
  BY <1>1, <1>2, <1>3, <1>4

LEMMA BeginRecoveryKeeps ==
  ASSUME DocInv, NEW c \in Call, NEW a \in Action, BeginRecovery(c, a), UNCHANGED docVars
  PROVE  DocInv'
<1> DEFINE x == [route |-> "recovery", at |-> "propose", action |-> a]
<1>1. x \in CallState /\ ~Carries(x) /\ x.route = "recovery" /\ x.at = "propose"
  BY DEF BeginRecovery, RecoveryRoute, CallState, Rebinding, Carries
<1>2. /\ calls' = [calls EXCEPT ![c] = x]
      /\ UNCHANGED <<vars, history, docVars>>
  BY DEF BeginRecovery
<1> HIDE DEF x
<1>3. QED
  BY <1>1, <1>2, Stepping

LEMMA IdleKeeps ==
  ASSUME DocInv, UNCHANGED vars \/ Tick, UNCHANGED <<apiVars, docVars>>
  PROVE  DocInv'
<1>1. TypeOK /\ ApiTypes /\ DocTypes
  BY DEF DocInv, LedgerInv
<1>2. KeepsApprovals /\ [Next]_vars
  BY <1>1, OthersKeepApprovals
<1>3. UNCHANGED <<calls, history, ipfs, keyRows, cidOf, delivered>>
  BY DEF apiVars, docVars
<1>4. ApiTypes' /\ DocTypes' /\ UploadsLast
  BY <1>1, <1>3, UploadsStay DEF ApiTypes, DocTypes, history
<1>5. OwnCids'
  BY <1>3, OwnCidsStay DEF DocInv
<1>6. \A p \in ProposalId : Attributed(p)'
  BY <1>2, <1>3, AttributedStill DEF DocInv, KeepsApprovals, history
<1>7. \A p \in ProposalId : Documented(p)'
  BY <1>1, <1>2, <1>3, <1>4, LedgerLasts, DocumentedStill DEF DocInv, KeepsApprovals
<1>8. QED
  BY <1>2, <1>3, <1>4, <1>5, <1>6, <1>7, Preserved DEF history

LEMMA BeginMintKeeps ==
  ASSUME DocInv, NEW c \in Call, NEW who \in Did, NEW a \in Action, NEW file \in File,
         BeginMint(c, who, a, file)
  PROVE  DocInv'
<1> DEFINE x == [route |-> "mint", at |-> "upload", who |-> who, action |-> a, file |-> file]
<1>1. a.type = "MINT_ASSET" /\ DetectAllowedFileType(file)
  BY DEF BeginMint
<1>2. /\ x \in CallState
      /\ ~Carries(x)
      /\ x.route = "mint"
      /\ DetectAllowedFileType(x.file)
  BY <1>1 DEF CallState, Uploading, Minting, Carries
<1>3. /\ calls' = [calls EXCEPT ![c] = x]
      /\ UNCHANGED <<vars, history, docVars>>
  BY DEF BeginMint, RequireAdmin
<1> HIDE DEF x
<1>4. QED
  BY <1>2, <1>3, Stepping

LEMMA BeginReadKeeps ==
  ASSUME DocInv, NEW c \in Call, NEW who \in Did, NEW i \in AssetId, BeginRead(c, who, i)
  PROVE  DocInv'
<1> DEFINE step == IF assets[i].owner = who THEN "key" ELSE "admin?"
           source == CHOOSE p \in Minted(i) : TRUE
<1>1. PICK x : x = [route |-> "document", who |-> who, asset |-> i, at |-> step,
                    cid |-> cidOf[source]]
  OBVIOUS
<1>2. source \in ProposalId
  BY DEF BeginRead, GetAsset, DocInv, LedgerInv, AllMinted, Minted
<1> HIDE DEF source
<1>3. cidOf[source] \in Nat \cup {Absent}
  BY <1>2 DEF DocInv, DocTypes
<1>4. step \in {"key", "admin?"}
  OBVIOUS
<1>5. step = "key" => EverEntitled(who, i)
  BY OwnersAreEntitled DEF BeginRead, GetAsset, DocInv
<1>6. /\ calls' = [calls EXCEPT ![c] = [route |-> "document", who |-> who, asset |-> i,
                                         at |-> step, cid |-> cidOf[source]]]
      /\ UNCHANGED <<vars, history, docVars>>
  BY DEF BeginRead, source
<1> HIDE DEF step
<1>7. x \in CallState
  <2>1. x \in Reading
    BY <1>1, <1>3, <1>4 DEF Reading
  <2>2. QED
    BY <2>1 DEF CallState
<1>8. /\ x.route = "document"
      /\ x.at = step
      /\ x.who = who
      /\ x.asset = i
  BY <1>1
<1>9. x.at \in {"key", "fetch"} =>
        x.who \in Did /\ x.asset \in AssetId /\ EverEntitled(x.who, x.asset)
  BY <1>4, <1>5, <1>8
<1>10. ~Carries(x)
  BY <1>8 DEF Carries
<1>11. calls' = [calls EXCEPT ![c] = x]
  BY <1>1, <1>6
<1>12. QED
  BY <1>6, <1>7, <1>8, <1>9, <1>10, <1>11, Stepping

\* A reading call that goes on to another step.
LEMMA ReadingGoesOn ==
  ASSUME DocInv, NEW c \in Call, calls[c] # Idle, calls[c].route = "document",
         NEW step \in {"auditor?", "key", "fetch"}, MoveTo(c, step),
         UNCHANGED <<vars, history, docVars>>,
         step # "auditor?" => EverEntitled(calls[c].who, calls[c].asset)
  PROVE  DocInv'
<1>1. calls[c] \in Reading
  BY CallFields DEF DocInv
<1>2. PICK x : x = [calls[c] EXCEPT !.at = step]
  OBVIOUS
<1>3. /\ x \in Reading
      /\ x.route = "document"
      /\ x.at = step
      /\ x.who = calls[c].who
      /\ x.asset = calls[c].asset
      /\ x.who \in Did
      /\ x.asset \in AssetId
  BY <1>1, <1>2 DEF Reading
<1>4. x \in CallState /\ ~Carries(x)
  BY <1>3 DEF CallState, Carries
<1>5. calls' = [calls EXCEPT ![c] = x]
  BY <1>2 DEF MoveTo
<1>6. x.at \in {"key", "fetch"} => EverEntitled(x.who, x.asset)
  <2>1. EverEntitled(x.who, x.asset) <=> EverEntitled(calls[c].who, calls[c].asset)
    BY <1>3
  <2>2. QED
    BY <1>3, <2>1
<1>7. QED
  BY <1>3, <1>4, <1>5, <1>6, Stepping

LEMMA CheckRoleKeeps ==
  ASSUME DocInv, NEW c \in Call, CheckRole(c)
  PROVE  DocInv'
<1>1. /\ calls[c] # Idle
      /\ calls[c].route = "document"
      /\ UNCHANGED <<vars, history, docVars>>
  BY DEF CheckRole, At
<1>2. calls[c].who \in Did /\ calls[c].asset \in AssetId
  BY <1>1, CallFields DEF DocInv, Reading
<1>3. PICK step \in {"key", "auditor?"} :
        /\ MoveTo(c, step)
        /\ step = "key" => MayRead(c, AdminRole) \/ MayRead(c, AuditorRole)
  BY DEF CheckRole
<1>4. step # "auditor?" => EverEntitled(calls[c].who, calls[c].asset)
  BY <1>2, <1>3, RolesAreEntitled DEF MayRead, DocInv
<1>5. QED
  BY <1>1, <1>3, <1>4, ReadingGoesOn

LEMMA ReadKeyKeeps ==
  ASSUME DocInv, NEW c \in Call, ReadKey(c)
  PROVE  DocInv'
<1>1. /\ calls[c] # Idle
      /\ calls[c].route = "document"
      /\ calls[c].at = "key"
      /\ MoveTo(c, "fetch")
      /\ UNCHANGED <<vars, history, docVars>>
  BY DEF ReadKey, At
<1>2. EverEntitled(calls[c].who, calls[c].asset)
  BY <1>1 DEF DocInv, Standing
<1>3. QED
  BY <1>1, <1>2, ReadingGoesOn

LEMMA DeliverKeeps ==
  ASSUME DocInv, NEW c \in Call, Deliver(c)
  PROVE  DocInv'
<1>1. /\ calls[c] # Idle
      /\ calls[c].route = "document"
      /\ calls[c].at = "fetch"
      /\ delivered' = delivered \cup {<<calls[c].who, calls[c].asset>>}
      /\ calls' = [calls EXCEPT ![c] = Idle]
      /\ UNCHANGED <<vars, history, ipfs, keyRows, cidOf>>
  BY DEF Deliver, At, Return
<1>2. PICK who \in Did, i \in AssetId : who = calls[c].who /\ i = calls[c].asset
  BY <1>1, CallFields DEF DocInv, Reading
<1>3. EverEntitled(who, i)
  <2>1. EverEntitled(calls[c].who, calls[c].asset)
    BY <1>1 DEF DocInv, Standing
  <2>2. QED
    BY <1>2, <2>1
<1>4. EverEntitled(who, i)'
  <2>1. TypeOK /\ [Next]_vars
    BY <1>1 DEF DocInv, LedgerInv
  <2>2. QED
    BY <1>3, <2>1, LedgerLasts DEF EntitledLast
<1>5. delivered' = delivered \cup {<<who, i>>}
  BY <1>1, <1>2
<1>6. delivered' \in SUBSET (Did \X AssetId)
  BY <1>5 DEF DocInv, DocTypes
<1>7. ASSUME NEW d \in delivered'
      PROVE  d \in delivered \/ EverEntitled(d[1], d[2])'
  <2>1. CASE d = <<who, i>>
    <3>1. d[1] = who /\ d[2] = i
      BY <2>1
    <3>2. EverEntitled(d[1], d[2])' <=> EverEntitled(who, i)'
      BY <3>1
    <3>3. QED
      BY <1>4, <3>2
  <2>2. QED
    BY <1>5, <2>1
<1>8. ~Carries(Idle)
  BY DEF Carries
<1>9. QED
  BY <1>1, <1>6, <1>7, <1>8, QuietStep

\* What an approval adds to those a proposal has: one of an organization that had
\* given none.
LEMMA OneApprovalMore ==
  ASSUME TypeOK, QuorumInv, NEW org \in Org, NEW p \in ProposalId, NEW t \in TxTime,
         Attributed(p), ApproveProposal(org, p, t)
  PROVE  LET given == proposals[p].approvals
             more == proposals'[p].approvals
         IN  /\ Exists(p) /\ Exists(p)'
             /\ proposals'[p].action = proposals[p].action
             /\ more[1].org = PrimaryOrg
             /\ Len(given) \in Nat \ {0} /\ Len(more) = Len(given) + 1
             /\ org \notin LaterOrgs(given)
             /\ LaterOrgs(more) = LaterOrgs(given) \cup {org}
<1> DEFINE given == proposals[p].approvals
           new == [org |-> org, at |-> t]
           n == Len(given)
<1>1. /\ t \in Time
      /\ Exists(p)
      /\ proposals[p] \in Proposal
      /\ org \notin ApprovingOrgs(proposals[p])
      /\ proposals'[p] = [proposals[p] EXCEPT !.approvals = Append(given, new)]
  BY ApproveFacts
<1>2. new \in Approval /\ new.org = org
  BY <1>1 DEF Approval
<1>3. given \in Seq(Approval)
  BY <1>1 DEF Proposal
<1>4. n \in Nat /\ n >= 1 /\ DOMAIN given = 1 .. n
  BY <1>1, <1>3 DEF QuorumInv, ApprovalsSound
<1>5. given[1].org = PrimaryOrg
  BY <1>1 DEF Attributed
<1>6. \A i \in 1 .. n : given[i].org # org
  BY <1>1, <1>4 DEF ApprovingOrgs
<1> HIDE DEF new, n
<1>7. PICK more : more = Append(given, new)
  OBVIOUS
<1>8. /\ more \in Seq(Approval)
      /\ Len(more) = n + 1
      /\ \A i \in 1 .. n : more[i] = given[i]
      /\ more[n + 1] = new
  BY <1>2, <1>3, <1>4, <1>7 DEF n
<1>9. /\ proposals'[p] \in Proposal
      /\ proposals'[p].approvals = more
      /\ proposals'[p].action = proposals[p].action
  BY <1>1, <1>7, <1>8 DEF Proposal
<1> HIDE DEF given
<1>10. Exists(p)'
  BY <1>9, AbsentAssumption DEF Exists
<1>11. more[1].org = PrimaryOrg
  BY <1>4, <1>5, <1>8
<1>12. org \notin {given[i].org : i \in 2 .. n}
  <2>1. \A i \in 2 .. n : i \in 1 .. n
    BY <1>4
  <2>2. QED
    BY <1>6, <2>1
<1>13. {more[i].org : i \in 2 .. (n + 1)} = {given[i].org : i \in 2 .. n} \cup {org}
  <2>1. 2 .. (n + 1) = (2 .. n) \cup {n + 1}
    BY <1>4
  <2>2. {more[i].org : i \in 2 .. (n + 1)} = {more[i].org : i \in 2 .. n} \cup {more[n + 1].org}
    BY <2>1
  <2>3. {more[i].org : i \in 2 .. n} = {given[i].org : i \in 2 .. n}
    <3>1. \A i \in 2 .. n : i \in 1 .. n
      BY <1>4
    <3>2. \A i \in 2 .. n : more[i] = given[i]
      BY <1>8, <3>1
    <3>3. QED
      BY <3>2
  <2>4. QED
    BY <1>2, <1>8, <2>2, <2>3
<1>14. Len(more) = Len(given) + 1 /\ LaterOrgs(more) = LaterOrgs(given) \cup {org}
  BY <1>8, <1>13 DEF n, LaterOrgs
<1>15. Len(given) \in Nat \ {0} /\ org \notin LaterOrgs(given)
  BY <1>4, <1>12 DEF n, LaterOrgs
<1>16. QED
  BY <1>1, <1>9, <1>10, <1>11, <1>14, <1>15 DEF given

\* An approval by a person, whose organization had given none.
LEMMA AttributedApproval ==
  ASSUME TypeOK, QuorumInv, ApiTypes, NEW p \in ProposalId, NEW w \in Did, NEW t \in TxTime,
         Attributed(p), OrgAdmins[w] \in Org, ApproveProposal(OrgAdmins[w], p, t),
         UNCHANGED <<author, vouched>>, approvedBy'[p] = approvedBy[p] \cup {w}
  PROVE  Attributed(p)' /\ Exists(p) /\ Exists(p)'
<1>1. PICK org \in Org : org = OrgAdmins[w]
  OBVIOUS
<1>2. PICK given, more, a : /\ given = proposals[p].approvals
                          /\ more = proposals'[p].approvals
                          /\ a = proposals[p].action
  OBVIOUS
<1>3. /\ Exists(p) /\ Exists(p)'
      /\ proposals'[p].action = a
      /\ more[1].org = PrimaryOrg
      /\ Len(given) \in Nat \ {0} /\ Len(more) = Len(given) + 1
      /\ org \notin LaterOrgs(given)
      /\ LaterOrgs(more) = LaterOrgs(given) \cup {org}
  BY <1>1, <1>2, OneApprovalMore
<1>4. /\ IsFiniteSet(approvedBy[p]) /\ IsFiniteSet(vouched[p])
      /\ LaterOrgs(given) = Represented(approvedBy[p]) \cup vouched[p]
      /\ Cardinality(approvedBy[p]) + Cardinality(vouched[p]) = Len(given) - 1
      /\ vouched[p] # {} => author[p] = Absent
      /\ author[p] = Absent => a.type = "UPDATE_CONTROLLER"
  BY <1>2, <1>3 DEF Attributed
<1>5. w \notin approvedBy[p]
  <2>1. w \in approvedBy[p] => org \in Represented(approvedBy[p])
    BY <1>1 DEF Represented
  <2>2. QED
    BY <1>3, <1>4, <2>1
<1>6. /\ IsFiniteSet(approvedBy'[p])
      /\ Cardinality(approvedBy'[p]) = Cardinality(approvedBy[p]) + 1
  <2>1. /\ IsFiniteSet(approvedBy[p] \cup {w})
        /\ Cardinality(approvedBy[p] \cup {w}) = Cardinality(approvedBy[p]) + 1
    BY <1>4, <1>5, FS_AddElement
  <2>2. QED
    BY <2>1
<1>7. Cardinality(approvedBy[p]) \in Nat /\ Cardinality(vouched[p]) \in Nat
  BY <1>4, FS_CardinalityType
<1>8. Cardinality(approvedBy'[p]) + Cardinality(vouched'[p]) = Len(more) - 1
  BY <1>3, <1>4, <1>6, <1>7
<1>9. LaterOrgs(more) = Represented(approvedBy'[p]) \cup vouched'[p]
  <2>1. Represented(approvedBy'[p]) = Represented(approvedBy[p]) \cup {org}
    BY <1>1 DEF Represented
  <2>2. QED
    BY <1>3, <1>4, <2>1
<1>10. QED
  BY <1>2, <1>3, <1>4, <1>6, <1>8, <1>9 DEF Attributed

\* An approval by a recovery, of the proposal that is its own.
LEMMA VouchedApproval ==
  ASSUME TypeOK, QuorumInv, ApiTypes, NEW p \in ProposalId, NEW org \in Org, NEW t \in TxTime,
         Attributed(p), author[p] = Absent, ApproveProposal(org, p, t),
         UNCHANGED <<author, approvedBy>>, vouched'[p] = vouched[p] \cup {org}
  PROVE  Attributed(p)' /\ Exists(p) /\ Exists(p)'
<1>1. PICK given, more, a : /\ given = proposals[p].approvals
                          /\ more = proposals'[p].approvals
                          /\ a = proposals[p].action
  OBVIOUS
<1>2. /\ Exists(p) /\ Exists(p)'
      /\ proposals'[p].action = a
      /\ more[1].org = PrimaryOrg
      /\ Len(given) \in Nat \ {0} /\ Len(more) = Len(given) + 1
      /\ org \notin LaterOrgs(given)
      /\ LaterOrgs(more) = LaterOrgs(given) \cup {org}
  BY <1>1, OneApprovalMore
<1>3. /\ IsFiniteSet(approvedBy[p]) /\ IsFiniteSet(vouched[p])
      /\ LaterOrgs(given) = Represented(approvedBy[p]) \cup vouched[p]
      /\ Cardinality(approvedBy[p]) + Cardinality(vouched[p]) = Len(given) - 1
      /\ a.type = "UPDATE_CONTROLLER"
  BY <1>1, <1>2 DEF Attributed
<1>4. org \notin vouched[p]
  BY <1>2, <1>3
<1>5. /\ IsFiniteSet(vouched'[p])
      /\ Cardinality(vouched'[p]) = Cardinality(vouched[p]) + 1
  BY <1>3, <1>4, FS_AddElement
<1>6. Cardinality(approvedBy[p]) \in Nat /\ Cardinality(vouched[p]) \in Nat
  BY <1>3, FS_CardinalityType
<1>7. Cardinality(approvedBy'[p]) + Cardinality(vouched'[p]) = Len(more) - 1
  BY <1>2, <1>3, <1>5, <1>6
<1>8. LaterOrgs(more) = Represented(approvedBy'[p]) \cup vouched'[p]
  BY <1>2, <1>3
<1>9. author'[p] = Absent
  OBVIOUS
<1>10. QED
  BY <1>1, <1>2, <1>3, <1>5, <1>7, <1>8, <1>9 DEF Attributed

\* The step that submits an approval.
LEMMA ApprovalStep ==
  ASSUME DocInv, NEW c \in Call, NEW x \in CallState \cup {Idle}, NEW org \in Org,
         NEW p \in ProposalId, NEW t \in TxTime, ApproveProposal(org, p, t),
         calls' = [calls EXCEPT ![c] = x], ~Carries(x), x # Idle => Standing(c)',
         UNCHANGED <<author, docVars>>,
         approvedBy' \in [ProposalId -> SUBSET Did], vouched' \in [ProposalId -> SUBSET Org],
         \A q \in ProposalId \ {p} : approvedBy'[q] = approvedBy[q] /\ vouched'[q] = vouched[q],
         Attributed(p)', Exists(p), Exists(p)'
  PROVE  DocInv'
<1>1. TypeOK /\ ApiTypes /\ DocTypes
  BY DEF DocInv, LedgerInv
<1>2. [Next]_vars
  BY DEF Next
<1>3. \A q \in ProposalId \ {p} : proposals'[q] = proposals[q]
  BY <1>1, ApproveFacts
<1>4. \A q \in ProposalId : Exists(q)' <=> Exists(q)
  BY <1>3 DEF Exists
<1>5. \A q \in ProposalId : Attributed(q)'
  <2>1. ASSUME NEW q \in ProposalId \ {p}
        PROVE  Attributed(q)'
    BY <1>3, <1>4, AttributedStill DEF DocInv
  <2>2. QED
    BY <2>1
<1>6. Moves(c, x)
  BY <1>1, Moving
<1>7. UNCHANGED <<ipfs, keyRows, cidOf, delivered>>
  BY DEF docVars
<1>8. ApiTypes' /\ DocTypes' /\ UploadsLast
  BY <1>1, <1>6, <1>7, UploadsStay DEF ApiTypes, DocTypes, Moves
<1>9. OwnCids'
  BY <1>6, <1>7, OwnCidsStay DEF DocInv, Moves
<1>10. \A q \in ProposalId : Documented(q)'
  BY <1>1, <1>2, <1>4, <1>7, <1>8, LedgerLasts, DocumentedStill DEF DocInv
<1>11. \A b \in Call : calls'[b] = calls[b] \/ (calls'[b] # Idle => Standing(b)')
  BY <1>6 DEF Moves
<1>12. QED
  BY <1>2, <1>5, <1>7, <1>8, <1>9, <1>10, <1>11, Preserved

LEMMA HttpApproveKeeps ==
  ASSUME DocInv, NEW c \in Call, NEW t \in TxTime, HttpApprove(c, t), UNCHANGED docVars
  PROVE  DocInv'
<1>1. /\ calls[c] # Idle
      /\ calls[c].route = "approve"
      /\ calls[c].at = "submit"
      /\ ApproveProposal(OrgAdmins[calls[c].who], calls[c].proposal, t)
      /\ approvedBy' = [approvedBy EXCEPT ![calls[c].proposal] = @ \cup {calls[c].who}]
      /\ calls' = [calls EXCEPT ![c] = Idle]
      /\ UNCHANGED <<author, vouched>>
  BY DEF HttpApprove, At, SigningOrg, Return
<1>2. TypeOK /\ QuorumInv /\ ApiTypes /\ Standing(c)
  BY <1>1 DEF DocInv, LedgerInv
<1>3. PICK w \in Did, p \in ProposalId : w = calls[c].who /\ p = calls[c].proposal
  BY <1>1, <1>2, CallFields DEF Approving
<1>4. PICK org \in Org : org = OrgAdmins[w]
  BY <1>1, <1>2, <1>3, PeopleAssumption DEF Standing
<1>5. /\ ApproveProposal(OrgAdmins[w], p, t) /\ ApproveProposal(org, p, t)
      /\ approvedBy' = [approvedBy EXCEPT ![p] = @ \cup {w}]
  BY <1>1, <1>3, <1>4
<1>6. /\ approvedBy'[p] = approvedBy[p] \cup {w}
      /\ \A q \in ProposalId \ {p} : approvedBy'[q] = approvedBy[q] /\ vouched'[q] = vouched[q]
      /\ approvedBy' \in [ProposalId -> SUBSET Did]
      /\ vouched' \in [ProposalId -> SUBSET Org]
  <2>1. vouched' \in [ProposalId -> SUBSET Org] /\ \A q \in ProposalId : vouched'[q] = vouched[q]
    BY <1>1, <1>2 DEF ApiTypes
  <2>2. approvedBy \in [ProposalId -> SUBSET Did]
    BY <1>2 DEF ApiTypes
  <2>3. QED
    BY <1>5, <2>1, <2>2
<1>7. Attributed(p)' /\ Exists(p) /\ Exists(p)'
  BY <1>1, <1>2, <1>4, <1>5, <1>6, AttributedApproval DEF DocInv
<1>8. ~Carries(Idle)
  BY DEF Carries
<1>9. QED
  BY <1>1, <1>5, <1>6, <1>7, <1>8, ApprovalStep

LEMMA RecoveryApproveKeeps ==
  ASSUME DocInv, NEW c \in Call, NEW org \in Org, NEW t \in TxTime,
         RecoveryApprove(c, org, t), UNCHANGED docVars
  PROVE  DocInv'
<1>1. /\ calls[c] # Idle
      /\ calls[c].route = "recovery"
      /\ calls[c].at = "approve"
      /\ ApproveProposal(org, calls[c].proposal, t)
      /\ calls' = [calls EXCEPT ![c].approved = @ \cup {org}]
      /\ vouched' = [vouched EXCEPT ![calls[c].proposal] = @ \cup {org}]
      /\ UNCHANGED <<author, approvedBy>>
  BY DEF RecoveryApprove, At
<1>2. TypeOK /\ QuorumInv /\ ApiTypes /\ Standing(c)
  BY <1>1 DEF DocInv, LedgerInv
<1>3. calls[c] \in Vouching
  BY <1>1, <1>2, CallFields
<1>4. PICK p \in ProposalId, approved \in SUBSET Org :
        p = calls[c].proposal /\ approved = calls[c].approved
  BY <1>3 DEF Vouching
<1>5. PICK x : x = [calls[c] EXCEPT !.approved = approved \cup {org}]
  OBVIOUS
<1>6. /\ x \in Vouching
      /\ x.route = "recovery"
      /\ x.at = "approve"
      /\ x.proposal = p
  BY <1>3, <1>4, <1>5 DEF Vouching
<1>7. x \in CallState /\ ~Carries(x)
  BY <1>6 DEF CallState, Carries
<1>8. calls' = [calls EXCEPT ![c] = x]
  BY <1>1, <1>2, <1>4, <1>5 DEF ApiTypes
<1>9. /\ ApproveProposal(org, p, t)
      /\ vouched' = [vouched EXCEPT ![p] = @ \cup {org}]
  BY <1>1, <1>4
<1>10. /\ vouched'[p] = vouched[p] \cup {org}
       /\ \A q \in ProposalId \ {p} : approvedBy'[q] = approvedBy[q] /\ vouched'[q] = vouched[q]
       /\ approvedBy' \in [ProposalId -> SUBSET Did]
       /\ vouched' \in [ProposalId -> SUBSET Org]
  <2>1. /\ approvedBy' \in [ProposalId -> SUBSET Did]
        /\ \A q \in ProposalId : approvedBy'[q] = approvedBy[q]
    BY <1>1, <1>2 DEF ApiTypes
  <2>2. vouched \in [ProposalId -> SUBSET Org]
    BY <1>2 DEF ApiTypes
  <2>3. QED
    BY <1>9, <2>1, <2>2
<1>11. author[p] = Absent
  BY <1>1, <1>2, <1>4 DEF Standing, Unauthored
<1>12. Attributed(p)' /\ Exists(p) /\ Exists(p)'
  BY <1>1, <1>2, <1>9, <1>10, <1>11, VouchedApproval DEF DocInv
<1>13. Standing(c)'
  <2>1. Unauthored(p)'
    BY <1>1, <1>11, <1>12 DEF Unauthored
  <2>2. calls'[c] = x
    BY <1>2, <1>7, <1>8, Moving DEF Moves
  <2>3. Unauthored(x.proposal)' <=> Unauthored(p)'
    BY <1>6 DEF Unauthored, Exists
  <2>4. QED
    BY <1>6, <1>7, <2>1, <2>2, <2>3, StandsWith
<1>14. QED
  BY <1>1, <1>7, <1>8, <1>9, <1>10, <1>12, <1>13, ApprovalStep

\* A first approval, by whoever proposed, if anybody.
LEMMA AttributedProposal ==
  ASSUME TypeOK, ApiTypes, NEW p \in ProposalId, NEW a \in Action, NEW t \in TxTime,
         Attributed(p), ProposeAction(PrimaryOrg, p, a, t),
         author'[p] = Absent => a.type = "UPDATE_CONTROLLER",
         UNCHANGED <<approvedBy, vouched>>
  PROVE  Attributed(p)' /\ ~Exists(p) /\ Exists(p)'
<1> DEFINE given == <<[org |-> PrimaryOrg, at |-> t]>>
           pr == [action |-> a, proposedBy |-> PrimaryOrg, expiresAt |-> t + TTL,
                  approvals |-> given, status |-> "PENDING", executedAt |-> Absent,
                  result |-> Absent]
<1>1. t \in Time /\ ~Exists(p) /\ proposals'[p] = pr
  BY ProposeFacts, PeopleAssumption
<1>2. pr \in Proposal
  <2>1. given \in Seq(Approval)
    BY <1>1, PeopleAssumption DEF Approval
  <2>2. a \in PrivilegedAction /\ t + TTL \in Nat
    BY <1>1, ActionAssumption, ParametersAssumption DEF Time
  <2> HIDE DEF given
  <2>3. QED
    BY <2>1, <2>2, PeopleAssumption DEF Proposal
<1>3. /\ pr.approvals = given
      /\ pr.action = a
      /\ Len(given) = 1
      /\ given[1].org = PrimaryOrg
  OBVIOUS
<1> HIDE DEF pr, given
<1>4. Exists(p)'
  BY <1>1, <1>2, AbsentAssumption DEF Exists
<1>5. /\ approvedBy'[p] = {} /\ vouched'[p] = {}
      /\ IsFiniteSet({})
      /\ Cardinality({}) = 0
  BY <1>1, FS_EmptySet DEF Attributed
<1>6. LaterOrgs(given) = Represented(approvedBy'[p]) \cup vouched'[p]
  <2>1. 2 .. Len(given) = {}
    BY <1>3
  <2>2. QED
    BY <1>5, <2>1 DEF LaterOrgs, Represented
<1>7. Attributed(p)'
  <2>1. /\ IsFiniteSet(approvedBy'[p]) /\ IsFiniteSet(vouched'[p])
        /\ Cardinality(approvedBy'[p]) + Cardinality(vouched'[p]) = Len(given) - 1
    BY <1>3, <1>5
  <2>2. proposals'[p].approvals = given /\ proposals'[p].action = a
    BY <1>1, <1>3
  <2>3. QED
    BY <1>3, <1>4, <1>5, <1>6, <2>1, <2>2 DEF Attributed
<1>8. QED
  BY <1>1, <1>4, <1>7

\* The other proposals, when one is made.
LEMMA ProposalStep ==
  ASSUME DocInv, NEW p \in ProposalId, NEW a \in Action, NEW t \in TxTime,
         ProposeAction(PrimaryOrg, p, a, t),
         author'[p] = Absent => a.type = "UPDATE_CONTROLLER",
         \A q \in ProposalId \ {p} : author'[q] = author[q],
         UNCHANGED <<approvedBy, vouched>>
  PROVE  /\ [Next]_vars
         /\ ~Exists(p) /\ Exists(p)'
         /\ proposals'[p].action = a
         /\ \A q \in ProposalId \ {p} : Exists(q)' <=> Exists(q)
         /\ \A q \in ProposalId : Exists(q) => author'[q] = author[q]
         /\ \A q \in ProposalId : Attributed(q)'
<1>1. TypeOK /\ ApiTypes
  BY DEF DocInv, LedgerInv
<1>2. PICK org \in Org : org = PrimaryOrg
  BY PeopleAssumption
<1>3. ProposeAction(org, p, a, t)
  BY <1>2
<1>4. /\ \A q \in ProposalId \ {p} : proposals'[q] = proposals[q]
      /\ proposals'[p].action = a
  <2>1. /\ proposals'[p] =
              [action |-> a, proposedBy |-> org, expiresAt |-> t + TTL,
               approvals |-> <<[org |-> org, at |-> t]>>, status |-> "PENDING",
               executedAt |-> Absent, result |-> Absent]
        /\ \A q \in ProposalId \ {p} : proposals'[q] = proposals[q]
    BY <1>1, <1>3, ProposeFacts
  <2>2. QED
    BY <2>1
<1>5. Attributed(p)' /\ ~Exists(p) /\ Exists(p)'
  BY <1>1, AttributedProposal DEF DocInv
<1>6. \A q \in ProposalId \ {p} : Exists(q)' <=> Exists(q)
  BY <1>4 DEF Exists
<1>7. \A q \in ProposalId : Attributed(q)'
  <2>1. ASSUME NEW q \in ProposalId \ {p}
        PROVE  Attributed(q)'
    BY <1>4, <1>6, AttributedStill DEF DocInv
  <2>2. QED
    BY <1>5, <2>1
<1>8. QED
  BY <1>3, <1>4, <1>5, <1>6, <1>7 DEF Next

LEMMA ProposeKeeps ==
  ASSUME DocInv, NEW c \in Call, NEW p \in ProposalId, NEW t \in TxTime, Propose(c, p, t)
  PROVE  DocInv'
<1>1. /\ calls[c] # Idle
      /\ calls[c].route = "propose"
      /\ ProposeAction(PrimaryOrg, p, calls[c].action, t)
      /\ author' = [author EXCEPT ![p] = calls[c].who]
      /\ calls' = [calls EXCEPT ![c] = Idle]
      /\ UNCHANGED <<approvedBy, vouched, ipfs, keyRows, delivered>>
  BY DEF Propose, HttpPropose, At, Return
<1>2. TypeOK /\ QuorumInv /\ ApiTypes /\ DocTypes /\ Standing(c)
  BY <1>1 DEF DocInv, LedgerInv
<1>3. calls[c] \in Proposing \cup Documenting
  BY <1>1, <1>2, CallFields
<1>4. PICK a \in Action, w \in Did : a = calls[c].action /\ w = calls[c].who
  BY <1>3 DEF Proposing, Documenting, Minting, NotMinting
<1>5. PICK k \in Nat \cup {Absent} :
        k = IF a.type = "MINT_ASSET" THEN calls[c].cid ELSE Absent
  BY <1>3, <1>4 DEF Proposing, Documenting, NotMinting
<1>6. /\ cidOf' = [cidOf EXCEPT ![p] = k]
      /\ ProposeAction(PrimaryOrg, p, a, t)
      /\ author' = [author EXCEPT ![p] = w]
  BY <1>1, <1>4, <1>5 DEF Propose
<1>7. /\ cidOf'[p] = k
      /\ author'[p] = w
      /\ \A q \in ProposalId \ {p} : cidOf'[q] = cidOf[q] /\ author'[q] = author[q]
      /\ cidOf' \in [ProposalId -> Nat \cup {Absent}]
      /\ author' \in [ProposalId -> Did \cup {Absent}]
  BY <1>2, <1>6 DEF ApiTypes, DocTypes
<1>8. /\ [Next]_vars
      /\ ~Exists(p) /\ Exists(p)'
      /\ proposals'[p].action = a
      /\ \A q \in ProposalId \ {p} : Exists(q)' <=> Exists(q)
      /\ \A q \in ProposalId : Exists(q) => author'[q] = author[q]
      /\ \A q \in ProposalId : Attributed(q)'
  BY <1>1, <1>6, <1>7, ProposalStep, PeopleAssumption
<1>9. Moves(c, Idle)
  BY <1>1, <1>2, Moving
<1>10. ApiTypes' /\ DocTypes' /\ UploadsLast
  BY <1>1, <1>2, <1>7, <1>9, UploadsStay DEF ApiTypes, DocTypes, Moves
\* The call hands its upload over to the proposal.
<1>11. k # Absent => Carries(calls[c]) /\ calls[c].cid = k
  BY <1>1, <1>4, <1>5 DEF Carries
<1>12. OwnCids'
  <2>1. \A b \in Call : Carries(calls[b])' =>
          b # c /\ Carries(calls[b]) /\ calls'[b].cid = calls[b].cid
    BY <1>9 DEF Moves, Carries
  <2>2. \A b \in Call : Carries(calls[b])' => k # calls'[b].cid
    <3>1. SUFFICES ASSUME NEW b \in Call, Carries(calls[b])'
                   PROVE  k # calls[b].cid
      BY <2>1
    <3>2. calls[b].cid \in Nat /\ Carries(calls[b]) /\ b # c
      BY <1>2, <2>1, <3>1, CarriedCids
    <3>3. QED
      BY <1>11, <3>2, AbsentAssumption DEF DocInv, OwnCids
  <2>3. \A b, d \in Call : b # d /\ Carries(calls[b])' /\ Carries(calls[d])' =>
          calls'[b].cid # calls'[d].cid
    BY <2>1 DEF DocInv, OwnCids
  <2>4. \A b \in Call, q \in ProposalId : Carries(calls[b])' => cidOf'[q] # calls'[b].cid
    BY <1>7, <2>1, <2>2 DEF DocInv, OwnCids
  <2>5. \A q \in ProposalId \ {p} : k # Absent => cidOf[q] # k
    BY <1>11 DEF DocInv, OwnCids
  <2>6. \A q, r \in ProposalId : q # r /\ cidOf'[q] # Absent => cidOf'[r] # cidOf'[q]
    BY <1>7, <2>5 DEF DocInv, OwnCids
  <2>7. QED
    BY <2>3, <2>4, <2>6 DEF OwnCids
<1>13. \A q \in ProposalId : Documented(q)'
  <2>1. ASSUME NEW q \in ProposalId \ {p}
        PROVE  Documented(q)'
    BY <1>2, <1>7, <1>8, <1>10, LedgerLasts, DocumentedStill DEF DocInv
  <2>2. a.type = "MINT_ASSET" => k # Absent
    BY <1>3, <1>4, <1>5, AbsentAssumption DEF Proposing, Documenting, NotMinting
  <2>3. k # Absent => Stored(k)' /\ k \in keyRows'
    BY <1>1, <1>2, <1>10, <1>11 DEF Standing, UploadsLast
  <2>4. Stored(cidOf[p])' <=> Stored(k)'
    BY <1>7 DEF Stored
  <2>5. Documented(p)'
    BY <1>7, <1>8, <2>2, <2>3, <2>4 DEF Documented
  <2>6. QED
    BY <2>1, <2>5
<1>14. \A b \in Call : calls'[b] = calls[b] \/ (calls'[b] # Idle => Standing(b)')
  BY <1>9 DEF Moves
<1>15. QED
  BY <1>1, <1>8, <1>10, <1>12, <1>13, <1>14, Preserved

LEMMA RecoveryProposeKeeps ==
  ASSUME DocInv, NEW c \in Call, NEW p \in ProposalId, NEW t \in TxTime,
         RecoveryPropose(c, p, t), UNCHANGED docVars
  PROVE  DocInv'
<1>1. PICK x : x = [route |-> "recovery", at |-> "approve", proposal |-> p,
                    approved |-> {PrimaryOrg}]
  OBVIOUS
<1>2. /\ calls[c] # Idle
      /\ calls[c].route = "recovery"
      /\ calls[c].at = "propose"
      /\ ProposeAction(PrimaryOrg, p, calls[c].action, t)
      /\ calls' = [calls EXCEPT ![c] = x]
      /\ UNCHANGED <<author, approvedBy, vouched>>
  BY <1>1 DEF RecoveryPropose, At, history
<1>3. TypeOK /\ ApiTypes /\ DocTypes
  BY DEF DocInv, LedgerInv
<1>4. PICK a \in Action : a = calls[c].action /\ a.type = "UPDATE_CONTROLLER"
  BY <1>2, <1>3, CallFields DEF Rebinding
<1>5. ProposeAction(PrimaryOrg, p, a, t)
  BY <1>2, <1>4
<1>6. /\ [Next]_vars
      /\ ~Exists(p) /\ Exists(p)'
      /\ proposals'[p].action = a
      /\ \A q \in ProposalId \ {p} : Exists(q)' <=> Exists(q)
      /\ \A q \in ProposalId : Exists(q) => author'[q] = author[q]
      /\ \A q \in ProposalId : Attributed(q)'
  BY <1>2, <1>4, <1>5, ProposalStep
<1>7. /\ x \in CallState /\ ~Carries(x)
      /\ x.route = "recovery" /\ x.at = "approve" /\ x.proposal = p
  BY <1>1, PeopleAssumption DEF CallState, Vouching, Carries
<1>8. Moves(c, x)
  BY <1>2, <1>3, <1>7, Moving
<1>9. UNCHANGED <<ipfs, keyRows, cidOf, delivered>>
  BY DEF docVars
<1>10. ApiTypes' /\ DocTypes' /\ UploadsLast
  BY <1>2, <1>3, <1>8, <1>9, UploadsStay DEF ApiTypes, DocTypes, Moves
<1>11. OwnCids'
  BY <1>7, <1>8, <1>9, OwnCidsStay DEF DocInv, Moves
<1>12. \A q \in ProposalId : Documented(q)'
  <2>1. ASSUME NEW q \in ProposalId \ {p}
        PROVE  Documented(q)'
    BY <1>3, <1>6, <1>9, <1>10, LedgerLasts, DocumentedStill DEF DocInv
  <2>2. cidOf'[p] = Absent
    BY <1>6, <1>9 DEF DocInv, Documented
  <2>3. Documented(p)'
    BY <1>4, <1>6, <2>2 DEF Documented
  <2>4. QED
    BY <2>1, <2>3
<1>13. Standing(c)'
  <2>1. author[p] = Absent
    BY <1>6 DEF DocInv, Attributed
  <2>2. Unauthored(p)'
    BY <1>2, <1>6, <2>1 DEF Unauthored
  <2>3. Unauthored(x.proposal)' <=> Unauthored(p)'
    BY <1>7 DEF Unauthored, Exists
  <2>4. QED
    BY <1>7, <1>8, <2>2, <2>3, StandsWith DEF Moves
<1>14. \A b \in Call : calls'[b] = calls[b] \/ (calls'[b] # Idle => Standing(b)')
  BY <1>8, <1>13 DEF Moves
<1>15. QED
  BY <1>6, <1>9, <1>10, <1>11, <1>12, <1>14, Preserved

LEMMA UploadKeeps ==
  ASSUME DocInv, NEW c \in Call, Upload(c)
  PROVE  DocInv'
<1>1. /\ calls[c] # Idle
      /\ calls[c].route = "mint"
      /\ calls[c].at = "upload"
      /\ ipfs' = Append(ipfs, calls[c].file)
      /\ UNCHANGED <<vars, history, keyRows, cidOf, delivered>>
  BY DEF Upload, At, AddToIpfs
<1>2. TypeOK /\ ApiTypes /\ DocTypes /\ Standing(c)
  BY <1>1 DEF DocInv, LedgerInv
<1>3. calls[c] \in Uploading
  BY <1>1, <1>2, CallFields
<1>4. PICK n \in Nat : n = Len(ipfs) /\ DOMAIN ipfs = 1 .. n
  BY <1>2 DEF DocTypes
<1> DEFINE k == n + 1
<1>4a. PICK file \in File : file = calls[c].file
  BY <1>3 DEF Uploading
<1>4b. PICK x : x = [route |-> "mint", at |-> "store key", who |-> calls[c].who,
                     action |-> calls[c].action, cid |-> k]
  OBVIOUS
<1>5. /\ x \in Storing
      /\ x.route = "mint"
      /\ x.at = "store key"
      /\ x.cid = k
  <2>1. k \in Nat
    OBVIOUS
  <2>2. calls[c].who \in Did /\ calls[c].action \in Minting
    BY <1>3 DEF Uploading
  <2> HIDE DEF k
  <2>3. QED
    BY <1>4b, <2>1, <2>2 DEF Storing
<1>6. x \in CallState
  BY <1>5 DEF CallState
<1>7. calls' = [calls EXCEPT ![c] = x]
  BY <1>4, <1>4a, <1>4b DEF Upload, FreshCid
<1>8. Moves(c, x)
  BY <1>2, <1>6, <1>7, Moving
<1>9. KeepsApprovals /\ [Next]_vars
  BY <1>1, <1>2, OthersKeepApprovals
<1>10. DetectAllowedFileType(file)
  BY <1>1, <1>2, <1>4a DEF Standing
\* The new CID is nobody's yet.
<1>11. /\ ipfs' \in Seq(File)
       /\ DOMAIN ipfs' = 1 .. k
       /\ \A j \in 1 .. n : ipfs'[j] = ipfs[j]
       /\ ipfs'[k] = file
  <2>1. ipfs \in Seq(File) /\ ipfs' = Append(ipfs, file)
    BY <1>1, <1>2, <1>4a DEF DocTypes
  <2>2. /\ ipfs' \in Seq(File)
        /\ Len(ipfs') = Len(ipfs) + 1
        /\ DOMAIN ipfs' = 1 .. Len(ipfs')
        /\ \A j \in 1 .. Len(ipfs) : ipfs'[j] = ipfs[j]
        /\ ipfs'[Len(ipfs) + 1] = file
    BY <2>1
  <2>3. QED
    BY <1>4, <2>2
<1>12. ~Stored(k)
  BY <1>4 DEF Stored
<1>13. Stored(k)'
  <2>1. k \in DOMAIN ipfs'
    BY <1>4, <1>11
  <2>2. DetectAllowedFileType(ipfs'[k])
    BY <1>10, <1>11
  <2>3. QED
    BY <2>1, <2>2 DEF Stored
<1>14. UploadsLast
  BY <1>1, <1>4, <1>11 DEF UploadsLast, Stored
<1>15. ApiTypes' /\ DocTypes'
  BY <1>1, <1>2, <1>8, <1>11 DEF ApiTypes, DocTypes, Moves, history
<1>16. Standing(c)'
  <2>1. Stored(x.cid)' <=> Stored(k)'
    BY <1>5 DEF Stored
  <2>2. QED
    BY <1>5, <1>8, <1>13, <2>1, StandsWith DEF Moves
<1>17. \A b \in Call : Carries(calls[b]) => calls[b].cid # k
  BY <1>12 DEF DocInv, Standing, Carries
<1>18. \A p \in ProposalId : cidOf[p] # k
  BY <1>4, <1>12, AbsentAssumption DEF DocInv, Documented
<1>19. OwnCids'
  <2>1. calls'[c].cid = k
    BY <1>5, <1>8 DEF Moves
  <2>2. \A b \in Call \ {c} : Carries(calls[b])' =>
          Carries(calls[b]) /\ calls'[b].cid = calls[b].cid
    BY <1>8 DEF Moves, Carries
  <2>3. \A b, d \in Call : b # d /\ Carries(calls[b])' /\ Carries(calls[d])' =>
          calls'[b].cid # calls'[d].cid
    BY <1>17, <2>1, <2>2 DEF DocInv, OwnCids
  <2>4. \A b \in Call, p \in ProposalId : Carries(calls[b])' => cidOf'[p] # calls'[b].cid
    BY <1>1, <1>18, <2>1, <2>2 DEF DocInv, OwnCids
  <2>5. \A p, q \in ProposalId : p # q /\ cidOf'[p] # Absent => cidOf'[q] # cidOf'[p]
    BY <1>1 DEF DocInv, OwnCids
  <2>6. QED
    BY <2>3, <2>4, <2>5 DEF OwnCids
<1>20. \A p \in ProposalId : Attributed(p)'
  BY <1>1, <1>9, AttributedStill DEF DocInv, KeepsApprovals, history
<1>21. \A p \in ProposalId : Documented(p)'
  BY <1>1, <1>2, <1>9, <1>14, LedgerLasts, DocumentedStill DEF DocInv, KeepsApprovals
<1>22. \A b \in Call : calls'[b] = calls[b] \/ (calls'[b] # Idle => Standing(b)')
  BY <1>8, <1>16 DEF Moves
<1>23. QED
  BY <1>1, <1>9, <1>14, <1>15, <1>19, <1>20, <1>21, <1>22, Preserved
     DEF history

LEMMA StoreKeyKeeps ==
  ASSUME DocInv, NEW c \in Call, StoreKey(c)
  PROVE  DocInv'
<1>1. /\ calls[c] # Idle
      /\ calls[c].route = "mint"
      /\ calls[c].at = "store key"
      /\ keyRows' = keyRows \cup {calls[c].cid}
      /\ UNCHANGED <<vars, history, ipfs, cidOf, delivered>>
  BY DEF StoreKey, At
<1>2. TypeOK /\ ApiTypes /\ DocTypes /\ Standing(c)
  BY <1>1 DEF DocInv, LedgerInv
<1>3. calls[c] \in Storing
  BY <1>1, <1>2, CallFields
<1>4. PICK x : x = [calls[c] EXCEPT !.route = "propose", !.at = "submit"]
  OBVIOUS
<1>4a. PICK k \in Nat : k = calls[c].cid
  BY <1>3 DEF Storing
<1>5. x \in Documenting
  BY <1>3, <1>4 DEF Storing, Documenting
<1>6. x.route = "propose" /\ x.at = "submit" /\ x.cid = k
  BY <1>3, <1>4, <1>4a DEF Storing
<1>7. x \in CallState
  BY <1>5 DEF CallState
<1>8. calls' = [calls EXCEPT ![c] = x]
  <2>1. calls' = [calls EXCEPT ![c].route = "propose", ![c].at = "submit"]
    BY DEF StoreKey, ToProposal
  <2>2. QED
    BY <1>2, <1>4, <2>1 DEF ApiTypes
<1>9. Moves(c, x)
  BY <1>2, <1>7, <1>8, Moving
<1>10. KeepsApprovals /\ [Next]_vars
  BY <1>1, <1>2, OthersKeepApprovals
<1>11. UploadsLast
  BY <1>1, UploadsStay
<1>12. keyRows' = keyRows \cup {k}
  BY <1>1, <1>4a
<1>13. ApiTypes' /\ DocTypes'
  BY <1>1, <1>2, <1>9, <1>12 DEF ApiTypes, DocTypes, Moves, history
<1>14. Carries(calls[c])
  BY <1>1 DEF Carries
<1>15. Standing(c)'
  <2>1. Stored(k)
    BY <1>2, <1>4a, <1>14 DEF Standing
  <2>2. Stored(k)'
    BY <1>11, <2>1 DEF UploadsLast
  <2>3. Stored(x.cid)' <=> Stored(k)'
    BY <1>6 DEF Stored
  <2>4. x.cid \in keyRows'
    BY <1>6, <1>12
  <2>5. QED
    BY <1>6, <1>9, <2>2, <2>3, <2>4, StandsWith DEF Moves
<1>16. OwnCids'
  BY <1>1, <1>4a, <1>6, <1>9, <1>14, OwnCidsStay DEF DocInv, Moves
<1>17. \A p \in ProposalId : Attributed(p)'
  BY <1>1, <1>10, AttributedStill DEF DocInv, KeepsApprovals, history
<1>18. \A p \in ProposalId : Documented(p)'
  BY <1>1, <1>2, <1>10, <1>11, LedgerLasts, DocumentedStill DEF DocInv, KeepsApprovals
<1>19. \A b \in Call : calls'[b] = calls[b] \/ (calls'[b] # Idle => Standing(b)')
  BY <1>9, <1>15 DEF Moves
<1>20. QED
  BY <1>1, <1>10, <1>11, <1>13, <1>16, <1>17, <1>18, <1>19, Preserved DEF history

-----------------------------------------------------------------------------
\* The invariant, and what it gives.

LEMMA InitDoc == DocInit => DocInv
<1> SUFFICES ASSUME DocInit
             PROVE  DocInv
  OBVIOUS
<1>1. LedgerInv
  BY InitLedger DEF DocInit
<1>2. \A p \in ProposalId : /\ ~Exists(p) /\ author[p] = Absent
                            /\ approvedBy[p] = {} /\ vouched[p] = {} /\ cidOf[p] = Absent
  BY DEF DocInit, ApiInit, Exists
<1>3. \A c \in Call : calls[c] = Idle /\ ~Carries(calls[c])
  BY DEF DocInit, ApiInit, Carries
<1>4. ApiTypes /\ DocTypes
  BY DEF DocInit, ApiInit, ApiTypes, DocTypes
<1>5. OwnCids
  BY <1>2, <1>3 DEF OwnCids
<1>6. \A p \in ProposalId : Attributed(p)
  BY <1>2, FS_EmptySet DEF Attributed
<1>7. \A p \in ProposalId : Documented(p)
  BY <1>2 DEF Documented
<1>8. \A d \in delivered : EverEntitled(d[1], d[2])
  BY DEF DocInit
<1>9. QED
  BY <1>1, <1>3, <1>4, <1>5, <1>6, <1>7, <1>8 DEF DocInv

LEMMA NextDoc == DocInv /\ [DocNext]_allVars => DocInv'
<1> SUFFICES ASSUME DocInv, [DocNext]_allVars
             PROVE  DocInv'
  OBVIOUS
<1>1. CASE UNCHANGED allVars
  BY <1>1, IdleKeeps DEF allVars
<1>2. ASSUME NEW c \in Call, NEW who \in Did, NEW a \in Action, NEW file \in File,
             BeginMint(c, who, a, file)
      PROVE  DocInv'
  BY <1>2, BeginMintKeeps
<1>3. ASSUME NEW c \in Call, Upload(c)
      PROVE  DocInv'
  BY <1>3, UploadKeeps
<1>4. ASSUME NEW c \in Call, StoreKey(c)
      PROVE  DocInv'
  BY <1>4, StoreKeyKeeps
<1>5. ASSUME NEW c \in Call, NEW p \in ProposalId, NEW t \in TxTime, Propose(c, p, t)
      PROVE  DocInv'
  BY <1>5, ProposeKeeps
<1>6. ASSUME NEW c \in Call, NEW who \in Did, NEW i \in AssetId, BeginRead(c, who, i)
      PROVE  DocInv'
  BY <1>6, BeginReadKeeps
<1>7. ASSUME NEW c \in Call, CheckRole(c)
      PROVE  DocInv'
  BY <1>7, CheckRoleKeeps
<1>8. ASSUME NEW c \in Call, ReadKey(c)
      PROVE  DocInv'
  BY <1>8, ReadKeyKeeps
<1>9. ASSUME NEW c \in Call, Deliver(c)
      PROVE  DocInv'
  BY <1>9, DeliverKeeps
<1>10. ASSUME ApiStep, UNCHANGED docVars
       PROVE  DocInv'
  <2>1. ASSUME NEW c \in Call, NEW who \in Did, NEW a \in Action, BeginProposal(c, who, a)
        PROVE  DocInv'
    BY <1>10, <2>1, BeginProposalKeeps
  <2>2. ASSUME NEW c \in Call, NEW who \in Did, NEW p \in ProposalId,
               BeginApproval(c, who, p)
        PROVE  DocInv'
    BY <1>10, <2>2, BeginApprovalKeeps
  <2>3. ASSUME NEW c \in Call, NEW who \in Did, NEW p \in ProposalId,
               NEW route \in {"execute", "cancel"}, BeginOther(c, who, route, p)
        PROVE  DocInv'
    BY <1>10, <2>3, BeginOtherKeeps
  <2>4. ASSUME NEW c \in Call, LookupOrg(c)
        PROVE  DocInv'
    BY <1>10, <2>4, LookupOrgKeeps
  <2>5. ASSUME NEW c \in Call, NEW t \in TxTime, HttpApprove(c, t)
        PROVE  DocInv'
    BY <1>10, <2>5, HttpApproveKeeps
  <2>6. ASSUME NEW c \in Call,
               \/ Fail(c) \/ HttpCancel(c)
               \/ \E t \in TxTime : HttpExecute(c, t) \/ RecoveryExecute(c, t)
        PROVE  DocInv'
    BY <1>10, <2>6, EndsKeep
  <2>7. ASSUME Tick /\ UNCHANGED apiVars
        PROVE  DocInv'
    BY <1>10, <2>7, IdleKeeps
  <2>8. ASSUME NEW c \in Call, NEW a \in Action, BeginRecovery(c, a)
        PROVE  DocInv'
    BY <1>10, <2>8, BeginRecoveryKeeps
  <2>9. ASSUME NEW c \in Call, NEW p \in ProposalId, NEW t \in TxTime,
               RecoveryPropose(c, p, t)
        PROVE  DocInv'
    BY <1>10, <2>9, RecoveryProposeKeeps
  <2>10. ASSUME NEW c \in Call, NEW org \in Org, NEW t \in TxTime,
                RecoveryApprove(c, org, t)
         PROVE  DocInv'
    BY <1>10, <2>10, RecoveryApproveKeeps
  <2>11. QED
    BY <1>10, <2>1, <2>2, <2>3, <2>4, <2>5, <2>6, <2>7, <2>8, <2>9, <2>10 DEF ApiStep
<1>11. QED
  BY <1>1, <1>2, <1>3, <1>4, <1>5, <1>6, <1>7, <1>8, <1>9, <1>10 DEF DocNext

\* What the backend and the ledger keep between them, whatever the overlap of the
\* calls and wherever one of them breaks off.
THEOREM CallsStand == DocSpec => []DocInv
<1>1. QED
  BY InitDoc, NextDoc, PTL DEF DocSpec

\* Beyond the proposer's own, every approval on the ledger is that of one person, for
\* the organization that person represents, or of a recovery, on a rotation that no
\* person proposed, however calls to approve and recoveries overlap.
THEOREM ApprovalsAreOfPeople == DocSpec => []ApprovalsAreAttributable
<1>1. DocInv => ApprovalsAreAttributable
  BY DEF DocInv, Attributed, LaterOrgs, Represented, ApprovalsAreAttributable
<1>2. QED
  BY <1>1, CallsStand, PTL

\* With a threshold of two (GOVERNANCE_THRESHOLD, governance.contract.ts:55) or more,
\* what was executed, but for a controller's rotation, was approved by a person of
\* another organization than the one all proposals are submitted as: a recovery's
\* approvals count towards nothing else.
THEOREM AnotherOrgApproved ==
  ASSUME Threshold >= 2
  PROVE  DocSpec => []QuorumNeedsAnotherOrg
<1>1. ASSUME DocInv, NEW p \in ProposalId, HasStatus(p, "EXECUTED"),
             proposals[p].action.type # "UPDATE_CONTROLLER"
      PROVE  \E w \in approvedBy[p] : OrgAdmins[w] \notin {PrimaryOrg, Absent}
  <2> DEFINE given == proposals[p].approvals
             n == Len(given)
  <2>1. /\ proposals[p] \in Proposal
        /\ ApprovalsSound(proposals[p])
        /\ HasQuorum(proposals[p])
        /\ given[1].org = PrimaryOrg
        /\ LaterOrgs(given) = Represented(approvedBy[p])
    <3>1. Exists(p) /\ proposals[p].status = "EXECUTED"
      BY <1>1 DEF HasStatus
    <3>2. proposals[p] \in Proposal
      BY <1>1, <3>1 DEF DocInv, LedgerInv, TypeOK, Exists
    <3>3. ApprovalsSound(proposals[p])
      BY <1>1, <3>1 DEF DocInv, LedgerInv, QuorumInv
    <3>4. HasQuorum(proposals[p])
      BY <3>1, <3>3 DEF ApprovalsSound
    <3>5. Attributed(p)
      BY <1>1 DEF DocInv
    <3>6. vouched[p] = {}
      BY <1>1, <3>1, <3>5 DEF Attributed
    <3>7. QED
      BY <3>1, <3>2, <3>3, <3>4, <3>5, <3>6 DEF Attributed
  <2>2. n \in Nat /\ DOMAIN given = 1 .. n /\ \A i \in 1 .. n : given[i].org \in Org
    <3>1. given \in Seq(Approval)
      BY <2>1 DEF Proposal
    <3>2. n \in Nat /\ DOMAIN given = 1 .. n /\ \A i \in 1 .. n : given[i] \in Approval
      BY <3>1
    <3>3. QED
      BY <3>2 DEF Approval
  <2>3. SUFFICES ASSUME \A w \in approvedBy[p] : OrgAdmins[w] \in {PrimaryOrg, Absent}
                 PROVE  FALSE
    OBVIOUS
  <2>4. \A i \in 1 .. n : given[i].org = PrimaryOrg
    <3>1. ASSUME NEW i \in 2 .. n
          PROVE  given[i].org \in {PrimaryOrg, Absent} /\ i \in 1 .. n
      <4>1. i \in 1 .. n
        BY <2>2
      <4>2. PICK w \in approvedBy[p] : given[i].org = OrgAdmins[w]
        BY <2>1 DEF LaterOrgs, Represented
      <4>3. QED
        BY <2>3, <4>1, <4>2
    <3>2. \A i \in 2 .. n : given[i].org = PrimaryOrg
      BY <2>2, <3>1, PeopleAssumption
    <3>3. \A i \in 1 .. n : i = 1 \/ i \in 2 .. n
      BY <2>2
    <3>4. QED
      BY <2>1, <3>2, <3>3
  <2>5. ApprovingOrgs(proposals[p]) \subseteq {PrimaryOrg}
    BY <2>2, <2>4 DEF ApprovingOrgs
  <2>6. Cardinality(ApprovingOrgs(proposals[p])) <= 1
    <3>1. IsFiniteSet({PrimaryOrg}) /\ Cardinality({PrimaryOrg}) = 1
      BY FS_Singleton
    <3>2. QED
      BY <2>5, <3>1, FS_Subset
  <2>7. /\ Cardinality(ApprovingOrgs(proposals[p])) \in Nat
        /\ Cardinality(ApprovingOrgs(proposals[p])) >= Threshold
    BY <2>1, FS_CardinalityType DEF ApprovalsSound, HasQuorum
  <2>8. QED
    BY <2>6, <2>7, ParametersAssumption
<1>2. DocInv => QuorumNeedsAnotherOrg
  BY <1>1 DEF QuorumNeedsAnotherOrg
<1>3. QED
  BY <1>2, CallsStand, PTL

\* Every asset that was minted can be opened, whatever broke off: no proposal to mint
\* precedes its ciphertext or its key, and no two share them.
THEOREM DocumentsOpen == DocSpec => []MintedDocumentsOpen
<1>1. ASSUME DocInv, NEW p \in ProposalId, HasStatus(p, "EXECUTED"),
             proposals[p].action.type = "MINT_ASSET"
      PROVE  /\ CanDecrypt(cidOf[p])
             /\ DetectAllowedFileType(ipfs[cidOf[p]])
             /\ \A q \in ProposalId \ {p} : cidOf[q] # cidOf[p]
  <2>1. cidOf[p] # Absent /\ Stored(cidOf[p]) /\ cidOf[p] \in keyRows
    BY <1>1 DEF DocInv, Documented, HasStatus
  <2>2. QED
    BY <1>1, <2>1 DEF DocInv, OwnCids, Stored, CanDecrypt, FetchFromIpfs
<1>2. DocInv => MintedDocumentsOpen
  BY <1>1 DEF MintedDocumentsOpen
<1>3. QED
  BY <1>2, CallsStand, PTL

\* Whoever was handed a document was at some time made owner of the asset, Admin or
\* Auditor, by an executed proposal or by the bootstrap.
THEOREM DeliveriesAreGoverned == DocSpec => []DeliveredByGovernance
<1>1. DocInv => DeliveredByGovernance
  BY DEF DocInv, DeliveredByGovernance
<1>2. QED
  BY <1>1, CallsStand, PTL
=============================================================================
