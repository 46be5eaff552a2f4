---------------------------- MODULE AssetDocuments ----------------------------
(***************************************************************************)
(* The documents behind the assets (routes/fabric/assets.routes.ts):       *)
(* minting encrypts a file, adds it to IPFS, stores its key in Postgres    *)
(* and proposes the mint; reading goes back from the ledger's record to    *)
(* the key row and the ciphertext.  Three stores, no transaction over      *)
(* them: a call may die between any two of its steps, and others run       *)
(* between them.  The governance of GovernanceApi goes on all the while.   *)
(***************************************************************************)
EXTENDS GovernanceApi

CONSTANTS
  AuditorRole,
  File,        \* the uploads: each the set of the byte patterns found in it
  MaxUploads   \* bound on the files added to IPFS

VARIABLES
  ipfs,        \* the ciphertexts on the private node, by CID: 1, 2, ...
  keyRows,     \* asset_encryption_keys: the CIDs that have their key stored
  cidOf,       \* the ipfsCID that a proposal to mint carries
  delivered    \* history: <<who, asset>> of the documents handed out

docVars == <<ipfs, keyRows, cidOf, delivered>>

ASSUME RolesAssumption == AuditorRole \in RoleId

DocInit ==
  /\ ApiInit
  /\ ipfs = <<>>
  /\ keyRows = {}
  /\ cidOf = [p \in ProposalId |-> Absent]
  /\ delivered = {}

MoveTo(c, step) == calls' = [calls EXCEPT ![c].at = step]

-----------------------------------------------------------------------------
\* file-type.service.ts: SIGNATURES, the office formats by a directory of theirs.
OfficeZip(marker) == {"zip magic", marker}
Signatures ==
  {{"%PDF-"}, {"PNG magic"}, {"JPEG magic"},
   OfficeZip("word/"), OfficeZip("xl/"), OfficeZip("ppt/")}

DetectAllowedFileType(file) == \E s \in Signatures : s \subseteq file

\* encryptAssetBuffer draws a new key every time: the same file never gives the
\* same ciphertext, and hence a new CID.
FreshCid == Len(ipfs) + 1

\* Kubo's add and cat.
AddToIpfs(file) == ipfs' = Append(ipfs, file)
FetchFromIpfs(cid) == cid \in DOMAIN ipfs

\* decryptAssetBuffer: the ciphertext, and the wrapped key of this very upload.
CanDecrypt(cid) == cid \in keyRows /\ FetchFromIpfs(cid)

-----------------------------------------------------------------------------
\* POST /assets/mint

BeginMint(c, who, a, file) ==
  /\ a.type = "MINT_ASSET"
  /\ DetectAllowedFileType(file)
  /\ RequireAdmin(c, who, [route |-> "mint", at |-> "upload", who |-> who,
                           action |-> a, file |-> file])
  /\ UNCHANGED docVars

\* uploadFileToIpfs
Upload(c) ==
  /\ At(c, "mint", "upload")
  /\ Len(ipfs) < MaxUploads
  /\ AddToIpfs(calls[c].file)
  /\ calls' = [calls EXCEPT
                 ![c] = [route |-> "mint", at |-> "store key", who |-> calls[c].who,
                         action |-> calls[c].action, cid |-> FreshCid]]
  /\ UNCHANGED <<vars, history, keyRows, cidOf, delivered>>

\* The call goes on as a proposal that carries the CID.
ToProposal(c) ==
  calls' = [calls EXCEPT ![c].route = "propose", ![c].at = "submit"]

\* Faulty: the row is left for later.
StoreKeyLater(c) ==
  /\ At(c, "mint", "store key")
  /\ ToProposal(c)
  /\ UNCHANGED <<vars, history, docVars>>

StoreKey(c) ==
  /\ At(c, "mint", "store key")
  /\ keyRows' = keyRows \cup {calls[c].cid}
  /\ ToProposal(c)
  /\ UNCHANGED <<vars, history, ipfs, cidOf, delivered>>

\* proposeAction, here and in the routes without a document.
Propose(c, p, t) ==
  /\ HttpPropose(c, p, t)
  /\ cidOf' = [cidOf EXCEPT ![p] =
                 IF calls[c].action.type = "MINT_ASSET" THEN calls[c].cid ELSE Absent]
  /\ UNCHANGED <<ipfs, keyRows, delivered>>

-----------------------------------------------------------------------------
\* GET /assets/:assetId/document

Minted(i) ==
  {p \in ProposalId : HasStatus(p, "EXECUTED") /\ proposals[p].result = i}

GetAsset(i) == assets[i] # Absent

\* The record as it is now is what the rest of the call goes by.
BeginRead(c, who, i) ==
  /\ calls[c] = Idle
  /\ GetAsset(i)
  /\ calls' = [calls EXCEPT
                 ![c] = [route |-> "document", who |-> who, asset |-> i,
                         at  |-> IF assets[i].owner = who THEN "key" ELSE "admin?",
                         cid |-> cidOf[CHOOSE p \in Minted(i) : TRUE]]]
  /\ UNCHANGED <<vars, history, docVars>>

\* Faulty: whoever has a session is let through.
MayReadAny(c, role) == TRUE

MayRead(c, role) == HasActiveRole(role, calls[c].who, clock)

\* The roles are read one after the other; with neither, 403.
CheckRole(c) ==
  /\ \/ At(c, "document", "admin?")
        /\ MoveTo(c, IF MayRead(c, AdminRole) THEN "key" ELSE "auditor?")
     \/ /\ At(c, "document", "auditor?")
        /\ MayRead(c, AuditorRole)
        /\ MoveTo(c, "key")
  /\ UNCHANGED <<vars, history, docVars>>

ReadKey(c) ==
  /\ At(c, "document", "key")
  /\ calls[c].cid \in keyRows
  /\ MoveTo(c, "fetch")
  /\ UNCHANGED <<vars, history, docVars>>

\* fetchFromIpfs, decryption and the answer.
Deliver(c) ==
  /\ At(c, "document", "fetch")
  /\ CanDecrypt(calls[c].cid)
  /\ delivered' = delivered \cup {<<calls[c].who, calls[c].asset>>}
  /\ Return(c)
  /\ UNCHANGED <<vars, history, ipfs, keyRows, cidOf>>

-----------------------------------------------------------------------------
DocNext ==
  \/ \E c \in Call, who \in Did, a \in Action, file \in File : BeginMint(c, who, a, file)
  \/ \E c \in Call : Upload(c)
  \/ \E c \in Call : StoreKey(c)
  \/ \E c \in Call, p \in ProposalId, t \in TxTime : Propose(c, p, t)
  \/ \E c \in Call, who \in Did, i \in AssetId : BeginRead(c, who, i)
  \/ \E c \in Call : CheckRole(c)
  \/ \E c \in Call : ReadKey(c)
  \/ \E c \in Call : Deliver(c)
  \/ ApiStep /\ UNCHANGED docVars

allVars == <<vars, apiVars, docVars>>
DocSpec == DocInit /\ [][DocNext]_allVars

-----------------------------------------------------------------------------
\* Every asset on the ledger can be opened: its CID leads to a ciphertext of an
\* allowed type and to the key of that ciphertext, wherever the calls that minted
\* it, and those of others, broke off.
MintedDocumentsOpen ==
  \A p \in ProposalId :
    HasStatus(p, "EXECUTED") /\ proposals[p].action.type = "MINT_ASSET" =>
      /\ CanDecrypt(cidOf[p])
      /\ DetectAllowedFileType(ipfs[cidOf[p]])
      /\ \A q \in ProposalId \ {p} : cidOf[q] # cidOf[p]

\* Those whom executed proposals, or the bootstrap, ever made owner of an asset, or
\* Admin or Auditor.
EverEntitled(who, i) ==
  \/ GenesisRole(<<AdminRole, who>>) # Absent
  \/ \E p \in ProposalId :
       /\ HasStatus(p, "EXECUTED")
       /\ LET a == proposals[p].action
          IN  \/ a.type = "MINT_ASSET" /\ proposals[p].result = i /\ a.owner = who
              \/ a.type = "TRANSFER_ASSET" /\ a.asset = i /\ a.to = who
              \/ a.type = "GRANT_ROLE" /\ a.role \in {AdminRole, AuditorRole} /\ a.subject = who

\* Nobody gets a document in plaintext whom the organizations did not, by a quorum,
\* make its owner or give a role to: however a reading call interleaves with
\* transfers, grants and revocations, it is not the backend that decides.
DeliveredByGovernance ==
  \A d \in delivered : EverEntitled(d[1], d[2])
=============================================================================
