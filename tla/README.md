# TrustMesh: models and proofs

TLA+ modules for the TrustMesh identity, governance and custody system: what the
chaincode, the Fabric backend, one page of the frontend and the superseded EVM stack
do, the TLC configurations that check it on small instances, and proofs, checked by
TLAPS, that the safety properties hold for every value of the constants.
Paths below are relative to the repository.

Contents: 1 the system, 2 the modules, 3 what each run shows, 4 bounds, 5 fairness,
6 proofs, 7 where the code and its words differ, 8 what is not modelled, 9 the plan.

## 1. The system

Three organizations run a Hyperledger Fabric channel with one chaincode. One backend
(Express, Postgres) holds the Fabric identities of all of them and serves citizens,
admins and verifiers; a Next.js frontend keeps the citizens' keys. A superseded
stack, contracts on an EVM chain that a Safe multisig owns and a backend of its own, is
still in the tree and can be switched on.

| Component | State | Operations | Talks to |
|---|---|---|---|
| Ledger: `chaincode/trustmesh/src` | world state: DIDs, roles, statuses, assets and their counter, proposals | RegisterDID, Propose/Approve/Execute/Cancel; an execution dispatches to one registry function; queries | called by the gateway, emits one event per transaction |
| Gateway: `backend/src/fabric/gateway.ts` | one connection per organization | submit, evaluate | peers and orderer; no retry |
| Governance API: `routes/fabric/{governance,roles,assets}.routes.ts`, `fabric/governance.service.ts`, `org-membership.service.ts`, `bootstrap.ts` | `org_admins` | propose, approve, execute, cancel, all for an admin's session; propose, approve and execute in one call for a recovery, without an admin | ledger reads for the role, then a submission |
| Onboarding and recovery: `fabric/did.service.ts`, `recovery.service.ts`, `routes/fabric/misc.routes.ts` | `users`, `guardians`, `recovery_requests` | register, add guardian, propose and vote a recovery | a governed UPDATE_CONTROLLER on the ledger |
| Vault and erasure: `services/{vault,erasure}.service.ts` | `pii_vault`, `erasure_requests`, `erasure_audit_log` | store a field, ask for or approve an erasure | Postgres only |
| Indexer and transparency: `fabric/indexer.service.ts`, `transparency.service.ts` | checkpoint file, feed in memory | consume, reconnect, count | the chaincode's event stream |
| Sessions: `routes/fabric/auth.routes.ts`, `fabric/auth.middleware.ts` | `auth_nonces`, `sessions`, `known_devices` | challenge, verify, logout, session check | controller key from the ledger |
| Asset documents: `routes/fabric/assets.routes.ts`, `services/{asset-encryption,ipfs,file-type}.service.ts` | `asset_encryption_keys`, files on a private IPFS node | mint with a document, read it | a governed MINT_ASSET; ledger reads for owner and roles |
| Notifications: `fabric/notifications.service.ts` | `notifications` | sent by recovery and login; listed, marked as read | Postgres, the bell |
| Page: `frontend/lib/{identity,identity-context,api}`, `components/{IdentityGate,NotificationBell}` | a key pair in IndexedDB; identity, registered, session, loading in React | create, restore, forget, register, log in and out, poll | the backend's API |
| EVM contracts and Safe: `contracts/contracts` | owners, approved hashes, nonce; roles, statuses, tokens, controllers | execTransaction and the functions it reaches | called by the EVM backend |
| EVM backend: `backend/src/services`, `routes` | `users`, `guardians`, `recovery_requests`; transactions held by a Safe service | governance requests, guardian recovery | Safe, contracts |
| Credentials, DigiLocker mock, network scripts | | | see section 8 |

What is hard about it:

* **Concurrency.** A request handler is an async function; other requests run between
  its awaits, and no two of its queries share a transaction. On the ledger,
  transactions are simulated on one state and committed on another.
* **Failure.** A handler can end at any await (a query throws, a submission times out,
  the process dies), leaving the ledger and the tables half way. Nothing is resumed.
* **Ordering and time.** The chaincode judges expiry by the timestamp that the client
  put on the transaction; commit order need not be timestamp order.
* **Two records of one fact.** Role registry and status registry; `users` and the
  ledger's controller; the checkpoint on disk and the feed in memory; an asset on the
  ledger, its file on IPFS and its key in Postgres; what a page shows and what its
  cookie opens.

What makes each component correct is stated in section 3, and the hazards, each with
the line where it bites, are listed in `PROJECT.json`.

## 2. The modules

| Module | Models | Extends |
|---|---|---|
| `ThresholdApproval` | abstract: what governance by a threshold of parties promises | |
| `TrustMeshLedger` | the chaincode as a serial machine: one action per committed transaction | |
| `LedgerGovernance` | the refinement of `ThresholdApproval` by the ledger | `TrustMeshLedger` |
| `TrustMeshLedgerProofs` | theorems about the ledger, that refinement included | `LedgerGovernance` |
| `FabricOrdering` | endorsement, ordering, validation of concurrent submissions; refines `TrustMeshLedger` | `TrustMeshLedger` |
| `FabricOrderingProofs` | this one, proved, and composed with the other | `FabricOrdering`, `TrustMeshLedgerProofs` |
| `GovernanceApi` | people, roles, organizations, the four governance routes and what a recovery governs | `TrustMeshLedger` |
| `AssetDocuments` | mints with documents, and reading them | `GovernanceApi` |
| `AssetDocumentsProofs` | theorems about these two | `AssetDocuments`, `TrustMeshLedgerProofs` |
| `Recovery` | registration, guardians, votes and their notifications, the rebind they submit | `TrustMeshLedger` |
| `RecoveryProofs` | theorems about it | `Recovery` |
| `Erasure` | the two-admin erasure of vault rows | |
| `ErasureProofs` | theorems about it | `Erasure` |
| `Indexer` | event stream, checkpoint, feed, and the counts taken from it | |
| `Sessions` | login by signed challenge, devices and their alerts, logout | |
| `BackendProofs` | theorems about these two | `Sessions`, `Indexer` |
| `Browser` | one page: key store, shared state, buttons, bell | |
| `BrowserProofs` | theorems about it | `Browser` |
| `SafeMultisig` | the Safe: owners, confirmations, nonce; refines `ThresholdApproval` | |
| `EvmRegistries` | the contracts that the Safe owns | `SafeMultisig` |
| `EvmBackend` | requests that become Safe transactions, local and hosted | `EvmRegistries` |
| `EvmRecovery` | DIDs on the EVM chain and guardian recovery | `EvmBackend` |
| `EvmProofs` | theorems about these four | `EvmRecovery` |
| `MC...` | instances for TLC: actions proposed, assignments, symmetry | the module named |

**TrustMeshLedger.** `proposals`, `dids`, `roles`, `statuses`, `assets` and
`assetCounter` are the key prefixes of `util.ts` as functions to a record or `Absent`
(`getState` of a key never written). A transaction that throws changes nothing, so each
action is enabled exactly when the handler does not throw. `ExecuteProposal` contains
the whole `dispatch`, including the status write inside a grant or a revocation. The
hash `statusIdFor` is the pair of its inputs. `clock` is the most advanced client
clock; a transaction carries a stamp from `TxTime`, at most `Skew` behind it.
`ProposalId` stands for transaction ids, and `result` keeps the id that
`ExecuteProposal` returns for a mint. The signature that `RegisterDID` checks is the
caller's to give: every key can come with one.

**ThresholdApproval.** Items take effect at most once, on the approvals of a threshold
of those who are members at that moment, and never after they were dropped; membership
and threshold change only by an item that takes effect. The system promises this
twice. On the ledger (`LedgerGovernance`) the items are proposals, the members the
organizations, dropped means cancelled. In the Safe the items are transaction hashes,
the members its owners, and a hash is dropped when another one uses up its nonce
(`Superseded`); there the members and the threshold do change.

**FabricOrdering.** A slot holds one submission between endorsement and commit: its
request, stamp, the keys it read and the values it writes. A commit applies the write
set and marks every other slot that read a written key as stale; a stale slot can only
be discarded (Fabric's version check; `gateway.ts` does not retry). Which keys a
handler reads and writes is taken from the chaincode line by line. `ImplementsLedger`
is `TrustMeshLedger`'s `Spec` under the identity mapping of the world state.

**Calls.** In `Recovery`, `GovernanceApi`, `AssetDocuments`, `Erasure`, `Sessions`,
`EvmBackend` and `EvmRecovery` a call is the local state of one async function, and each
action is what it does up to its next await. A call can fail at every await.

**GovernanceApi, AssetDocuments.** `GovernanceApi` starts after `bootstrap.ts`:
founders hold the Admin role and an organization. `RoleRoute`, `TransferRoute` and
`CredentialRoute` say what an admin can propose over HTTP at all: not the rotation of a
controller, and not that a revocation is taken back. Rotations come from the guardians'
route (`RecoveryRoute`): `proposeApproveExecute` proposes as the primary organization,
approves as further ones until the threshold and executes, each a submission of its own
and none of them an admin's; `vouched` records the organizations that it approved as.
Which votes lead there is `Recovery`'s matter; here any rotation may come at any time and
race the calls of admins, who may approve, execute or cancel its proposal as well.
`AssetDocuments` composes it with the three
stores of a document. A mint detects the file's type, encrypts and adds it to IPFS,
stores the key, and then goes on as a proposal of `GovernanceApi` that carries the CID;
a read takes the record from the ledger and then asks, one await after the other, for
the Admin role, the Auditor role, the key row and the file. An upload is the set of
byte patterns found in it.

**Recovery.** Runs on the ledger's own actions, and everybody else may submit anything
(`OtherClients`). `proposeApproveExecute` is its three kinds of submission: the primary
organization proposes, others approve in the order of `ORG_KEYS`, the primary
organization executes. `dispatchNotification` is part of the step that awaits it; it can
be lost, because a failed insertion is only logged.

**Sessions** reduces the ledger to its controllers; the alert of a new device is a step
between the device's row and the session's. **Erasure** is the tables alone.

**Indexer.** The ledger is a growing sequence of chaincode events; a proposal is
proposed, approved and executed or cancelled once. `Process` is the loop
body up to its await, `Checkpoint` what follows, with `toAuditEvent` deciding what enters
the feed; `Disconnect` breaks the stream
anywhere, `Restart` also empties the feed. The counts of `transparency.service.ts` are
operators on the feed.

**Browser.** An operation is a chain of awaits between a click and `Finish`; a request
is served at one step and its answer applied at a later one. The buttons are those that
`IdentityGate` and the navigation bar show in that state. A DID is named by its key
pair, of which it is derived.

**SafeMultisig to EvmRecovery.** Addresses are numbers, as in the code, because owners
are a linked list closed by address 1 and because `checkNSignatures` wants signatures
in ascending order. A contract call that reverts is no step. `EvmRegistries` dispatches
an executed transaction to the contracts' governed functions; time is the block's.
`EvmBackend` has both modes of `safe.service.ts`: local, where the backend approves and
executes with keys it holds, and hosted, where it proposes to a service, others confirm
and execute, and it asks whether that happened. In `EvmRecovery` a rebind that was sent
is mined later, whatever became of the call that sent it. The Safe's part and the
recovery's share only the recovery module, and the registries never look at who owns the
Safe, so `MCEvm` gives a behaviour one topic: requests while owners change, what the
owners do in the registries, or recovery. Whoever holds a role may renounce it
(`RenounceRole`, OpenZeppelin's); only under the topic of requests `MCEvm` leaves that to
one of the two holders.

Variables commented *history* (`cast`, `rebinds`, `told`, `author`, `approvedBy`,
`vouched`, `delivered`, `doomed`, `lifeStart`, `seen`, `valid`, `proved`, `opened`, `announced`,
`executed`, `renounced`, `answered`, `rebound`, `letGo`, `overlapped`, `since`) are read
by properties and by no guard. Operators commented *Faulty* are the mutations used to
confirm that each property can fail.

## 3. What each run shows

Times are with two workers.

| Run | Properties | Shows | Distinct states, time |
|---|---|---|---|
| Ledger | `TypeOK`, `ExecutedHadQuorum`, `WritesAreGoverned`, `SettledIsFinal` | quorum of different organizations before expiry, however stamps and commits are ordered; no privileged write elsewhere, settled is final | 0.8 M, 3 min |
| | `ActiveRoleWasGranted`, `RegistriesInStep`, `ActivationIsGoverned` | a role is active only by executed grants, the two registries agree, no side effect activates | |
| | `MintsMatchCounter`, `CustodyBalances` | ids dense and unique; each owner received an asset once more than they sent it | |
| | `ImplementsThresholdApproval` | the chaincode's governance is threshold approval | |
| FabricOrdering | `FreshIsCurrent`, `ImplementsLedger` | concurrent submissions, stamped out of commit order, of proposals that expire, amount to the serial ledger: the read sets cover all that checks and results depend on | 0.4 M, 1 min |
| AssetDocuments | `ApprovalsAreAttributable`, `QuorumNeedsAnotherOrg` | each approval is one person's of that organization, or a recovery's on a rotation that no person proposed; for anything but rotations a quorum needs a person of another organization | 1.4 M, 2 min |
| | `MintedDocumentsOpen`, `DeliveredByGovernance` | every minted asset can be decrypted, wherever uploads broke off; plaintext only to those whom executed proposals entitled | |
| SecondHuman | `SecondHumanRequired` (violated) | section 7 | |
| Recovery | `RebindHadVotes`, `ExecutedRequestRebound`, `ProposerVoteIsKept`, `ClosedStaysClosed` | no rebind without the guardians' votes; lost votes, repeated rebinds and crashes notwithstanding | 2.3 M, 3.5 min |
| | `OwnerWasWarned` | before a rebind is proposed, the owner was told that enough guardians have voted, unless a notification was lost | |
| Erasure | `ExecutedRowsAreGone`, `ExecutorIsSecondAdmin`, `ErasureNeedsTwoAdmins` | rows go only on two admins' word, executed means deleted | 3.5 M, 90 s |
| ErasureSecondAdmin | `SecondAdminExecutes` (violated) | section 7 | |
| Indexer | `FeedIsGapless`, `EverythingIsIndexed` | no gap, duplicate or disorder in a process's feed; every event indexed in the end | 0.2 M, 90 s |
| | `StatsFollowLedger` | while the feed is whole, the counts of proposals are the ledger's | |
| IndexerTotals | `TotalIsEverMinted` (violated) | section 7 | |
| Sessions | `SessionHadController`, `UnflaggedLoginIsRepeated`, `SpentNoncesStaySpent` | which keys and nonces open a session when verifications overlap and the controller rotates; which logins escape the new-device alert | 1.0 M, 2 min |
| Browser | `RegisteredIsAnchored`, `BellIsOfThisSession` | what a page may claim of its DID, and whose notifications it lists | 2.2 M, 1 min |
| | `AnchorsOnlyHeldKeys`, `KeyIsNotOverwritten` | no DID anchored whose key is already gone, and no key lost by creating another, unless the citizen let go of it | |
| Evm | `ImplementsThresholdApproval`, `OwnersWellFormed` | the Safe is threshold approval while its owners change; the list of owners stays a list | 0.2 M, 2.5 min |
| | `RolesFollowHistory`, `AnswersAreExecutions`, `NoLoneGuardian` | the two role contracts agree with what was executed; in local mode "executed" is said at most once per execution; nobody rebinds a DID alone | |

Some of these are weaker than a reader may expect, because the code is:

* Overlapping votes overwrite each other (`recovery.service.ts:93`). A lost vote has
  to be cast again; `ProposerVoteIsKept` says what is never lost.
* A request can rebind more than once, when two calls reach the threshold together or
  one is repeated after a crash: `ClosedStaysClosed` speaks of a request that is
  recorded as executed and has no call under way. On the EVM chain a rebind that was
  sent can be mined later even than that, and `NoLoneGuardian` says nothing of how often.
* One nonce can open two sessions, for calls that overlap: `SpentNoncesStaySpent`.
* `ApprovalsAreAttributable` counts people, not live roles: a role can be gone by the
  time the approval commits. Likewise `DeliveredByGovernance` speaks of those who were
  ever entitled, since a transfer can commit while a read is under way.
* A device counts as known once its row is inserted, even if that login then ends without
  a session or an alert: `UnflaggedLoginIsRepeated` says of a login without a flag that its
  DID was proved from there before, not that a session was opened.
* `QuorumNeedsAnotherOrg` leaves out rotations of a controller: a recovery's quorum is the
  backend's own, and the guardians behind it are `RebindHadVotes`' matter.
* `RegisteredIsAnchored` is promised while nothing overlaps an operation that may change
  the identity (create, restore, forget, the reading of a refresh); registering, signing in
  and out and the answers of a refresh may overlap. `KeyIsNotOverwritten` and
  `AnchorsOnlyHeldKeys` are promised until a forget is confirmed or a read of the store
  fails; section 7 says what happens otherwise.

## 4. Bounds

Bounds are constants: `MaxTime`, `MaxAssets`, `MaxUploads`, `MaxRequests`, `MaxRows`,
`MaxEvents`, `MaxRestarts`, `MaxNonce`, `MaxApprovals`, `MaxTokens`, `MaxHeld`,
`MaxGuardians`, `MaxKeys`, `MaxOps`, `MaxReloads`, and the sizes of the sets of ids. They
are chosen so that:

* proposals expire, are executed in the tick before, and carry stamps out of commit order:
  in the tick after its own a proposal is expired for a transaction stamped then and not
  for one that commits later with an older stamp (Ledger: `TTL` 0, `Skew` 1, three ticks;
  FabricOrdering: the same in two ticks);
* a role is granted, revoked and granted again, or revoked through its status id, and an
  asset is minted and transferred, or transferred twice on one holding (Ledger: three
  proposals, two assets; a behaviour's proposals are all about the role, or all about the
  assets and a grant, since roles and assets share no key, and approvals and expiry do not
  look at the action; the theorems of section 6 make no such restriction);
* every dispatched action races another on the same keys (FabricOrdering: two
  submissions at a time, one action per registry, two proposals);
* an admin of each of two organizations and a citizen mint, read, transfer and grant, and
  recoveries rotate the citizen's controller, with two calls at a time and two uploads, one
  of them of no allowed type (AssetDocuments);
* two guardians hold up to two rows, duplicates included, rows are added after a
  recovery was proposed with fewer, and two calls and two
  rebind proposals of one request overlap (Recovery);
* three admins and two requests for one DID, so that a request can be abandoned and
  another opened (Erasure);
* the feed overflows and the process restarts twice (Indexer: five events of two proposals
  and registrations, four slots);
* two verifications of one nonce overlap a rotation, and a second nonce expires
  (Sessions);
* an identity is forgotten and replaced while two operations and a poll are under way, and
  the page is loaded again (Browser);
* a 2-of-3 Safe, of four accounts, loses, swaps and regains owners with two transactions
  executed, while two requests compete for their nonces; or it executes two out of all
  that touches a role which is there (its grant, its early revocation, both values of its
  status written directly, taking away the registry's permission to write statuses) or a
  token, and both holders of a role may renounce it (under the topic of requests one of
  the two); or two guardians vote in two calls (Evm).

No instance proposes a change of the Safe's threshold alone, or a status that belongs to
no role. The first is part of `removeOwner`, the second is read by no other contract; the
theorems of section 6 cover both.

Model values are symmetric where no action tells them apart; runs with a liveness
property use no symmetry. `CHECK_DEADLOCK FALSE` everywhere: with bounded ids every
model ends when all of them are used, and nobody has to click or to call.

## 5. Fairness

Only `Indexer` has a liveness property. `startIndexer` loops until stopped and waits at
most 30 seconds between connections: weak fairness of `Connect`. A network that is up
again and again eventually delivers an event and lets a checkpoint be written, even
when streams break in between: strong fairness of `Process` and `Checkpoint`. Restarts
are finitely many, disconnections are not. No other component retries anything: calls,
recoveries, erasures, a page's operations and Safe transactions all wait for somebody to
act again, so nothing would justify fairness there.

## 6. Proofs

Every invariant and action property that a passing run checks, and every refinement, is
also a theorem, for every value of the constants that satisfies the named assumptions:
any number of organizations, people, proposals, requests, calls, operations, rows and
events, and no bound other than that the bounds are natural numbers. Each proof module
gives, in this order, the types, the inductive invariant, one lemma per action or group of
actions, and the theorems.

The assumptions say what the code guarantees of its inputs, and TLC evaluates them in the
runs: thresholds are positive (`ParametersAssumption`, `ErasureAssumption`), placeholders
for "no value" are not values (`AbsentAssumption`, `RowsAssumption`, `PeopleAssumption`,
`RecoveryAssumption`, `BrowserAssumption`), configured lists are of the right kind
(`ActionAssumption`, `OrgKeysAssumption`, `RolesAssumption`, `BackendAssumption`,
`RegistriesAssumption`), the Safe starts with distinct owners and a threshold they can
reach and is called with addresses (`SafeAssumption`, `OwnerCallAssumption`), and every
event of a status says which (`IndexerAssumption`: `registry.ts:131` always sets the
field). Three restrict the scope:

* `OrganizationsAssumption`: there are finitely many organizations, at least as many as the
  threshold (three and two, in the code).
* `LatenessAssumption`: the clock's bound is not above `Skew`, so that a stamp taken at
  endorsement is one that the serial ledger allows, however late the commit.
* Two theorems have a hypothesis: `AnotherOrgApproved` that the threshold is at least two
  (`GOVERNANCE_THRESHOLD`), `NoErasureWithoutTwoAdmins` that it is two (the value that
  `erasure.service.ts` inserts; with three, approvals that overwrite each other could leave
  fewer in the row than the calls had counted).

### The ledger: `TrustMeshLedgerProofs`

| Theorem | Property |
|---|---|
| `TypeCorrect` | `TypeOK` |
| `ExecutionNeedsQuorum` | `ExecutedHadQuorum` |
| `OnlyGovernedWrites` | `WritesAreGoverned` |
| `SettledStays` | `SettledIsFinal` |
| `RolesComeFromGrants` | `ActiveRoleWasGranted` |
| `RegistriesStayInStep` | `RegistriesInStep` |
| `OnlyGovernedActivation` | `ActivationIsGoverned` |
| `AssetIdsAreDense` | `MintsMatchCounter` |
| `CustodyIsConserved` | `CustodyBalances` |
| `LedgerImplementsThresholdApproval` | `Spec => ImplementsThresholdApproval` |

`TypeOK` is inductive; lemmas state once what a new proposal, an approval and an execution
look like. `ExecutedHadQuorum` alone is not inductive: an execution makes it true only
because of what holds of the *pending* proposal. The strengthening says of every proposal,
whatever its status, that its approvals are of different organizations, the first one the
proposer's, all stamped before expiry, and the invariant follows with the guard of
`CanExecute`. `SettledIsFinal` gives the monotonicity that the history arguments need: an
executed grant stays in the history, so a role record that it explains stays explained.
`RegistriesInStep` is inductive given types: a grant writes both records, and an early
revocation keeps the expiry that the grant wrote. `MintsMatchCounter` and `CustodyBalances`
count: an execution adds one proposal to the set of executed mints, or to the ways in
which one person received and another one sent, and the finite-set theorems carry the
cardinality through.

For the refinement, proposing and approving are the abstract `Approve`, executing and
cancelling are `Execute` and `Drop`, everything else is a stutter; by `TypeOK` every
approval is that of an organization and so counts.

### Concurrent submissions: `FabricOrderingProofs`

| Theorem | Property |
|---|---|
| `FreshSubmissionsAreCurrent` | `FreshIsCurrent` |
| `FabricImplementsLedger` | `ImplementsLedger`, that is `FabricSpec => Spec` |
| `FabricIsGoverned` | `ExecutedHadQuorum` and `WritesAreGoverned`, carried over by the refinement |
| `FabricIsThresholdApproval` | `ImplementsThresholdApproval`, the two refinements composed |

The invariant `FabricInv` says of every submission not marked stale that it could be
simulated again now and would read and write the same (`FreshRepeats`), and that no two
submissions create the same proposal (`IdsAreUnique`). The second part is needed
because `ProposeAction` reads nothing: only the uniqueness of transaction ids protects
it. `ReadsAll` is the lemma that carries the argument: if a write set is disjoint from
what a simulation reads, the simulation still succeeds, reads the same keys and writes
the same values. `CommitIsStep` says that applying the write set of a repeatable
simulation is a step of the serial ledger; its longest part, `AppliedExecution`, takes
the six dispatched actions one by one.

### People and documents: `AssetDocumentsProofs`

| Theorem | Property |
|---|---|
| `ApprovalsAreOfPeople` | `ApprovalsAreAttributable` |
| `AnotherOrgApproved` | `QuorumNeedsAnotherOrg` |
| `DocumentsOpen` | `MintedDocumentsOpen` |
| `DeliveriesAreGoverned` | `DeliveredByGovernance` |

`DocInv` joins what the ledger's theorems say, which hold of its steps whoever takes them,
to what is known of a call at each await: a call about to submit an approval knows the
organization of the person who makes it, one about to store a key already pinned the
ciphertext, one about to deliver saw its reader entitled. Since other calls move in
between, each of these must be a fact that lasts: proposals and uploads only grow, and who
was entitled *once* stays so; that is why `DeliveredByGovernance` speaks of "ever". A role
that is active, or an owner, is traced back to an executed proposal by the ledger's own
invariants.

Of every proposal `Attributed` counts the organizations that signed after the first: those
of the people recorded plus those of a recovery. A recovery that is about to approve knows
that nobody authored its proposal (`Unauthored`), and no admin's proposal can become one of
these, so its approvals never add to a person's. An admin may still approve a recovery's
proposal; the recovery is then refused as that organization, because the chaincode counts
each once.

### Recovery: `RecoveryProofs`

| Theorem | Property |
|---|---|
| `RebindsHadVotes` | `RebindHadVotes` |
| `ExecutedRequestsRebound` | `ExecutedRequestRebound` |
| `ProposerVotesAreKept` | `ProposerVoteIsKept` |
| `OwnersWereWarned` | `OwnerWasWarned` |
| `ClosedRequestsStayClosed` | `ClosedStaysClosed` |

The table is not enough to prove anything, since votes overwrite each other. `RecoveryInv`
says of each *call* what its local state stands for: the votes it carries were cast, by
guardians who were rows then, and from the notification on they are as many as the request
needs. What others do cannot take that back: `cast`, guardians, warnings and executed
proposals only grow, and a pending proposal keeps its action (`LedgerSteps` says this of
every transaction of anybody). A request is written as executed only by a call whose own execution
succeeded. For `ClosedStaysClosed`, once the votes under way are through, a call
that reads an executed request returns without writing. `Least`, that a set of naturals
has a least element, finds the next organization in `ORG_KEYS`.

### Erasure: `ErasureProofs`

| Theorem | Property |
|---|---|
| `ExecutedErasuresAreDone` | `ExecutedRowsAreGone` |
| `ExecutorsAreSecondAdmins` | `ExecutorIsSecondAdmin` |
| `NoErasureWithoutTwoAdmins` | `ErasureNeedsTwoAdmins` |

A call that has crossed the threshold wrote a set of approvals which contains its admin and
the requester; a row of the request may hold a later call's set by now, but every set that
is ever written contains the requester and somebody else. Row ids are never reused, so what
was deleted stays deleted, and a row stored after the threshold is not among the doomed.

### Sessions and the feed: `BackendProofs`

| Theorem | Property |
|---|---|
| `SessionsHadControllers` | `SessionHadController` |
| `UnflaggedLoginsAreRepeated` | `UnflaggedLoginIsRepeated` |
| `SpentNoncesOpenNothing` | `SpentNoncesStaySpent` |
| `FeedSkipsNothing` | `FeedIsGapless` |
| `StatsAreOfTheLedger` | `StatsFollowLedger` |

`SessionsInv` is again about calls: past the signature check a call's key was a controller
since it began and its DID was proved from its device; twice, if a row of `known_devices`
says so to a call that has yet to look. Two parts make this inductive: that every row of
`known_devices` was proved, and that two calls past the signature check for one DID and device have
proved it twice (`Overlapping`). A spent nonce is carried by no call that is not through,
and `ReadNonce` refuses it.

The feed: what a process has been through is at most one event ahead of the checkpoint, and
an open stream stands between the two (`Position`). So what it takes next is either the
event after those it has been through, or one that it has seen and drops. The counts
follow from what the ledger may emit of one proposal, in which order
(`LedgerOfProposals`), by a bijection between the entries of a whole feed and the
proposals.

### The EVM stack: `EvmProofs`

| Theorem | Property |
|---|---|
| `OwnersStand` | `OwnersWellFormed` |
| `SafeImplementsThresholdApproval` | `ImplementsThresholdApproval` |
| `RolesAreHistory` | `RolesFollowHistory` |
| `AnswersHappened` | `AnswersAreExecutions` |
| `NoGuardianAlone` | `NoLoneGuardian` |

That links form one cycle is reachability, which by itself is no first-order fact. `OwnersInv`
says instead that there *is* a numbering of the owners along the links, from the
sentinel, without a repetition; each of the three changes of the list gives the
new numbering from the old one (`RingGrows`, `RingShrinks`, `RingSwaps`), and that
`Walk`, a recursive function, runs along it follows by taking the first place where it would
not (`Least`) instead of by induction. The refinement needs in addition that signatures in
ascending order are of different owners (`AscendingDiffer`), so that a threshold of them is a
threshold of parties, and that a nonce below the Safe's has been used by exactly one hash.

`RolesInv` says of each role how record and status in the two contracts stand to
the latest executed calls about it, so that an execution, which makes itself the latest,
and time are covered. `AnswersInv` counts per call: answers given plus requests that
have executed and not yet answered are at most the executions of it. `GuardiansInv` says,
as for the Fabric backend, what the votes stand for that a call carries.

The theorems are of `BackendSpec`, the Safe with everything that happens around it, and of
`RecoverySpec`; the topics of `MCEvm` are parts of these.

### The page: `BrowserProofs`

| Theorem | Property |
|---|---|
| `PageIsTyped` | (types; the page shows the DID of the stored key) |
| `RegisteredMeansAnchored` | `RegisteredIsAnchored` |
| `BellShowsThisSession` | `BellIsOfThisSession` |
| `KeysAreNotOverwritten` | `KeyIsNotOverwritten` |
| `AnchoredKeysAreHeld` | `AnchorsOnlyHeldKeys` |

The page's safety lies in which buttons are shown while which operation waits. `GateIsRight`
says, while nothing has overlapped an operation that may change the identity, what the flag
is worth: such an operation is alone, and all the others leave the identity as it is, so
that a registration or a refresh that answers late answers for the DID still shown.
`KeysAreSafe` says that without a confirmed forget or a failed read, an operation that is
going to install a key is there only while none is stored: the gate shows "create" and
"restore" only then, and the loading flag covers the first refresh. `BellIsRight` says that a poll not cancelled by signing out carries a cookie held since signing in.
`SignedIsStored` adds that the signature of a registration on its way is by the key in the
store, because nothing replaced that key since; and since the ledger accepts only the
signature of the DID's own key, a DID is anchored while its key is held. The other half of
that key's life, `forget`, needs the confirmation; the mutant forgets without it. Loading the
page again drops the registrations under way; one that the backend serves after that is
not modelled.

### What only TLC checks

* `EverythingIsIndexed` of `Indexer`, because it is a liveness property, and the prover has
  no rule for fairness.
* The three properties that are violated (section 7): a behaviour that refutes them is shown,
  and nothing is left to prove.

## 7. Where the code and its words differ

With a run that shows it:

* `services/erasure.service.ts:41` promises that a second, distinct admin's call
  executes the erasure. Two first calls at once open two requests, and neither is
  executed (`ErasureSecondAdmin`).
* `routes/fabric/governance.routes.ts:68` says a different human is structurally
  required for the second approval. Proposals are signed as the primary organization
  whoever is logged in, so an admin of another one proposes and approves alone
  (`SecondHuman`).
* `fabric/transparency.service.ts:30` calls its total "ever minted, from the durable
  audit feed". The feed is an array in memory that a restart empties
  (`IndexerTotals`).

Seen while modelling, without a run.

Ledger and Fabric backend:

* A comment of `recovery.service.ts` gives the threshold as 2 of 3 and 3 of 4; the code
  computes `ceil(n / 2) + 1`, three of three and three of four. The EVM service has the
  same comment and the same formula.
* `governance.contract.ts:218` lets only the proposing organization cancel, so that one
  organization cannot silently kill another's action. Over HTTP every proposal is the
  primary organization's, and every admin's cancellation is signed by it.
* `docs/API.md:252-257` calls the rebind of a recovery "the same 2-of-3 organization
  approval as every other mutation, not a unilateral backend write". The signatures are of
  two organizations, and the backend gives both (`proposeApproveExecute`, whose comment says
  as much); the admins of the second one are not asked.
* `registry.service.ts:64` speaks of subjects currently holding a role; expired grants
  are included.
* After a recovery the guardians route refuses the new controller: it compares with the
  birth key in `users`. The notifications of the DID are read by the new controller's
  sessions.
* A registration whose `users` row could not be inserted cannot be repeated, and the DID
  cannot sign in: `known_devices`, `guardians` and `notifications` refer to that row.
* `GET /verify/:did` reads roles and assets concurrently, which may be of two states of
  the ledger, and answers `credentialsValid: true` whatever they are. The revocation
  status of a credential is consulted nowhere: `verifyCredentialJwt` has no caller.
* An executed un-revocation is not in the feed and counts as pending in the totals.
* `role_labels` is written and never read; `sessions.revoked_at` is read and never set.

Page:

* After an operation that overlaps a forget or a create, `registered` can be true of a
  DID that is not on the ledger, until the page is loaded again. `roles` stay those of
  the forgotten identity; `session` can be shown for a cookie of another DID.
* A DID that the citizen forgets while its registration is under way is anchored all the
  same, and nobody may hold its key by then.
* One loading flag serves all operations, and the first to end lowers it.
* `loadIdentity` answers null when the store cannot be read; creating an identity then
  overwrites the one that is there.
* A log-out that failed is shown as done while the cookie lives, and an expired session's
  log-out is refused, because `/auth/logout` is not public.
* Marking notifications as read marks ones that were never displayed; a late poll sets
  the counter back. In `VerifierView` a late answer to an earlier look-up replaces a newer
  one.

EVM stack:

* `AssetNFT` inherits `transferFrom`: holders pass tokens on without governance.
  `revokeRoleEarly` needs no grant to revoke.
* Hosted requests that read one nonce share it; one of them is executed and the other is
  polled for without end. In local mode `getSafeTransactionStatus` always answers
  executed.
* `registerDID` accepts any hash from anyone. A DID registered by somebody else, or one
  whose controller was recovered, can add no guardians through the backend, which derives
  the DID from the session's address.
* The EVM indexer's overlapping refreshes can add one event twice, and a scan that ended
  at block 0 starts over.

## 8. What is not modelled

* Pure functions on bytes (hashing, signatures, encryption), wording, TLS, rate limits,
  cookie attributes, network scripts that an operator runs once.
* Ledger queries beyond those that other modules decide by; they filter the world state.
* Sessions: their expiry, which only `requireSession` reads, and the last-seen time.
* Governance over HTTP: assigning organizations again after bootstrap.
* Indexer: `stopIndexer`, undecodable payloads, counts per role and the mean time to
  approval.
* Notifications: reading marks and wording.
* Credentials: issuing signs a document and keeps nothing; verifying has no caller.
  DigiLocker import reads a mock and calls `storeField`, an action of `Erasure`.
* Page: pages that call the API and show the answer, the banner of a new device, error
  texts, the choice of a portal.
* EVM stack: sessions (those of `Sessions` without devices), the polling indexer,
  verification and the upload of a mint; what ERC721 and AccessControl add to the
  contracts apart from `renounceRole`; modules, guards, refunds and contract signatures of
  the Safe, which nothing here uses.

## 9. Plan

Done, in this order: `TrustMeshLedger` with its proofs, `FabricOrdering` with its own,
`Recovery`, `Erasure`, `GovernanceApi`, `Indexer`, `Sessions`; then `AssetDocuments`,
`ThresholdApproval` with its two refinements, the EVM stack, `Browser`, notifications and
the counts of the feed.

The proofs followed: the ledger and its ordering first, then custody and the refinements of
`ThresholdApproval`, `Recovery`, `Erasure`, `AssetDocuments` with `GovernanceApi`,
`Sessions`, `Indexer`, the EVM stack and `Browser`.

Next, proving: what a hosted Safe request may be told, as `AnswersHappened` is about local mode.

Next, extending the model: overlapping look-ups of `VerifierView` over a torn
`GET /verify`; the EVM indexer.
