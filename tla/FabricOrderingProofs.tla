------------------------- MODULE FabricOrderingProofs -------------------------
(***************************************************************************)
(* FabricOrdering implements TrustMeshLedger: whatever is submitted at the *)
(* same time, the committed transactions are steps of the serial ledger.   *)
(*                                                                         *)
(* The invariant says of every submission that would pass validation that  *)
(* its simulation, repeated now, would read and write the same.  A commit  *)
(* preserves it because a submission that read a key it writes is marked,  *)
(* and one that did not depends on nothing that it changes.                *)
(***************************************************************************)
EXTENDS FabricOrdering, TrustMeshLedgerProofs

-----------------------------------------------------------------------------
\* Keys and write sets.

\* The world state after a write set.
Applied(w) ==
  /\ proposals' = [p \in ProposalId |-> After(w, proposalKey(p), proposals[p])]
  /\ dids' = [d \in Did |-> After(w, didKey(d), dids[d])]
  /\ roles' = [k \in RoleKey |-> After(w, roleKey(k[1], k[2]), roles[k])]
  /\ statuses' = [i \in StatusId |-> After(w, statusKey(i), statuses[i])]
  /\ assets' = [i \in AssetId |-> After(w, assetKey(i), assets[i])]
  /\ assetCounter' = After(w, ASSET_COUNTER_KEY, assetCounter)

\* Keys are the same only for the same registry and the same id.
LEMMA KeysDiffer ==
  ASSUME NEW a, NEW b, NEW c, NEW d
  PROVE  /\ proposalKey(a) = proposalKey(b) => a = b
         /\ didKey(a) = didKey(b) => a = b
         /\ statusKey(a) = statusKey(b) => a = b
         /\ assetKey(a) = assetKey(b) => a = b
         /\ roleKey(a, b) = roleKey(c, d) => a = c /\ b = d
  BY DEF proposalKey, didKey, statusKey, assetKey, roleKey

LEMMA RegistriesDiffer ==
  ASSUME NEW a, NEW b, NEW c
  PROVE  /\ proposalKey(a) # didKey(b)
         /\ proposalKey(a) # statusKey(b)
         /\ proposalKey(a) # assetKey(b)
         /\ proposalKey(a) # roleKey(b, c)
         /\ proposalKey(a) # ASSET_COUNTER_KEY
         /\ didKey(a) # statusKey(b)
         /\ didKey(a) # assetKey(b)
         /\ didKey(a) # roleKey(b, c)
         /\ didKey(a) # ASSET_COUNTER_KEY
         /\ statusKey(a) # assetKey(b)
         /\ statusKey(a) # roleKey(b, c)
         /\ statusKey(a) # ASSET_COUNTER_KEY
         /\ assetKey(a) # roleKey(b, c)
         /\ assetKey(a) # ASSET_COUNTER_KEY
         /\ roleKey(a, b) # ASSET_COUNTER_KEY
  BY DEF proposalKey, didKey, statusKey, assetKey, roleKey, ASSET_COUNTER_KEY

LEMMA Unwritten ==
  ASSUME NEW w, Applied(w)
  PROVE  /\ \A p \in ProposalId : proposalKey(p) \notin DOMAIN w =>
              proposals'[p] = proposals[p]
         /\ \A d \in Did : didKey(d) \notin DOMAIN w => dids'[d] = dids[d]
         /\ \A r \in RoleId, d \in Did : roleKey(r, d) \notin DOMAIN w =>
              roles'[<<r, d>>] = roles[<<r, d>>]
         /\ \A i \in StatusId : statusKey(i) \notin DOMAIN w => statuses'[i] = statuses[i]
         /\ \A i \in AssetId : assetKey(i) \notin DOMAIN w => assets'[i] = assets[i]
         /\ ASSET_COUNTER_KEY \notin DOMAIN w => assetCounter' = assetCounter
<1>1. ASSUME NEW r \in RoleId, NEW d \in Did, roleKey(r, d) \notin DOMAIN w
      PROVE  roles'[<<r, d>>] = roles[<<r, d>>]
  <2>1. <<r, d>> \in RoleKey
    BY DEF RoleKey
  <2>2. roles'[<<r, d>>] = After(w, roleKey(r, d), roles[<<r, d>>])
    BY <2>1 DEF Applied
  <2>3. QED
    BY <1>1, <2>2 DEF After
<1>2. QED
  BY <1>1 DEF Applied, After

-----------------------------------------------------------------------------
\* What a simulation depends on is what it reads.

LEMMA ActionFields ==
  ASSUME NEW a \in Action
  PROVE  \/ a.type = "GRANT_ROLE" /\ a.role \in RoleId /\ a.subject \in Did /\ a.expiry \in Nat
         \/ a.type = "REVOKE_ROLE" /\ a.role \in RoleId /\ a.subject \in Did
         \/ a.type = "MINT_ASSET" /\ a.owner \in Did
         \/ a.type = "TRANSFER_ASSET" /\ a.asset \in AssetId /\ a.from \in Did /\ a.to \in Did
         \/ a.type = "UPDATE_CONTROLLER" /\ a.did \in Did /\ a.key \in Key
         \/ /\ a.type = "SET_CREDENTIAL_STATUS"
            /\ a.status \in StatusId
            /\ a.revoked \in BOOLEAN
            /\ a.expiry \in Nat \cup {Absent}
<1>1. a \in PrivilegedAction
  BY ActionAssumption
<1>2. QED
  BY <1>1 DEF PrivilegedAction, GrantRole, RevokeRole, MintAsset, TransferAsset,
     UpdateController, SetCredentialStatus

\* The read and write sets, one kind of action at a time.

LEMMA GrantSets ==
  ASSUME NEW a, a.type = "GRANT_ROLE"
  PROVE  /\ DispatchReads(a) = {statusKey(StatusIdFor(a.role, a.subject))}
         /\ DispatchWrites(a) =
              And(OneKey(roleKey(a.role, a.subject), RoleGrant(a.expiry)),
                  OneKey(statusKey(StatusIdFor(a.role, a.subject)),
                         StatusWrite(StatusIdFor(a.role, a.subject), FALSE, a.expiry)))
         /\ DispatchWrites(a)' =
              And(OneKey(roleKey(a.role, a.subject), RoleGrant(a.expiry)),
                  OneKey(statusKey(StatusIdFor(a.role, a.subject)),
                         StatusWrite(StatusIdFor(a.role, a.subject), FALSE, a.expiry)'))
  BY Zenon DEF DispatchReads, DispatchWrites

LEMMA RevokeSets ==
  ASSUME NEW a, a.type = "REVOKE_ROLE"
  PROVE  /\ DispatchReads(a) = {roleKey(a.role, a.subject),
                                statusKey(StatusIdFor(a.role, a.subject))}
         /\ DispatchWrites(a) =
              And(OneKey(roleKey(a.role, a.subject),
                         [roles[<<a.role, a.subject>>] EXCEPT !.granted = FALSE]),
                  OneKey(statusKey(StatusIdFor(a.role, a.subject)),
                         StatusWrite(StatusIdFor(a.role, a.subject), TRUE, Absent)))
         /\ DispatchWrites(a)' =
              And(OneKey(roleKey(a.role, a.subject),
                         [roles'[<<a.role, a.subject>>] EXCEPT !.granted = FALSE]),
                  OneKey(statusKey(StatusIdFor(a.role, a.subject)),
                         StatusWrite(StatusIdFor(a.role, a.subject), TRUE, Absent)'))
  BY Zenon DEF DispatchReads, DispatchWrites

LEMMA MintSets ==
  ASSUME NEW a, a.type = "MINT_ASSET"
  PROVE  /\ DispatchReads(a) = {ASSET_COUNTER_KEY}
         /\ DispatchWrites(a) = And(OneKey(ASSET_COUNTER_KEY, assetCounter + 1),
                                    OneKey(assetKey(assetCounter), [owner |-> a.owner]))
         /\ DispatchWrites(a)' = And(OneKey(ASSET_COUNTER_KEY, assetCounter' + 1),
                                     OneKey(assetKey(assetCounter'), [owner |-> a.owner]))
  BY Zenon DEF DispatchReads, DispatchWrites

LEMMA TransferSets ==
  ASSUME NEW a, a.type = "TRANSFER_ASSET"
  PROVE  /\ DispatchReads(a) = {assetKey(a.asset)}
         /\ DispatchWrites(a) = OneKey(assetKey(a.asset), [assets[a.asset] EXCEPT !.owner = a.to])
         /\ DispatchWrites(a)' = OneKey(assetKey(a.asset), [assets'[a.asset] EXCEPT !.owner = a.to])
  BY Zenon DEF DispatchReads, DispatchWrites

LEMMA ControllerSets ==
  ASSUME NEW a, a.type = "UPDATE_CONTROLLER"
  PROVE  /\ DispatchReads(a) = {didKey(a.did)}
         /\ DispatchWrites(a) = OneKey(didKey(a.did), [dids[a.did] EXCEPT !.controller = a.key])
         /\ DispatchWrites(a)' = OneKey(didKey(a.did), [dids'[a.did] EXCEPT !.controller = a.key])
  BY Zenon DEF DispatchReads, DispatchWrites

LEMMA StatusSets ==
  ASSUME NEW a, a.type = "SET_CREDENTIAL_STATUS"
  PROVE  /\ DispatchReads(a) = {statusKey(a.status)}
         /\ DispatchWrites(a) =
              OneKey(statusKey(a.status), StatusWrite(a.status, a.revoked, a.expiry))
         /\ DispatchWrites(a)' =
              OneKey(statusKey(a.status), StatusWrite(a.status, a.revoked, a.expiry)')
  BY Zenon DEF DispatchReads, DispatchWrites

LEMMA DispatchReadsAll ==
  ASSUME NEW a \in Action, NEW t \in Time, NEW w, Applied(w),
         CanDispatch(a, t), DispatchReads(a) \cap DOMAIN w = {}
  PROVE  /\ CanDispatch(a, t)'
         /\ DispatchReads(a)' = DispatchReads(a)
         /\ DispatchWrites(a)' = DispatchWrites(a)
<1>1. DispatchReads(a)' = DispatchReads(a)
  BY Zenon DEF DispatchReads, StatusIdFor, roleKey, statusKey, assetKey, didKey,
     ASSET_COUNTER_KEY
<1>2. CASE a.type = "GRANT_ROLE" /\ a.role \in RoleId /\ a.subject \in Did /\ a.expiry \in Nat
  <2> DEFINE id == StatusIdFor(a.role, a.subject)
  <2>1. id \in StatusId
    BY <1>2 DEF StatusId
  <2>2. statuses'[id] = statuses[id]
    BY <1>2, <2>1, GrantSets, Unwritten
  <2>3. StatusWrite(id, FALSE, a.expiry)' = StatusWrite(id, FALSE, a.expiry)
    BY <2>2 DEF StatusWrite, StatusIdFor
  <2>4. CanDispatch(a, t)'
    BY <1>2 DEF CanDispatch, CanGrantUntil
  <2>5. QED
    BY <1>1, <1>2, <2>3, <2>4, GrantSets
<1>3. CASE a.type = "REVOKE_ROLE" /\ a.role \in RoleId /\ a.subject \in Did
  <2> DEFINE id == StatusIdFor(a.role, a.subject)
  <2>1. id \in StatusId
    BY <1>3 DEF StatusId
  <2>2. statuses'[id] = statuses[id] /\ roles'[<<a.role, a.subject>>] = roles[<<a.role, a.subject>>]
    BY <1>3, <2>1, RevokeSets, Unwritten
  <2>3. StatusWrite(id, TRUE, Absent)' = StatusWrite(id, TRUE, Absent)
    BY <2>2 DEF StatusWrite, StatusIdFor
  <2>4. CanDispatch(a, t)'
    BY <1>3, <2>2 DEF CanDispatch, IsGranted
  <2>5. QED
    BY <1>1, <1>3, <2>2, <2>3, <2>4, RevokeSets
<1>4. CASE a.type = "MINT_ASSET" /\ a.owner \in Did
  <2>1. assetCounter' = assetCounter
    BY <1>4, MintSets, Unwritten
  <2>2. CanDispatch(a, t)'
    BY <1>4, <2>1 DEF CanDispatch
  <2>3. QED
    BY <1>1, <1>4, <2>1, <2>2, MintSets
<1>5. CASE a.type = "TRANSFER_ASSET" /\ a.asset \in AssetId /\ a.from \in Did /\ a.to \in Did
  <2>1. assets'[a.asset] = assets[a.asset]
    BY <1>5, TransferSets, Unwritten
  <2>2. CanDispatch(a, t)'
    BY <1>5, <2>1 DEF CanDispatch, IsOwner
  <2>3. QED
    BY <1>1, <1>5, <2>1, <2>2, TransferSets
<1>6. CASE a.type = "UPDATE_CONTROLLER" /\ a.did \in Did /\ a.key \in Key
  <2>1. dids'[a.did] = dids[a.did]
    BY <1>6, ControllerSets, Unwritten
  <2>2. CanDispatch(a, t)'
    BY <1>6, <2>1 DEF CanDispatch
  <2>3. QED
    BY <1>1, <1>6, <2>1, <2>2, ControllerSets
<1>7. CASE /\ a.type = "SET_CREDENTIAL_STATUS"
           /\ a.status \in StatusId
           /\ a.revoked \in BOOLEAN
           /\ a.expiry \in Nat \cup {Absent}
  <2>1. statuses'[a.status] = statuses[a.status]
    BY <1>7, StatusSets, Unwritten
  <2>2. StatusWrite(a.status, a.revoked, a.expiry)' = StatusWrite(a.status, a.revoked, a.expiry)
    BY <2>1 DEF StatusWrite
  <2>3. CanDispatch(a, t)'
    BY <1>7 DEF CanDispatch
  <2>4. QED
    BY <1>1, <1>7, <2>2, <2>3, StatusSets
<1>8. QED
  BY <1>2, <1>3, <1>4, <1>5, <1>6, <1>7, ActionFields

\* The same of whole transactions.

LEMMA ProposeSets ==
  ASSUME NEW req, req.fn = "ProposeAction", NEW t
  PROVE  /\ Reads(req) = {}
         /\ Reads(req)' = {}
         /\ Writes(req, t) = OneKey(proposalKey(req.proposal), NewProposal(req.org, req.action, t))
         /\ Writes(req, t)' = OneKey(proposalKey(req.proposal), NewProposal(req.org, req.action, t))
  BY Zenon DEF Reads, Writes

LEMMA ApproveSets ==
  ASSUME NEW req, req.fn = "ApproveProposal", NEW t
  PROVE  /\ Reads(req) = {proposalKey(req.proposal)}
         /\ Reads(req)' = {proposalKey(req.proposal)}
         /\ Writes(req, t) = OneKey(proposalKey(req.proposal),
                                   WithApproval(proposals[req.proposal], req.org, t))
         /\ Writes(req, t)' = OneKey(proposalKey(req.proposal),
                                    WithApproval(proposals'[req.proposal], req.org, t))
  BY Zenon DEF Reads, Writes

LEMMA ExecuteSets ==
  ASSUME NEW req, req.fn = "ExecuteProposal", NEW t
  PROVE  /\ Reads(req) = {proposalKey(req.proposal)}
                            \cup DispatchReads(proposals[req.proposal].action)
         /\ Reads(req)' = {proposalKey(req.proposal)}
                             \cup DispatchReads(proposals'[req.proposal].action)
         /\ Writes(req, t) =
              And(OneKey(proposalKey(req.proposal), AsExecuted(proposals[req.proposal], t)),
                  DispatchWrites(proposals[req.proposal].action))
         /\ Writes(req, t)' =
              And(OneKey(proposalKey(req.proposal), AsExecuted(proposals[req.proposal], t)'),
                  DispatchWrites(proposals[req.proposal].action)')
  BY Zenon DEF Reads, Writes

LEMMA CancelSets ==
  ASSUME NEW req, req.fn = "CancelProposal", NEW t
  PROVE  /\ Reads(req) = {proposalKey(req.proposal)}
         /\ Reads(req)' = {proposalKey(req.proposal)}
         /\ Writes(req, t) = OneKey(proposalKey(req.proposal),
                                   [proposals[req.proposal] EXCEPT !.status = "CANCELLED"])
         /\ Writes(req, t)' = OneKey(proposalKey(req.proposal),
                                    [proposals'[req.proposal] EXCEPT !.status = "CANCELLED"])
  BY Zenon DEF Reads, Writes

LEMMA RegisterSets ==
  ASSUME NEW req, req.fn = "RegisterDID", NEW t
  PROVE  /\ Reads(req) = {didKey(req.did)}
         /\ Reads(req)' = {didKey(req.did)}
         /\ Writes(req, t) = OneKey(didKey(req.did), [controller |-> req.key])
         /\ Writes(req, t)' = OneKey(didKey(req.did), [controller |-> req.key])
  BY Zenon DEF Reads, Writes

LEMMA RequestFields ==
  ASSUME NEW req \in Request
  PROVE  \/ /\ req.fn = "ProposeAction"
            /\ req.org \in Org /\ req.proposal \in ProposalId /\ req.action \in Action
         \/ req.fn = "ApproveProposal" /\ req.org \in Org /\ req.proposal \in ProposalId
         \/ req.fn = "CancelProposal" /\ req.org \in Org /\ req.proposal \in ProposalId
         \/ req.fn = "ExecuteProposal" /\ req.proposal \in ProposalId
         \/ req.fn = "RegisterDID" /\ req.did \in Did /\ req.key \in Key
  BY DEF Request

\* A simulation that read nothing of what is written comes out as before.
LEMMA ReadsAll ==
  ASSUME TypeOK, NEW req \in Request, NEW t \in Time, NEW w, Applied(w),
         Simulates(req, t), Reads(req) \cap DOMAIN w = {},
         req.fn = "ProposeAction" => proposalKey(req.proposal) \notin DOMAIN w
  PROVE  /\ Simulates(req, t)'
         /\ Reads(req)' = Reads(req)
         /\ Writes(req, t)' = Writes(req, t)
<1> DEFINE p == req.proposal
<1>1. CASE req.fn = "ProposeAction" /\ p \in ProposalId
  <2>1. proposals'[p] = proposals[p]
    BY <1>1, Unwritten
  <2>2. Simulates(req, t)'
    BY <1>1, <2>1 DEF Simulates, Exists
  <2>3. QED
    BY <1>1, <2>2, ProposeSets
<1>2. CASE req.fn = "ApproveProposal" /\ p \in ProposalId
  <2>1. proposals'[p] = proposals[p]
    BY <1>2, Unwritten, ApproveSets
  <2>2. Simulates(req, t)'
    BY <1>2, <2>1 DEF Simulates, CanApprove, HasStatus, Exists
  <2>3. QED
    BY <1>2, <2>1, <2>2, ApproveSets
<1>3. CASE req.fn = "CancelProposal" /\ p \in ProposalId
  <2>1. proposals'[p] = proposals[p]
    BY <1>3, Unwritten, CancelSets
  <2>2. Simulates(req, t)'
    BY <1>3, <2>1 DEF Simulates, CanCancel, HasStatus, Exists
  <2>3. QED
    BY <1>3, <2>1, <2>2, CancelSets
<1>4. CASE req.fn = "ExecuteProposal" /\ p \in ProposalId
  <2> DEFINE a == proposals[p].action
  <2>1. proposals'[p] = proposals[p]
    BY <1>4, Unwritten, ExecuteSets
  <2>2. CanExecute(p, t) /\ CanDispatch(a, t)
    BY <1>4 DEF Simulates
  <2>3. a \in Action
    BY <1>4, <2>2 DEF CanExecute, HasStatus, Exists, TypeOK, Proposal
  <2>4. DispatchReads(a) \cap DOMAIN w = {}
    BY <1>4, ExecuteSets
  <2>5. /\ \A b : b = a => CanDispatch(b, t)'
        /\ \A b : b = a => DispatchWrites(b)' = DispatchWrites(b)
    BY <2>2, <2>3, <2>4, DispatchReadsAll
  <2>6. Simulates(req, t)'
    BY <1>4, <2>1, <2>2, <2>5 DEF Simulates, CanExecute, HasStatus, Exists
  <2>7. AsExecuted(proposals[p], t)' = AsExecuted(proposals[p], t)
    <3>1. a.type = "MINT_ASSET" => assetCounter' = assetCounter
      BY <2>4, MintSets, Unwritten
    <3>2. QED
      BY <2>1, <3>1 DEF AsExecuted
  <2>8. DispatchWrites(a)' = DispatchWrites(a)
    BY <2>1, <2>5
  <2>9. QED
    BY <1>4, <2>1, <2>6, <2>7, <2>8, ExecuteSets
<1>5. CASE req.fn = "RegisterDID" /\ req.did \in Did
  <2>1. dids'[req.did] = dids[req.did]
    BY <1>5, Unwritten, RegisterSets
  <2>2. Simulates(req, t)'
    BY <1>5, <2>1 DEF Simulates
  <2>3. QED
    BY <1>5, <2>2, RegisterSets
<1>6. QED
  BY <1>1, <1>2, <1>3, <1>4, <1>5, RequestFields

-----------------------------------------------------------------------------
\* Applying the write set of a simulation is a step of the serial ledger.

\* What applying a write set of one kind of key changes.
LEMMA AppliedRest ==
  ASSUME TypeOK, NEW w, Applied(w)
  PROVE  /\ (\A p \in ProposalId : proposalKey(p) \notin DOMAIN w) => proposals' = proposals
         /\ (\A d \in Did : didKey(d) \notin DOMAIN w) => dids' = dids
         /\ (\A r \in RoleId, d \in Did : roleKey(r, d) \notin DOMAIN w) => roles' = roles
         /\ (\A i \in StatusId : statusKey(i) \notin DOMAIN w) => statuses' = statuses
         /\ (\A i \in AssetId : assetKey(i) \notin DOMAIN w) => assets' = assets
         /\ ASSET_COUNTER_KEY \notin DOMAIN w => assetCounter' = assetCounter
<1>1. ASSUME \A p \in ProposalId : proposalKey(p) \notin DOMAIN w
      PROVE  proposals' = proposals
  BY <1>1 DEF Applied, After, TypeOK
<1>2. ASSUME \A d \in Did : didKey(d) \notin DOMAIN w
      PROVE  dids' = dids
  BY <1>2 DEF Applied, After, TypeOK
<1>3. ASSUME \A r \in RoleId, d \in Did : roleKey(r, d) \notin DOMAIN w
      PROVE  roles' = roles
  <2>1. \A k \in RoleKey : k[1] \in RoleId /\ k[2] \in Did
    BY DEF RoleKey
  <2>2. \A k \in RoleKey : roleKey(k[1], k[2]) \notin DOMAIN w
    BY <1>3, <2>1
  <2>3. QED
    BY <2>2 DEF Applied, After, TypeOK
<1>4. ASSUME \A i \in StatusId : statusKey(i) \notin DOMAIN w
      PROVE  statuses' = statuses
  BY <1>4 DEF Applied, After, TypeOK
<1>5. ASSUME \A i \in AssetId : assetKey(i) \notin DOMAIN w
      PROVE  assets' = assets
  BY <1>5 DEF Applied, After, TypeOK
<1>6. ASSET_COUNTER_KEY \notin DOMAIN w => assetCounter' = assetCounter
  BY DEF Applied, After
<1>7. QED
  BY <1>1, <1>2, <1>3, <1>4, <1>5, <1>6

\* A write set that holds a proposal's record and nothing else of proposals.
LEMMA AppliedProposal ==
  ASSUME TypeOK, NEW p \in ProposalId, NEW pr, NEW w, Applied(w),
         proposalKey(p) \in DOMAIN w, w[proposalKey(p)] = pr,
         \A q \in ProposalId : q # p => proposalKey(q) \notin DOMAIN w
  PROVE  proposals' = [proposals EXCEPT ![p] = pr]
  BY DEF Applied, After, TypeOK

LEMMA AppliedOneProposal ==
  ASSUME TypeOK, NEW p \in ProposalId, NEW pr, Applied(OneKey(proposalKey(p), pr))
  PROVE  /\ proposals' = [proposals EXCEPT ![p] = pr]
         /\ UNCHANGED registries
<1> DEFINE w == OneKey(proposalKey(p), pr)
<1>1. DOMAIN w = {proposalKey(p)} /\ w[proposalKey(p)] = pr
  BY DEF OneKey
<1>2. \A q \in ProposalId : q # p => proposalKey(q) \notin DOMAIN w
  BY <1>1, KeysDiffer
<1> HIDE DEF w
<1>3. proposals' = [proposals EXCEPT ![p] = pr]
  BY <1>1, <1>2, AppliedProposal DEF w
<1>4. /\ \A d \in Did : didKey(d) \notin DOMAIN w
      /\ \A r \in RoleId, d \in Did : roleKey(r, d) \notin DOMAIN w
      /\ \A i \in StatusId : statusKey(i) \notin DOMAIN w
      /\ \A i \in AssetId : assetKey(i) \notin DOMAIN w
      /\ ASSET_COUNTER_KEY \notin DOMAIN w
  BY <1>1, RegistriesDiffer
<1>5. QED
  BY <1>3, <1>4, AppliedRest DEF registries, w

LEMMA AppliedDid ==
  ASSUME TypeOK, NEW d \in Did, NEW value, NEW w, Applied(w),
         didKey(d) \in DOMAIN w, w[didKey(d)] = value,
         \A e \in Did : e # d => didKey(e) \notin DOMAIN w
  PROVE  dids' = [dids EXCEPT ![d] = value]
  BY DEF Applied, After, TypeOK

LEMMA AppliedStatus ==
  ASSUME TypeOK, NEW i \in StatusId, NEW value, NEW w, Applied(w),
         statusKey(i) \in DOMAIN w, w[statusKey(i)] = value,
         \A j \in StatusId : j # i => statusKey(j) \notin DOMAIN w
  PROVE  statuses' = [statuses EXCEPT ![i] = value]
  BY DEF Applied, After, TypeOK

LEMMA AppliedAsset ==
  ASSUME TypeOK, NEW i \in AssetId, NEW value, NEW w, Applied(w),
         assetKey(i) \in DOMAIN w, w[assetKey(i)] = value,
         \A j \in AssetId : j # i => assetKey(j) \notin DOMAIN w
  PROVE  assets' = [assets EXCEPT ![i] = value]
  BY DEF Applied, After, TypeOK

LEMMA AppliedRole ==
  ASSUME TypeOK, NEW r \in RoleId, NEW d \in Did, NEW value, NEW w, Applied(w),
         roleKey(r, d) \in DOMAIN w, w[roleKey(r, d)] = value,
         \A q \in RoleId, e \in Did :
           <<q, e>> # <<r, d>> => roleKey(q, e) \notin DOMAIN w
  PROVE  roles' = [roles EXCEPT ![<<r, d>>] = value]
<1>1. \A k \in RoleKey : k[1] \in RoleId /\ k[2] \in Did /\ k = <<k[1], k[2]>>
  BY DEF RoleKey
<1>2. \A k \in RoleKey :
        After(w, roleKey(k[1], k[2]), roles[k]) = IF k = <<r, d>> THEN value ELSE roles[k]
  <2> TAKE k \in RoleKey
  <2>1. CASE k = <<r, d>>
    BY <2>1 DEF After
  <2>2. CASE k # <<r, d>>
    <3>1. roleKey(k[1], k[2]) \notin DOMAIN w
      BY <1>1, <2>2
    <3>2. QED
      BY <2>2, <3>1 DEF After
  <2>3. QED
    BY <2>1, <2>2
<1>3. roles' = [k \in RoleKey |-> IF k = <<r, d>> THEN value ELSE roles[k]]
  BY <1>2 DEF Applied
<1>4. QED
  BY <1>3 DEF TypeOK

LEMMA FirstKey ==
  ASSUME NEW k, NEW v, NEW l, NEW u
  PROVE  And(OneKey(k, v), OneKey(l, u))[k] = v
  BY DEF And, OneKey

LEMMA SecondKey ==
  ASSUME NEW k, NEW v, NEW l, NEW u, k # l
  PROVE  And(OneKey(k, v), OneKey(l, u))[l] = u
  BY DEF And, OneKey

LEMMA AppliedExecution ==
  ASSUME TypeOK, NEW p \in ProposalId, NEW pr, NEW a \in Action, NEW t \in Time,
         CanDispatch(a, t),
         Applied(And(OneKey(proposalKey(p), pr), DispatchWrites(a)))
  PROVE  /\ proposals' = [proposals EXCEPT ![p] = pr]
         /\ Dispatch(a, t)
<1> DEFINE dw == DispatchWrites(a)
<1> HIDE DEF dw
<1> DEFINE w == And(OneKey(proposalKey(p), pr), dw)
<1>1. /\ DOMAIN w = {proposalKey(p)} \cup DOMAIN dw
      /\ w[proposalKey(p)] = pr
      /\ \A key : key # proposalKey(p) /\ key \in DOMAIN dw => w[key] = dw[key]
  BY DEF And, OneKey
<1>2. Applied(w)
  BY DEF dw
<1> HIDE DEF w
<1>3. ASSUME \A q \in ProposalId : proposalKey(q) \notin DOMAIN dw
      PROVE  proposals' = [proposals EXCEPT ![p] = pr]
  <2>1. proposalKey(p) \in DOMAIN w
    BY <1>1
  <2>2. \A q \in ProposalId : q # p => proposalKey(q) \notin DOMAIN w
    BY <1>1, <1>3, KeysDiffer
  <2>3. QED
    BY <1>1, <1>2, <2>1, <2>2, AppliedProposal
<1>4. CASE a.type = "GRANT_ROLE" /\ a.role \in RoleId /\ a.subject \in Did /\ a.expiry \in Nat
  <2> DEFINE id == StatusIdFor(a.role, a.subject)
             rk == roleKey(a.role, a.subject)
             st == StatusWrite(id, FALSE, a.expiry)
  <2>1. id \in StatusId
    BY <1>4 DEF StatusId
  <2>2. rk # statusKey(id)
    BY RegistriesDiffer
  <2>3. dw = And(OneKey(rk, RoleGrant(a.expiry)), OneKey(statusKey(id), st))
    BY <1>4, GrantSets DEF dw
  <2> HIDE DEF rk, st, id
  <2>4. DOMAIN dw = {rk, statusKey(id)} /\ dw[rk] = RoleGrant(a.expiry) /\ dw[statusKey(id)] = st
    <3>1. DOMAIN dw = {rk, statusKey(id)}
      BY <2>3 DEF And, OneKey
    <3>2. dw[rk] = RoleGrant(a.expiry)
      BY <2>3, FirstKey
    <3>3. dw[statusKey(id)] = st
      BY <2>2, <2>3, SecondKey
    <3>4. QED
      BY <3>1, <3>2, <3>3
  <2>5. DOMAIN w = {proposalKey(p), rk, statusKey(id)}
    BY <1>1, <2>4
  <2>6. w[rk] = RoleGrant(a.expiry) /\ w[statusKey(id)] = st
    BY <1>1, <2>4, RegistriesDiffer DEF rk
  <2>7. proposals' = [proposals EXCEPT ![p] = pr]
    BY <1>3, <2>4, RegistriesDiffer DEF rk
  <2>8. roles' = [roles EXCEPT ![<<a.role, a.subject>>] = RoleGrant(a.expiry)]
    <3>1. \A q \in RoleId, e \in Did :
            <<q, e>> # <<a.role, a.subject>> => roleKey(q, e) \notin DOMAIN w
      BY <2>5, KeysDiffer, RegistriesDiffer DEF rk
    <3>2. QED
      BY <1>2, <1>4, <2>5, <2>6, <3>1, AppliedRole DEF rk
  <2>9. statuses' = [statuses EXCEPT ![id] = st]
    <3>1. \A j \in StatusId : j # id => statusKey(j) \notin DOMAIN w
      BY <2>5, KeysDiffer, RegistriesDiffer DEF rk
    <3>2. QED
      BY <1>2, <2>1, <2>5, <2>6, <3>1, AppliedStatus
  <2>10. UNCHANGED <<dids, assets, assetCounter>>
    BY <1>2, <2>5, AppliedRest, RegistriesDiffer DEF rk
  <2>11. GrantRoleWithExpiry(a.role, a.subject, a.expiry, t)
    BY <1>4, <2>8, <2>9, <2>10 DEF GrantRoleWithExpiry, SetStatus, CanDispatch, id, st
  <2>12. QED
    BY <1>4, <2>7, <2>11 DEF Dispatch
<1>5. CASE a.type = "REVOKE_ROLE" /\ a.role \in RoleId /\ a.subject \in Did
  <2> DEFINE id == StatusIdFor(a.role, a.subject)
             rk == roleKey(a.role, a.subject)
             role == [roles[<<a.role, a.subject>>] EXCEPT !.granted = FALSE]
             st == StatusWrite(id, TRUE, Absent)
  <2>1. id \in StatusId
    BY <1>5 DEF StatusId
  <2>2. rk # statusKey(id)
    BY RegistriesDiffer
  <2>3. dw = And(OneKey(rk, role), OneKey(statusKey(id), st))
    BY <1>5, RevokeSets DEF dw
  <2> HIDE DEF rk, role, st, id
  <2>4. DOMAIN dw = {rk, statusKey(id)} /\ dw[rk] = role /\ dw[statusKey(id)] = st
    <3>1. DOMAIN dw = {rk, statusKey(id)}
      BY <2>3 DEF And, OneKey
    <3>2. dw[rk] = role
      BY <2>3, FirstKey
    <3>3. dw[statusKey(id)] = st
      BY <2>2, <2>3, SecondKey
    <3>4. QED
      BY <3>1, <3>2, <3>3
  <2>5. DOMAIN w = {proposalKey(p), rk, statusKey(id)}
    BY <1>1, <2>4
  <2>6. w[rk] = role /\ w[statusKey(id)] = st
    BY <1>1, <2>4, RegistriesDiffer DEF rk
  <2>7. proposals' = [proposals EXCEPT ![p] = pr]
    BY <1>3, <2>4, RegistriesDiffer DEF rk
  <2>8. roles' = [roles EXCEPT ![<<a.role, a.subject>>] = role]
    <3>1. \A q \in RoleId, e \in Did :
            <<q, e>> # <<a.role, a.subject>> => roleKey(q, e) \notin DOMAIN w
      BY <2>5, KeysDiffer, RegistriesDiffer DEF rk
    <3>2. QED
      BY <1>2, <1>5, <2>5, <2>6, <3>1, AppliedRole DEF rk
  <2>9. statuses' = [statuses EXCEPT ![id] = st]
    <3>1. \A j \in StatusId : j # id => statusKey(j) \notin DOMAIN w
      BY <2>5, KeysDiffer, RegistriesDiffer DEF rk
    <3>2. QED
      BY <1>2, <2>1, <2>5, <2>6, <3>1, AppliedStatus
  <2>10. UNCHANGED <<dids, assets, assetCounter>>
    BY <1>2, <2>5, AppliedRest, RegistriesDiffer DEF rk
  <2>11. IsGranted(a.role, a.subject)
    BY <1>5 DEF CanDispatch
  <2>12. RevokeRoleEarly(a.role, a.subject)
    BY <2>8, <2>9, <2>10, <2>11 DEF RevokeRoleEarly, SetStatus, id, st, role
  <2>13. QED
    BY <1>5, <2>7, <2>12 DEF Dispatch
<1>6. CASE a.type = "MINT_ASSET" /\ a.owner \in Did
  <2> DEFINE ak == assetKey(assetCounter)
             n == assetCounter + 1
             asset == [owner |-> a.owner]
  <2>1. assetCounter \in AssetId /\ assetCounter < MaxAssets
    BY <1>6, ParametersAssumption DEF CanDispatch, TypeOK, AssetId
  <2>2. ASSET_COUNTER_KEY # ak
    BY RegistriesDiffer
  <2>3. dw = And(OneKey(ASSET_COUNTER_KEY, n), OneKey(ak, asset))
    BY <1>6, MintSets DEF dw
  <2> HIDE DEF ak, n, asset
  <2>4. DOMAIN dw = {ASSET_COUNTER_KEY, ak} /\ dw[ASSET_COUNTER_KEY] = n /\ dw[ak] = asset
    <3>1. DOMAIN dw = {ASSET_COUNTER_KEY, ak}
      BY <2>3 DEF And, OneKey
    <3>2. dw[ASSET_COUNTER_KEY] = n
      BY <2>3, FirstKey
    <3>3. dw[ak] = asset
      BY <2>2, <2>3, SecondKey
    <3>4. QED
      BY <3>1, <3>2, <3>3
  <2>5. DOMAIN w = {proposalKey(p), ASSET_COUNTER_KEY, ak}
    BY <1>1, <2>4
  <2>6. w[ASSET_COUNTER_KEY] = n /\ w[ak] = asset
    BY <1>1, <2>4, RegistriesDiffer DEF ak
  <2>7. proposals' = [proposals EXCEPT ![p] = pr]
    BY <1>3, <2>4, RegistriesDiffer DEF ak
  <2>8. assets' = [assets EXCEPT ![assetCounter] = asset]
    <3>1. \A j \in AssetId : j # assetCounter => assetKey(j) \notin DOMAIN w
      BY <2>5, KeysDiffer, RegistriesDiffer DEF ak
    <3>2. QED
      BY <1>2, <2>1, <2>5, <2>6, <3>1, AppliedAsset DEF ak
  <2>9. assetCounter' = n
    BY <1>2, <2>5, <2>6 DEF Applied, After
  <2>10. UNCHANGED <<dids, roles, statuses>>
    BY <1>2, <2>5, AppliedRest, RegistriesDiffer DEF ak
  <2>11. Mint(a.owner)
    BY <2>1, <2>8, <2>9, <2>10 DEF Mint, n, asset
  <2>12. QED
    BY <1>6, <2>7, <2>11 DEF Dispatch
<1>7. CASE a.type = "TRANSFER_ASSET" /\ a.asset \in AssetId /\ a.from \in Did /\ a.to \in Did
  <2> DEFINE ak == assetKey(a.asset)
             asset == [assets[a.asset] EXCEPT !.owner = a.to]
  <2>1. dw = OneKey(ak, asset)
    BY <1>7, TransferSets DEF dw
  <2> HIDE DEF ak, asset
  <2>2. DOMAIN dw = {ak} /\ dw[ak] = asset
    BY <2>1 DEF OneKey
  <2>3. DOMAIN w = {proposalKey(p), ak} /\ w[ak] = asset
    BY <1>1, <2>2, RegistriesDiffer DEF ak
  <2>4. proposals' = [proposals EXCEPT ![p] = pr]
    BY <1>3, <2>2, RegistriesDiffer DEF ak
  <2>5. assets' = [assets EXCEPT ![a.asset] = asset]
    <3>1. \A j \in AssetId : j # a.asset => assetKey(j) \notin DOMAIN w
      BY <2>3, KeysDiffer, RegistriesDiffer DEF ak
    <3>2. QED
      BY <1>2, <1>7, <2>3, <3>1, AppliedAsset DEF ak
  <2>6. UNCHANGED <<dids, roles, statuses, assetCounter>>
    BY <1>2, <2>3, AppliedRest, RegistriesDiffer DEF ak
  <2>7. Transfer(a.asset, a.from, a.to)
    BY <1>7, <2>5, <2>6 DEF Transfer, CanDispatch, asset
  <2>8. QED
    BY <1>7, <2>4, <2>7 DEF Dispatch
<1>8. CASE a.type = "UPDATE_CONTROLLER" /\ a.did \in Did /\ a.key \in Key
  <2> DEFINE dk == didKey(a.did)
             did == [dids[a.did] EXCEPT !.controller = a.key]
  <2>1. dw = OneKey(dk, did)
    BY <1>8, ControllerSets DEF dw
  <2> HIDE DEF dk, did
  <2>2. DOMAIN dw = {dk} /\ dw[dk] = did
    BY <2>1 DEF OneKey
  <2>3. DOMAIN w = {proposalKey(p), dk} /\ w[dk] = did
    BY <1>1, <2>2, RegistriesDiffer DEF dk
  <2>4. proposals' = [proposals EXCEPT ![p] = pr]
    BY <1>3, <2>2, RegistriesDiffer DEF dk
  <2>5. dids' = [dids EXCEPT ![a.did] = did]
    <3>1. \A e \in Did : e # a.did => didKey(e) \notin DOMAIN w
      BY <2>3, KeysDiffer, RegistriesDiffer DEF dk
    <3>2. QED
      BY <1>2, <1>8, <2>3, <3>1, AppliedDid DEF dk
  <2>6. UNCHANGED <<roles, statuses, assets, assetCounter>>
    BY <1>2, <2>3, AppliedRest, RegistriesDiffer DEF dk
  <2>7. UpdateDidController(a.did, a.key)
    BY <1>8, <2>5, <2>6 DEF UpdateDidController, CanDispatch, did
  <2>8. QED
    BY <1>8, <2>4, <2>7 DEF Dispatch
<1>9. CASE /\ a.type = "SET_CREDENTIAL_STATUS"
           /\ a.status \in StatusId
           /\ a.revoked \in BOOLEAN
           /\ a.expiry \in Nat \cup {Absent}
  <2> DEFINE sk == statusKey(a.status)
             st == StatusWrite(a.status, a.revoked, a.expiry)
  <2>1. dw = OneKey(sk, st)
    BY <1>9, StatusSets DEF dw
  <2> HIDE DEF sk, st
  <2>2. DOMAIN dw = {sk} /\ dw[sk] = st
    BY <2>1 DEF OneKey
  <2>3. DOMAIN w = {proposalKey(p), sk} /\ w[sk] = st
    BY <1>1, <2>2, RegistriesDiffer DEF sk
  <2>4. proposals' = [proposals EXCEPT ![p] = pr]
    BY <1>3, <2>2, RegistriesDiffer DEF sk
  <2>5. statuses' = [statuses EXCEPT ![a.status] = st]
    <3>1. \A j \in StatusId : j # a.status => statusKey(j) \notin DOMAIN w
      BY <2>3, KeysDiffer, RegistriesDiffer DEF sk
    <3>2. QED
      BY <1>2, <1>9, <2>3, <3>1, AppliedStatus DEF sk
  <2>6. UNCHANGED <<dids, roles, assets, assetCounter>>
    BY <1>2, <2>3, AppliedRest, RegistriesDiffer DEF sk
  <2>7. SetStatus(a.status, a.revoked, a.expiry)
    BY <2>5 DEF SetStatus, st
  <2>8. QED
    BY <1>9, <2>4, <2>6, <2>7 DEF Dispatch
<1>10. QED
  BY <1>4, <1>5, <1>6, <1>7, <1>8, <1>9, ActionFields


LEMMA CommitIsStep ==
  ASSUME TypeOK, NEW req \in Request, NEW t \in TxTime, Simulates(req, t),
         Applied(Writes(req, t)), clock' = clock
  PROVE  Next
<1> DEFINE p == req.proposal
<1>0. t \in Time
  BY DEF TxTime
<1>1. CASE /\ req.fn = "ProposeAction"
           /\ req.org \in Org /\ p \in ProposalId /\ req.action \in Action
  <2>1. ~Exists(p)
    BY <1>1 DEF Simulates
  <2>2. Applied(OneKey(proposalKey(p), NewProposal(req.org, req.action, t)))
    BY <1>1, ProposeSets
  <2>3. ProposeAction(req.org, p, req.action, t)
    BY <1>1, <2>1, <2>2, AppliedOneProposal DEF ProposeAction
  <2>4. QED
    BY <1>1, <2>3 DEF Next
<1>2. CASE req.fn = "ApproveProposal" /\ req.org \in Org /\ p \in ProposalId
  <2>1. CanApprove(req.org, p, t)
    BY <1>2 DEF Simulates
  <2>2. Applied(OneKey(proposalKey(p), WithApproval(proposals[p], req.org, t)))
    BY <1>2, ApproveSets
  <2>3. ApproveProposal(req.org, p, t)
    BY <1>2, <2>1, <2>2, AppliedOneProposal DEF ApproveProposal
  <2>4. QED
    BY <1>2, <2>3 DEF Next
<1>3. CASE req.fn = "CancelProposal" /\ req.org \in Org /\ p \in ProposalId
  <2>1. CanCancel(req.org, p)
    BY <1>3 DEF Simulates
  <2>2. Applied(OneKey(proposalKey(p), [proposals[p] EXCEPT !.status = "CANCELLED"]))
    BY <1>3, CancelSets
  <2>3. CancelProposal(req.org, p)
    BY <1>3, <2>1, <2>2, AppliedOneProposal DEF CancelProposal
  <2>4. QED
    BY <1>3, <2>3 DEF Next
<1>4. CASE req.fn = "ExecuteProposal" /\ p \in ProposalId
  <2> DEFINE a == proposals[p].action
             pr == AsExecuted(proposals[p], t)
  <2>1. CanExecute(p, t) /\ CanDispatch(a, t)
    BY <1>4 DEF Simulates
  <2>2. a \in Action
    BY <1>4, <2>1 DEF CanExecute, HasStatus, Exists, TypeOK, Proposal
  <2>3. Applied(And(OneKey(proposalKey(p), pr), DispatchWrites(a)))
    BY <1>4, ExecuteSets
  <2>4. \A x, y : x = a /\ y = pr =>
          proposals' = [proposals EXCEPT ![p] = y] /\ Dispatch(x, t)
    BY <1>0, <1>4, <2>1, <2>2, <2>3, AppliedExecution
  <2>5. ExecuteProposal(p, t)
    BY <2>1, <2>4 DEF ExecuteProposal
  <2>6. QED
    BY <1>4, <2>5 DEF Next
<1>5. CASE req.fn = "RegisterDID" /\ req.did \in Did /\ req.key \in Key
  <2> DEFINE value == [controller |-> req.key]
             w == OneKey(didKey(req.did), value)
  <2>1. dids[req.did] = Absent
    BY <1>5 DEF Simulates
  <2>2. Applied(w)
    BY <1>5, RegisterSets
  <2>3. DOMAIN w = {didKey(req.did)} /\ w[didKey(req.did)] = value
    BY DEF OneKey
  <2> HIDE DEF w
  <2>4. \A e \in Did : e # req.did => didKey(e) \notin DOMAIN w
    BY <2>3, KeysDiffer
  <2>5. dids' = [dids EXCEPT ![req.did] = value]
    BY <1>5, <2>2, <2>3, <2>4, AppliedDid
  <2>6. UNCHANGED <<proposals, roles, statuses, assets, assetCounter>>
    BY <2>2, <2>3, AppliedRest, RegistriesDiffer
  <2>7. RegisterDID(req.did, req.key)
    BY <2>1, <2>5, <2>6 DEF RegisterDID, RegisterDid
  <2>8. QED
    BY <1>5, <2>7 DEF Next
<1>6. QED
  BY <1>1, <1>2, <1>3, <1>4, <1>5, RequestFields


-----------------------------------------------------------------------------
\* The invariant: the submissions that would pass validation can be repeated.

Submission(x) ==
  /\ x = [request |-> x.request, at |-> x.at, reads |-> x.reads,
          writes |-> x.writes, stale |-> x.stale]
  /\ x.request \in Request
  /\ x.at \in Time
  /\ x.at <= clock

Repeats(x) ==
  /\ Simulates(x.request, x.at)
  /\ x.reads = Reads(x.request)
  /\ x.writes = Writes(x.request, x.at)

InflightOK ==
  /\ inflight = [s \in Slot |-> inflight[s]]
  /\ \A s \in Slot : Busy(s) => Submission(inflight[s])

FreshRepeats == \A s \in Slot : Busy(s) /\ ~inflight[s].stale => Repeats(inflight[s])

Creates(x, p) == x.request.fn = "ProposeAction" /\ x.request.proposal = p

\* No two submissions create the same proposal.
IdsAreUnique ==
  \A s, u \in Slot, p \in ProposalId :
    /\ Busy(s) /\ Creates(inflight[s], p)
    /\ Busy(u) /\ Creates(inflight[u], p)
    => s = u

FabricInv == TypeOK /\ InflightOK /\ FreshRepeats /\ IdsAreUnique

\* A step that leaves the world state alone leaves every simulation as it was.
LEMMA StillRepeats ==
  ASSUME TypeOK, UNCHANGED <<proposals, registries>>,
         NEW req \in Request, NEW t \in Time, Simulates(req, t)
  PROVE  /\ Simulates(req, t)'
         /\ Reads(req)' = Reads(req)
         /\ Writes(req, t)' = Writes(req, t)
<1> DEFINE w == [k \in {} |-> k]
<1>1. DOMAIN w = {}
  OBVIOUS
<1> HIDE DEF w
<1>2. Applied(w)
  BY <1>1 DEF Applied, After, TypeOK, registries
<1>3. QED
  BY <1>1, <1>2, ReadsAll

LEMMA NoProposalDispatched ==
  ASSUME NEW a \in Action, NEW q
  PROVE  proposalKey(q) \notin DOMAIN DispatchWrites(a)
<1> DEFINE dw == DispatchWrites(a)
           pk == proposalKey(q)
<1>1. CASE a.type = "GRANT_ROLE"
  <2> DEFINE one == OneKey(roleKey(a.role, a.subject), RoleGrant(a.expiry))
             id == StatusIdFor(a.role, a.subject)
             two == OneKey(statusKey(id), StatusWrite(id, FALSE, a.expiry))
  <2>1. dw = And(one, two)
    BY <1>1, GrantSets
  <2>2. DOMAIN one = {roleKey(a.role, a.subject)} /\ DOMAIN two = {statusKey(id)}
    BY DEF OneKey
  <2> HIDE DEF dw, one, two, id
  <2>3. DOMAIN dw = {roleKey(a.role, a.subject), statusKey(id)}
    BY <2>1, <2>2 DEF And
  <2>4. QED
    BY <2>3, RegistriesDiffer DEF dw
<1>2. CASE a.type = "REVOKE_ROLE"
  <2>1. DOMAIN dw = {roleKey(a.role, a.subject), statusKey(StatusIdFor(a.role, a.subject))}
    BY <1>2, RevokeSets DEF And, OneKey
  <2>2. QED
    BY <2>1, RegistriesDiffer
<1>3. CASE a.type = "MINT_ASSET"
  <2> DEFINE one == OneKey(ASSET_COUNTER_KEY, assetCounter + 1)
             two == OneKey(assetKey(assetCounter), [owner |-> a.owner])
  <2>1. dw = And(one, two)
    BY <1>3, MintSets
  <2>2. DOMAIN one = {ASSET_COUNTER_KEY} /\ DOMAIN two = {assetKey(assetCounter)}
    BY DEF OneKey
  <2> HIDE DEF dw, one, two
  <2>3. DOMAIN dw = {ASSET_COUNTER_KEY, assetKey(assetCounter)}
    BY <2>1, <2>2 DEF And
  <2>4. QED
    BY <2>3, RegistriesDiffer DEF dw
<1>4. CASE a.type = "TRANSFER_ASSET"
  <2>1. DOMAIN dw = {assetKey(a.asset)}
    BY <1>4, TransferSets DEF OneKey
  <2>2. QED
    BY <2>1, RegistriesDiffer
<1>5. CASE a.type = "UPDATE_CONTROLLER"
  <2>1. DOMAIN dw = {didKey(a.did)}
    BY <1>5, ControllerSets DEF OneKey
  <2>2. QED
    BY <2>1, RegistriesDiffer
<1>6. CASE a.type = "SET_CREDENTIAL_STATUS"
  <2>1. DOMAIN dw = {statusKey(a.status)}
    BY <1>6, StatusSets DEF OneKey
  <2>2. QED
    BY <2>1, RegistriesDiffer
<1>7. QED
  BY <1>1, <1>2, <1>3, <1>4, <1>5, <1>6, ActionFields

\* A transaction writes a proposal that exists, or the one it creates.
LEMMA ProposalWritten ==
  ASSUME TypeOK, NEW req \in Request, NEW t \in Time, Simulates(req, t),
         NEW q \in ProposalId, proposalKey(q) \in DOMAIN Writes(req, t)
  PROVE  \/ Exists(q)
         \/ req.fn = "ProposeAction" /\ req.proposal = q
<1>1. CASE req.fn = "ProposeAction"
  <2>1. DOMAIN Writes(req, t) = {proposalKey(req.proposal)}
    BY <1>1, ProposeSets DEF OneKey
  <2>2. QED
    BY <1>1, <2>1, KeysDiffer
<1>2. CASE req.fn = "ApproveProposal"
  <2>1. DOMAIN Writes(req, t) = {proposalKey(req.proposal)}
    BY <1>2, ApproveSets DEF OneKey
  <2>2. Exists(req.proposal)
    BY <1>2 DEF Simulates, CanApprove, HasStatus
  <2>3. QED
    BY <2>1, <2>2, KeysDiffer
<1>3. CASE req.fn = "CancelProposal"
  <2>1. DOMAIN Writes(req, t) = {proposalKey(req.proposal)}
    BY <1>3, CancelSets DEF OneKey
  <2>2. Exists(req.proposal)
    BY <1>3 DEF Simulates, CanCancel, HasStatus
  <2>3. QED
    BY <2>1, <2>2, KeysDiffer
<1>4. CASE req.fn = "ExecuteProposal" /\ req.proposal \in ProposalId
  <2> DEFINE a == proposals[req.proposal].action
             pr == AsExecuted(proposals[req.proposal], t)
  <2>1. Exists(req.proposal)
    BY <1>4 DEF Simulates, CanExecute, HasStatus
  <2>2. a \in Action
    BY <1>4, <2>1 DEF Exists, TypeOK, Proposal
  <2>3. proposalKey(q) \notin DOMAIN DispatchWrites(a)
    <3>1. \A x : x = a => proposalKey(q) \notin DOMAIN DispatchWrites(x)
      BY <2>2, NoProposalDispatched
    <3>2. QED
      BY <3>1
  <2>4. DOMAIN Writes(req, t) = {proposalKey(req.proposal)} \cup DOMAIN DispatchWrites(a)
    <3> DEFINE one == OneKey(proposalKey(req.proposal), pr)
               dw == DispatchWrites(a)
    <3>1. Writes(req, t) = And(one, dw)
      BY <1>4, ExecuteSets
    <3>2. DOMAIN one = {proposalKey(req.proposal)}
      BY DEF OneKey
    <3> HIDE DEF one, dw
    <3>3. DOMAIN Writes(req, t) = {proposalKey(req.proposal)} \cup DOMAIN dw
      BY <3>1, <3>2 DEF And
    <3>4. QED
      BY <3>3 DEF dw
  <2>5. QED
    BY <2>1, <2>3, <2>4, KeysDiffer
<1>5. CASE req.fn = "RegisterDID"
  <2>1. DOMAIN Writes(req, t) = {didKey(req.did)}
    BY <1>5, RegisterSets DEF OneKey
  <2>2. QED
    BY <2>1, RegistriesDiffer
<1>6. QED
  BY <1>1, <1>2, <1>3, <1>4, <1>5, RequestFields


LEMMA FabricInitInv == FabricInit => FabricInv
  BY InitType DEF FabricInit, FabricInv, InflightOK, FreshRepeats, IdsAreUnique, Busy

LEMMA EndorseInv ==
  ASSUME FabricInv, NEW s \in Slot, NEW req \in Request, Endorse(s, req)
  PROVE  FabricInv'
<1> DEFINE x == [request |-> req, at |-> clock, reads |-> Reads(req),
                 writes |-> Writes(req, clock), stale |-> FALSE]
<1> USE DEF FabricInv
<1>1. inflight' = [inflight EXCEPT ![s] = x] /\ UNCHANGED <<proposals, registries, clock>>
  BY DEF Endorse, vars
<1>2. clock \in Time
  BY DEF TypeOK
<1>3. TypeOK'
  BY <1>1 DEF TypeOK, registries
<1>4. inflight'[s] = x /\ \A u \in Slot : u # s => inflight'[u] = inflight[u]
  BY <1>1 DEF InflightOK
<1>5. InflightOK'
  <2>1. Submission(inflight[s])'
    <3>1. /\ x.request = req /\ x.at = clock /\ x.stale = FALSE
          /\ x.reads = Reads(req) /\ x.writes = Writes(req, clock)
      OBVIOUS
    <3>2. inflight'[s] = [request |-> x.request, at |-> x.at, reads |-> x.reads,
                          writes |-> x.writes, stale |-> x.stale]
      BY <1>4
    <3> HIDE DEF x
    <3>3. x.at \in Time /\ x.at <= clock'
      BY <1>1, <1>2, <3>1 DEF Time
    <3>4. QED
      BY <1>4, <3>1, <3>2, <3>3 DEF Submission
  <2>2. inflight' = [u \in Slot |-> inflight'[u]]
    BY <1>1 DEF InflightOK
  <2>3. ASSUME NEW u \in Slot, u # s, Busy(u)'
        PROVE  Submission(inflight[u])'
    BY <1>1, <1>4, <2>3 DEF InflightOK, Busy, Submission
  <2>4. QED
    BY <1>4, <2>1, <2>2, <2>3 DEF InflightOK
<1>6. FreshRepeats'
  <2>1. ASSUME NEW r \in Request, NEW t \in Time, Simulates(r, t)
        PROVE  Simulates(r, t)' /\ Reads(r)' = Reads(r) /\ Writes(r, t)' = Writes(r, t)
    BY <1>1, <2>1, StillRepeats
  <2>2. Simulates(req, clock)
    BY DEF Endorse
  <2>3. Repeats(inflight[s])'
    BY <1>1, <1>2, <1>4, <2>1, <2>2 DEF Repeats
  <2>4. ASSUME NEW u \in Slot, u # s, Busy(u)', ~inflight'[u].stale
        PROVE  Repeats(inflight[u])'
    <3>1. Busy(u) /\ ~inflight[u].stale
      BY <1>4, <2>4 DEF Busy
    <3>2. Submission(inflight[u]) /\ Repeats(inflight[u])
      BY <3>1 DEF InflightOK, FreshRepeats
    <3>3. QED
      BY <1>4, <2>1, <2>4, <3>2 DEF Repeats, Submission
  <2>5. QED
    BY <2>3, <2>4 DEF FreshRepeats
<1>7. IdsAreUnique'
  <2>1. ASSUME NEW u \in Slot, u # s, Busy(u), req.fn = "ProposeAction"
        PROVE  ~Creates(inflight[u], req.proposal)
    BY <2>1 DEF Endorse, FreshId, Creates
  <2>2. QED
    BY <1>4, <2>1 DEF IdsAreUnique, Busy, Creates
<1>8. QED
  BY <1>3, <1>5, <1>6, <1>7

LEMMA CommitInv ==
  ASSUME FabricInv, NEW s \in Slot, Commit(s)
  PROVE  Next /\ FabricInv'
<1> DEFINE x == inflight[s]
           w == x.writes
<1> USE DEF FabricInv
<1>1. Submission(x) /\ Repeats(x)
  BY DEF Commit, InflightOK, FreshRepeats
<1>2. Applied(w) /\ clock' = clock
  BY DEF Commit, Applied
<1>3. x.request \in Request /\ x.at \in Time /\ x.at \in TxTime
  BY <1>1, LatenessAssumption, ParametersAssumption DEF Submission, TxTime, Time, TypeOK
<1>4. Next
  <2>1. Applied(Writes(x.request, x.at)) /\ Simulates(x.request, x.at)
    BY <1>1, <1>2 DEF Repeats
  <2>2. QED
    BY <1>2, <1>3, <2>1, CommitIsStep
<1>5. TypeOK'
  BY <1>4, NextType
<1>6. ASSUME NEW u \in Slot, Busy(u)'
      PROVE  /\ u # s
             /\ Busy(u)
             /\ inflight'[u] = Marked(inflight[u], w)
  BY <1>6 DEF Commit, Busy, Marked
<1>7. InflightOK'
  <2>1. inflight' = [u \in Slot |-> inflight'[u]]
    BY DEF Commit
  <2>2. ASSUME NEW u \in Slot, Busy(u)'
        PROVE  Submission(inflight[u])'
    <3>1. Submission(inflight[u])
      BY <1>6, <2>2 DEF InflightOK
    <3>2. inflight'[u] = inflight[u] \/ inflight'[u] = [inflight[u] EXCEPT !.stale = TRUE]
      BY <1>6, <2>2 DEF Marked
    <3>3. QED
      BY <1>2, <3>1, <3>2 DEF Submission
  <2>3. QED
    BY <2>1, <2>2 DEF InflightOK
<1>8. FreshRepeats'
  <2>1. SUFFICES ASSUME NEW u \in Slot, Busy(u)', ~inflight'[u].stale
                 PROVE  Repeats(inflight[u])'
    BY DEF FreshRepeats
  <2> DEFINE y == inflight[u]
  <2>2. Submission(y) /\ Busy(u) /\ u # s
    BY <1>6, <2>1 DEF InflightOK
  <2>3. inflight'[u] = y /\ y.reads \cap DOMAIN w = {}
    <3>1. [y EXCEPT !.stale = TRUE].stale = TRUE
      BY <2>2 DEF Submission
    <3>2. QED
      BY <1>6, <2>1, <2>2, <3>1 DEF Marked, Busy
  <2>4. Repeats(y)
    BY <2>1, <2>2, <2>3 DEF FreshRepeats
  <2>5. y.request.fn = "ProposeAction" => proposalKey(y.request.proposal) \notin DOMAIN w
    <3>1. SUFFICES ASSUME y.request.fn = "ProposeAction",
                          proposalKey(y.request.proposal) \in DOMAIN w
                   PROVE  FALSE
      OBVIOUS
    <3> DEFINE q == y.request.proposal
    <3>2. q \in ProposalId /\ ~Exists(q)
      BY <2>2, <2>4, <3>1, RequestFields DEF Repeats, Simulates, Submission
    <3>3. Creates(x, q)
      <4>1. \A k : k = x.at => Simulates(x.request, k) /\ proposalKey(q) \in DOMAIN Writes(x.request, k)
        BY <1>1, <3>1 DEF Repeats
      <4>2. QED
        BY <1>3, <3>2, <4>1, ProposalWritten DEF Creates
    <3>4. QED
      BY <2>2, <3>1, <3>2, <3>3 DEF IdsAreUnique, Creates, Commit
  <2>6. ASSUME NEW r \in Request, NEW t \in Time, r = y.request, t = y.at
        PROVE  Simulates(r, t)' /\ Reads(r)' = Reads(r) /\ Writes(r, t)' = Writes(r, t)
    <3>1. Simulates(r, t) /\ Reads(r) \cap DOMAIN w = {}
      BY <2>3, <2>4, <2>6 DEF Repeats
    <3>2. r.fn = "ProposeAction" => proposalKey(r.proposal) \notin DOMAIN w
      BY <2>5, <2>6
    <3>3. QED
      BY <1>2, <3>1, <3>2, ReadsAll
  <2>7. QED
    BY <2>2, <2>3, <2>4, <2>6 DEF Repeats, Submission
<1>9. IdsAreUnique'
  <2>1. ASSUME NEW u \in Slot, NEW p \in ProposalId, Busy(u)', Creates(inflight'[u], p)
        PROVE  Busy(u) /\ Creates(inflight[u], p)
    <3>1. Submission(inflight[u]) /\ Busy(u)
      BY <1>6, <2>1 DEF InflightOK
    <3>2. inflight'[u] = inflight[u] \/ inflight'[u] = [inflight[u] EXCEPT !.stale = TRUE]
      BY <1>6, <2>1 DEF Marked
    <3>3. inflight'[u].request = inflight[u].request
      BY <3>1, <3>2 DEF Submission
    <3>4. QED
      BY <2>1, <3>1, <3>3 DEF Creates
  <2>2. ASSUME NEW u \in Slot, NEW v \in Slot, NEW p \in ProposalId,
               Busy(u)', Creates(inflight'[u], p), Busy(v)', Creates(inflight'[v], p)
        PROVE  u = v
    BY <2>1, <2>2 DEF IdsAreUnique
  <2>3. QED
    BY <2>2 DEF IdsAreUnique, Creates
<1>10. QED
  BY <1>4, <1>5, <1>7, <1>8, <1>9


\* Every other step leaves the world state alone and starts no submission.
LEMMA OtherInv ==
  ASSUME FabricInv, TypeOK', UNCHANGED <<proposals, registries>>, clock <= clock',
         inflight' = [s \in Slot |-> inflight'[s]],
         \A s \in Slot : inflight'[s] = inflight[s] \/ inflight'[s] = Idle
  PROVE  FabricInv'
<1> USE DEF FabricInv
<1>1. ASSUME NEW s \in Slot, Busy(s)'
      PROVE  Busy(s) /\ inflight'[s] = inflight[s]
  BY <1>1 DEF Busy
<1>2. InflightOK'
  BY <1>1 DEF InflightOK, Submission, Time, TypeOK
<1>3. FreshRepeats'
  <2>1. ASSUME NEW r \in Request, NEW t \in Time, Simulates(r, t)
        PROVE  Simulates(r, t)' /\ Reads(r)' = Reads(r) /\ Writes(r, t)' = Writes(r, t)
    BY <2>1, StillRepeats
  <2>2. ASSUME NEW s \in Slot, Busy(s)', ~inflight'[s].stale
        PROVE  Repeats(inflight[s])'
    <3>1. inflight'[s] = inflight[s] /\ Submission(inflight[s]) /\ Repeats(inflight[s])
      BY <1>1, <2>2 DEF InflightOK, FreshRepeats
    <3>2. QED
      BY <2>1, <3>1 DEF Repeats, Submission
  <2>3. QED
    BY <2>2 DEF FreshRepeats
<1>4. IdsAreUnique'
  BY <1>1 DEF IdsAreUnique, Creates
<1>5. QED
  BY <1>2, <1>3, <1>4

LEMMA FabricStep ==
  ASSUME FabricInv, [FabricNext]_fabricVars
  PROVE  FabricInv' /\ [Next]_vars
<1>1. ASSUME NEW s \in Slot, NEW req \in Request, Endorse(s, req)
      PROVE  FabricInv' /\ [Next]_vars
  BY <1>1, EndorseInv DEF Endorse
<1>2. ASSUME NEW s \in Slot, Commit(s)
      PROVE  FabricInv' /\ [Next]_vars
  BY <1>2, CommitInv
<1>3. ASSUME NEW s \in Slot, Discard(s)
      PROVE  FabricInv' /\ [Next]_vars
  <2>1. inflight' = [inflight EXCEPT ![s] = Idle] /\ UNCHANGED vars
    BY <1>3 DEF Discard
  <2>2. /\ inflight' = [u \in Slot |-> inflight'[u]]
        /\ \A u \in Slot : inflight'[u] = inflight[u] \/ inflight'[u] = Idle
    BY <2>1 DEF FabricInv, InflightOK
  <2>3. TypeOK' /\ clock <= clock'
    BY <2>1, NextType DEF FabricInv, TypeOK, Time, vars
  <2>4. QED
    BY <2>1, <2>2, <2>3, OtherInv DEF vars
<1>4. CASE Tick /\ UNCHANGED inflight
  <2>1. TypeOK' /\ clock <= clock' /\ UNCHANGED <<proposals, registries>> /\ [Next]_vars
    BY <1>4, NextType DEF Tick, Next, FabricInv, TypeOK, Time
  <2>2. inflight' = [u \in Slot |-> inflight'[u]]
    BY <1>4 DEF FabricInv, InflightOK
  <2>3. QED
    BY <1>4, <2>1, <2>2, OtherInv
<1>5. CASE UNCHANGED fabricVars
  <2>1. UNCHANGED inflight /\ UNCHANGED vars
    BY <1>5 DEF fabricVars
  <2>2. TypeOK' /\ clock <= clock'
    BY <2>1, NextType DEF FabricInv, TypeOK, Time, vars
  <2>3. inflight' = [u \in Slot |-> inflight'[u]]
    BY <2>1 DEF FabricInv, InflightOK
  <2>4. QED
    BY <2>1, <2>2, <2>3, OtherInv DEF vars
<1>6. QED
  BY <1>1, <1>2, <1>3, <1>4, <1>5 DEF FabricNext

\* The invariant of concurrent submissions (gateway.ts, submit): every one that
\* would pass validation reads and writes what it would if simulated now.
THEOREM SubmissionsRepeat == FabricSpec => []FabricInv
<1>1. FabricInv /\ [FabricNext]_fabricVars => FabricInv'
  BY FabricStep
<1>2. QED
  BY <1>1, FabricInitInv, PTL DEF FabricSpec

\* Version checks on the keys that the handlers read suffice: a submission that
\* passes validation could be simulated again when it commits, with the stamp of
\* its endorsement, and would write the same.
THEOREM FreshSubmissionsAreCurrent == FabricSpec => []FreshIsCurrent
<1>1. FabricInv => FreshIsCurrent
  BY DEF FabricInv, FreshRepeats, Repeats, FreshIsCurrent
<1>2. QED
  BY <1>1, SubmissionsRepeat, PTL

\* Whatever is submitted at the same time, by whichever organizations, the world
\* state changes as the serial ledger's does.
THEOREM FabricImplementsLedger == FabricSpec => ImplementsLedger
<1>1. FabricInit => Init
  BY DEF FabricInit
<1>2. FabricInv /\ [FabricNext]_fabricVars => [Next]_vars
  BY FabricStep
<1>3. QED
  BY <1>1, <1>2, SubmissionsRepeat, PTL DEF FabricSpec, ImplementsLedger, Spec

\* So what is proved of the serial ledger holds of it behind the gateway: of
\* concurrent submissions too, none takes effect without the quorum of its
\* proposal, and nothing changes unless a proposal executes.
THEOREM FabricIsGoverned ==
  FabricSpec => []ExecutedHadQuorum /\ WritesAreGoverned
<1>1. FabricSpec => Spec
  BY FabricImplementsLedger DEF ImplementsLedger
<1>2. QED
  BY <1>1, ExecutionNeedsQuorum, OnlyGovernedWrites

\* Two refinements in a row: proposals that are submitted, endorsed and ordered
\* concurrently (gateway.ts) are threshold approval by the organizations too.
THEOREM FabricIsThresholdApproval == FabricSpec => ImplementsThresholdApproval
<1>1. FabricSpec => Spec
  BY FabricImplementsLedger DEF ImplementsLedger
<1>2. QED
  BY <1>1, LedgerImplementsThresholdApproval
=============================================================================
