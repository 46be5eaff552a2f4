---------------------------- MODULE FabricOrdering ----------------------------
(***************************************************************************)
(* The ledger of TrustMeshLedger as the backend reaches it: through a      *)
(* Fabric gateway (fabric/gateway.ts, submit), by several request handlers *)
(* at a time, for several organizations.                                   *)
(*                                                                         *)
(* A submitted transaction is first simulated on the peers (endorsed): it  *)
(* reads the world state of that moment and computes its write set.  Only  *)
(* later is it ordered and validated, when other transactions may have     *)
(* committed.  A peer applies the write set if no key that the simulation  *)
(* read was written meanwhile, and otherwise discards the transaction; the *)
(* gateway's caller gets an error and nobody retries.                      *)
(*                                                                         *)
(* What each handler reads and writes is the chaincode's; ordering and     *)
(* validation are Fabric's.  TrustMeshLedger, where a transaction is one   *)
(* step, is what this module must implement.                               *)
(***************************************************************************)
EXTENDS TrustMeshLedger

CONSTANTS
  Slot,   \* submissions that can be under way at once
  Idle    \* a slot without one

\* However late a transaction is ordered, it keeps the stamp of its endorsement.
ASSUME LatenessAssumption == MaxTime <= Skew

VARIABLE inflight   \* the transaction endorsed and not yet ordered, per slot

fabricVars == <<vars, inflight>>

-----------------------------------------------------------------------------
\* The keys of the world state (util.ts).
proposalKey(p) == <<"proposal", p>>
didKey(d) == <<"did", d>>
roleKey(r, s) == <<"role", <<r, s>>>>
statusKey(s) == <<"status", s>>
assetKey(i) == <<"asset", i>>
ASSET_COUNTER_KEY == <<"assetCounter", 0>>

\* What a client asks for.  A proposal's id is the id of the transaction that
\* creates it.
Request ==
  [fn : {"ProposeAction"}, org : Org, proposal : ProposalId, action : Action]
    \cup [fn : {"ApproveProposal", "CancelProposal"}, org : Org, proposal : ProposalId]
    \cup [fn : {"ExecuteProposal"}, proposal : ProposalId]
    \cup [fn : {"RegisterDID"}, did : Did, key : Key]

\* The registry function that ExecuteProposal dispatches to does not throw.
CanDispatch(a, t) ==
  \/ a.type = "GRANT_ROLE" /\ CanGrantUntil(a.expiry, t)
  \/ a.type = "REVOKE_ROLE" /\ IsGranted(a.role, a.subject)
  \/ a.type = "MINT_ASSET" /\ assetCounter < MaxAssets
  \/ a.type = "TRANSFER_ASSET" /\ IsOwner(a.from, a.asset)
  \/ a.type = "UPDATE_CONTROLLER" /\ dids[a.did] # Absent
  \/ a.type = "SET_CREDENTIAL_STATUS"

\* The simulation does not throw.
Simulates(req, t) ==
  \/ req.fn = "ProposeAction" /\ ~Exists(req.proposal)
  \/ req.fn = "ApproveProposal" /\ CanApprove(req.org, req.proposal, t)
  \/ /\ req.fn = "ExecuteProposal"
     /\ CanExecute(req.proposal, t)
     /\ CanDispatch(proposals[req.proposal].action, t)
  \/ req.fn = "CancelProposal" /\ CanCancel(req.org, req.proposal)
  \/ req.fn = "RegisterDID" /\ dids[req.did] = Absent

\* Faulty: the counter is taken from outside the world state.
DispatchReadsNoCounter(a) ==
  IF a.type = "UPDATE_CONTROLLER" THEN {didKey(a.did)}
  ELSE IF a.type = "TRANSFER_ASSET" THEN {assetKey(a.asset)}
  ELSE IF a.type = "MINT_ASSET" THEN {}
  ELSE IF a.type = "SET_CREDENTIAL_STATUS" THEN {statusKey(a.status)}
  ELSE {roleKey(a.role, a.subject), statusKey(StatusIdFor(a.role, a.subject))}

\* The keys a dispatched action reads: a grant overwrites its role unread.
DispatchReads(a) ==
  CASE a.type = "GRANT_ROLE" -> {statusKey(StatusIdFor(a.role, a.subject))}
    [] a.type = "REVOKE_ROLE" ->
         {roleKey(a.role, a.subject), statusKey(StatusIdFor(a.role, a.subject))}
    [] a.type = "MINT_ASSET" -> {ASSET_COUNTER_KEY}
    [] a.type = "TRANSFER_ASSET" -> {assetKey(a.asset)}
    [] a.type = "UPDATE_CONTROLLER" -> {didKey(a.did)}
    [] a.type = "SET_CREDENTIAL_STATUS" -> {statusKey(a.status)}

\* A write set: a function from the keys written to their new values.
OneKey(key, value) == [k \in {key} |-> value]
And(writes, others) ==
  [k \in DOMAIN writes \cup DOMAIN others |->
     IF k \in DOMAIN writes THEN writes[k] ELSE others[k]]

DispatchWrites(a) ==
  CASE a.type = "GRANT_ROLE" ->
         LET id == StatusIdFor(a.role, a.subject)
         IN  And(OneKey(roleKey(a.role, a.subject), RoleGrant(a.expiry)),
                 OneKey(statusKey(id), StatusWrite(id, FALSE, a.expiry)))
    [] a.type = "REVOKE_ROLE" ->
         LET id == StatusIdFor(a.role, a.subject)
         IN  And(OneKey(roleKey(a.role, a.subject),
                        [roles[<<a.role, a.subject>>] EXCEPT !.granted = FALSE]),
                 OneKey(statusKey(id), StatusWrite(id, TRUE, Absent)))
    [] a.type = "MINT_ASSET" ->
         And(OneKey(ASSET_COUNTER_KEY, assetCounter + 1),
             OneKey(assetKey(assetCounter), [owner |-> a.owner]))
    [] a.type = "TRANSFER_ASSET" ->
         OneKey(assetKey(a.asset), [assets[a.asset] EXCEPT !.owner = a.to])
    [] a.type = "UPDATE_CONTROLLER" ->
         OneKey(didKey(a.did), [dids[a.did] EXCEPT !.controller = a.key])
    [] a.type = "SET_CREDENTIAL_STATUS" ->
         OneKey(statusKey(a.status), StatusWrite(a.status, a.revoked, a.expiry))

\* Faulty: approvals and cancellations write the proposal without reading it.
ReadsBlindly(req) ==
  IF req.fn = "ExecuteProposal"
  THEN {proposalKey(req.proposal)} \cup DispatchReads(proposals[req.proposal].action)
  ELSE IF req.fn = "RegisterDID" THEN {didKey(req.did)} ELSE {}

\* The keys a simulation reads.  ProposeAction reads nothing: its key is new.
Reads(req) ==
  CASE req.fn = "ProposeAction" -> {}
    [] req.fn \in {"ApproveProposal", "CancelProposal"} -> {proposalKey(req.proposal)}
    [] req.fn = "ExecuteProposal" ->
         {proposalKey(req.proposal)} \cup DispatchReads(proposals[req.proposal].action)
    [] req.fn = "RegisterDID" -> {didKey(req.did)}

\* The write set a simulation of req stamped t produces.
Writes(req, t) ==
  CASE req.fn = "ProposeAction" ->
         OneKey(proposalKey(req.proposal), NewProposal(req.org, req.action, t))
    [] req.fn = "ApproveProposal" ->
         OneKey(proposalKey(req.proposal),
                WithApproval(proposals[req.proposal], req.org, t))
    [] req.fn = "ExecuteProposal" ->
         And(OneKey(proposalKey(req.proposal), AsExecuted(proposals[req.proposal], t)),
             DispatchWrites(proposals[req.proposal].action))
    [] req.fn = "CancelProposal" ->
         OneKey(proposalKey(req.proposal),
                [proposals[req.proposal] EXCEPT !.status = "CANCELLED"])
    [] req.fn = "RegisterDID" -> OneKey(didKey(req.did), [controller |-> req.key])

-----------------------------------------------------------------------------
FabricInit == Init /\ inflight = [s \in Slot |-> Idle]

Busy(s) == inflight[s] # Idle

\* Transaction ids are unique: no two transactions create the same proposal.
FreshId(req) ==
  req.fn = "ProposeAction" =>
    ~\E s \in Slot :
      /\ Busy(s)
      /\ inflight[s].request.fn = "ProposeAction"
      /\ inflight[s].request.proposal = req.proposal

Endorse(s, req) ==
  /\ ~Busy(s)
  /\ Simulates(req, clock)
  /\ FreshId(req)
  /\ inflight' = [inflight EXCEPT ![s] =
       [request |-> req, at |-> clock, reads |-> Reads(req),
        writes |-> Writes(req, clock), stale |-> FALSE]]
  /\ UNCHANGED vars

\* The value under a key after a write set is applied.
After(writes, key, value) == IF key \in DOMAIN writes THEN writes[key] ELSE value

\* A peer compares the versions a transaction read with the committed ones when
\* it validates it: the same as marking, at every commit, those that read a key
\* which that commit writes.
Marked(x, writes) ==
  IF x # Idle /\ x.reads \cap DOMAIN writes # {}
  THEN [x EXCEPT !.stale = TRUE] ELSE x

Commit(s) ==
  /\ Busy(s)
  /\ ~inflight[s].stale
  /\ LET w == inflight[s].writes
     IN  /\ proposals' = [p \in ProposalId |-> After(w, proposalKey(p), proposals[p])]
         /\ dids' = [d \in Did |-> After(w, didKey(d), dids[d])]
         /\ roles' = [k \in RoleKey |-> After(w, roleKey(k[1], k[2]), roles[k])]
         /\ statuses' = [i \in StatusId |-> After(w, statusKey(i), statuses[i])]
         /\ assets' = [i \in AssetId |-> After(w, assetKey(i), assets[i])]
         /\ assetCounter' = After(w, ASSET_COUNTER_KEY, assetCounter)
         /\ inflight' = [u \in Slot |-> IF u = s THEN Idle ELSE Marked(inflight[u], w)]
  /\ UNCHANGED clock

\* Discarded as stale, or never ordered: the caller gets an error either way.
Discard(s) ==
  /\ Busy(s)
  /\ inflight' = [inflight EXCEPT ![s] = Idle]
  /\ UNCHANGED vars

FabricNext ==
  \/ \E s \in Slot, req \in Request : Endorse(s, req)
  \/ \E s \in Slot : Commit(s)
  \/ \E s \in Slot : Discard(s)
  \/ Tick /\ UNCHANGED inflight

FabricSpec == FabricInit /\ [][FabricNext]_fabricVars

-----------------------------------------------------------------------------
\* The serial machine of TrustMeshLedger, whose handlers read and write in one
\* step, is what concurrent submissions amount to: every commit is one of its
\* transactions, with the stamp of the endorsement, everything else a stutter.
ImplementsLedger == Spec

\* A transaction that would pass validation is one whose simulation, run again
\* now, would succeed and write the same: the keys that the handlers read are
\* all that their checks and results depend on.
FreshIsCurrent ==
  \A s \in Slot : Busy(s) /\ ~inflight[s].stale =>
    LET x == inflight[s]
    IN  Simulates(x.request, x.at) /\ x.writes = Writes(x.request, x.at)

=============================================================================
