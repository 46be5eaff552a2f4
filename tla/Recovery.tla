------------------------------- MODULE Recovery -------------------------------
(***************************************************************************)
(* Onboarding and guardian recovery in the backend (fabric/did.service.ts, *)
(* fabric/recovery.service.ts, routes/fabric/misc.routes.ts), with the      *)
(* notifications that recovery sends to the owner of the DID               *)
(* (fabric/notifications.service.ts), composed with the ledger they write  *)
(* to.                                                                     *)
(*                                                                         *)
(* Every request is handled by an asynchronous function that awaits each   *)
(* database query and each ledger transaction, and other requests run      *)
(* between two of its awaits.  A call is the local state of such a         *)
(* function; each action is what it does up to its next await.  A call can *)
(* end at any of them: a query or a submission that throws, a ledger       *)
(* transaction that another client made impossible, or a process that      *)
(* dies, taking its calls with it and leaving the tables as they are.      *)
(*                                                                         *)
(* Everybody else who submits to the ledger is its Next.                   *)
(***************************************************************************)
EXTENDS TrustMeshLedger

CONSTANTS
  Guardian,   \* the identities that can be guardians
  Request,    \* ids of recovery requests
  Call,       \* requests that the backend handles at once
  BirthKey,   \* the key that each DID is derived from
  OrgKeys,    \* ORG_KEYS in the order of the code, primaryOrg first
  MaxRows,    \* bound on the guardian rows of one DID
  Idle,       \* a call that is not under way
  Unsent

VARIABLES
  users,      \* the wallet_address of each row of users
  guardians,  \* the guardian rows of each DID, as a sequence: not deduplicated
  requests,   \* recovery_requests
  calls,
  cast,       \* history: the guardians who proposed or voted, per request
  rebinds,    \* history: the request that a ledger proposal was made for
  told        \* history: per request, whether a notification told the owner of
              \*   enough votes, or Unsent once one could not be recorded

\* A row of recovery_requests, and a proposal of the ledger: what the backend
\* proposes need not be among the actions that its other clients propose.
RequestRow ==
  [did : Did, key : Key, proposedBy : Guardian, votes : SUBSET Guardian,
   threshold : Nat, status : {"pending", "executed"}]
AnyProposal ==
  [action : PrivilegedAction, proposedBy : Org, expiresAt : Nat,
   approvals : Seq(Approval), status : {"PENDING", "EXECUTED", "CANCELLED"},
   executedAt : Time \cup {Absent}, result : AssetId \cup {Absent}]

ASSUME RowsAssumption == Absent \notin RequestRow /\ Absent \notin AnyProposal

ASSUME OrgKeysAssumption ==
  /\ OrgKeys \in Seq(Org)
  /\ OrgKeys # <<>>
  /\ Org = {OrgKeys[i] : i \in DOMAIN OrgKeys}

tables == <<users, guardians, requests>>
recoveryVars == <<tables, calls, cast, rebinds, told>>

RebindAction(d, key) == [type |-> "UPDATE_CONTROLLER", did |-> d, key |-> key]

RecoveryInit ==
  /\ Init
  /\ users = [d \in Did |-> Absent]
  /\ guardians = [d \in Did |-> <<>>]
  /\ requests = [r \in Request |-> Absent]
  /\ told = [r \in Request |-> FALSE]
  /\ calls = [c \in Call |-> Idle]
  /\ cast = [r \in Request |-> {}]
  /\ rebinds = [p \in ProposalId |-> Absent]

Begin(c, call) == calls[c] = Idle /\ calls' = [calls EXCEPT ![c] = call]
At(c, step) == calls[c] # Idle /\ calls[c].at = step
GoTo(c, step) == calls' = [calls EXCEPT ![c].at = step]
Return(c) == calls' = [calls EXCEPT ![c] = Idle]

GuardiansOf(d) == {guardians[d][i] : i \in DOMAIN guardians[d]}

\* The notifications that the owner of a DID gets, each named for how many votes
\* it says there are; wording and identifiers are left out.
RecoveryProposed == 1
RecoveryVote(votes) == votes
RecoveryExecuted(r) == requests[r].threshold

\* dispatchNotification, with the catch of every caller: the row is inserted, or
\* the failure is logged and the caller goes on as if it had been.
DispatchNotification(r, votes) ==
  \/ told' = [told EXCEPT ![r] =
       IF @ = Unsent \/ votes < requests[r].threshold THEN @ ELSE TRUE]
  \/ told' = [told EXCEPT ![r] = Unsent]

-----------------------------------------------------------------------------
\* registerUser: the ledger first, the users row after it.

RegisterOnLedger(c, d) ==
  /\ RegisterDID(d, BirthKey[d])
  /\ Begin(c, [at |-> "insertUser", did |-> d])
  /\ UNCHANGED <<tables, told, cast, rebinds>>

\* ON CONFLICT DO NOTHING
InsertUser(c) ==
  /\ At(c, "insertUser")
  /\ LET d == calls[c].did
     IN  users' = [users EXCEPT ![d] = IF @ = Absent THEN BirthKey[d] ELSE @]
  /\ Return(c)
  /\ UNCHANGED <<vars, guardians, requests, told, cast, rebinds>>

\* POST /recovery/guardians for the session's own DID: the controller is
\* compared with the key in the users row, then the guardian is inserted.
CheckController(c, g, d) ==
  /\ users[d] # Absent
  /\ dids[d] # Absent
  /\ dids[d].controller = users[d]
  /\ Len(guardians[d]) < MaxRows
  /\ Begin(c, [at |-> "insertGuardian", did |-> d, guardian |-> g])
  /\ UNCHANGED <<vars, tables, told, cast, rebinds>>

AddGuardian(c) ==
  /\ At(c, "insertGuardian")
  /\ guardians' = [guardians EXCEPT ![calls[c].did] = Append(@, calls[c].guardian)]
  /\ Return(c)
  /\ UNCHANGED <<vars, users, requests, told, cast, rebinds>>

-----------------------------------------------------------------------------
\* proposeRecovery: the threshold is computed from the guardian rows read first.

\* Faulty: half of them.
RequiredHalf(n) == (n + 1) \div 2

RequiredVotes(n) == (n + 1) \div 2 + 1      \* Math.ceil(n / 2) + 1

ReadGuardians(c, g, d, key) ==
  /\ g \in GuardiansOf(d)
  /\ Begin(c, [at |-> "insertRequest", did |-> d, guardian |-> g, key |-> key,
               threshold |-> RequiredVotes(Len(guardians[d]))])
  /\ UNCHANGED <<vars, tables, told, cast, rebinds>>

ProposeRecovery(c, r) ==
  /\ At(c, "insertRequest")
  /\ requests[r] = Absent
  /\ LET x == calls[c]
     IN  /\ requests' = [requests EXCEPT ![r] =
              [did |-> x.did, key |-> x.key, proposedBy |-> x.guardian,
               votes |-> {x.guardian}, threshold |-> x.threshold,
               status |-> "pending"]]
         /\ cast' = [cast EXCEPT ![r] = {x.guardian}]
         /\ calls' = [calls EXCEPT ![c] =
              [at |-> "notifyProposed", request |-> r]]
  /\ UNCHANGED <<vars, users, guardians, told, rebinds>>

NotifyRecoveryProposed(c) ==
  /\ At(c, "notifyProposed")
  /\ DispatchNotification(calls[c].request, RecoveryProposed)
  /\ Return(c)
  /\ UNCHANGED <<vars, tables, cast, rebinds>>

-----------------------------------------------------------------------------
\* voteRecovery.  The votes written are those read before the guardian check,
\* with this one added, and the owner is told how many there are; from the
\* threshold on, the same call goes on to rebind.

\* Faulty: whatever its status.
IsRecorded(r) == requests[r] # Absent

IsPending(r) == requests[r] # Absent /\ requests[r].status = "pending"

ReadRequest(c, g, r) ==
  /\ IsPending(r)
  /\ Begin(c, [at |-> "checkGuardian", request |-> r, guardian |-> g,
               votes |-> requests[r].votes])
  /\ UNCHANGED <<vars, tables, told, cast, rebinds>>

CheckGuardian(c) ==
  /\ At(c, "checkGuardian")
  /\ calls[c].guardian \in GuardiansOf(requests[calls[c].request].did)
  /\ GoTo(c, "writeVotes")
  /\ UNCHANGED <<vars, tables, told, cast, rebinds>>

\* Faulty: the vote replaces those already there.
WriteOwnVote(c) ==
  /\ At(c, "writeVotes")
  /\ LET x == calls[c]
     IN  /\ requests' = [requests EXCEPT ![x.request].votes = {x.guardian}]
         /\ cast' = [cast EXCEPT ![x.request] = @ \cup {x.guardian}]
  /\ Return(c)
  /\ UNCHANGED <<vars, users, guardians, told, rebinds>>

WriteVotes(c) ==
  /\ At(c, "writeVotes")
  /\ LET x == calls[c]
         votes == x.votes \cup {x.guardian}
     IN  /\ requests' = [requests EXCEPT ![x.request].votes = votes]
         /\ cast' = [cast EXCEPT ![x.request] = @ \cup {x.guardian}]
         /\ calls' = [calls EXCEPT ![c] =
              [at |-> "notifyVote", request |-> x.request,
               votes |-> Cardinality(votes)]]
  /\ UNCHANGED <<vars, users, guardians, told, rebinds>>

Counted(c) ==
  LET x == calls[c]
  IN  IF x.votes >= requests[x.request].threshold
      THEN calls' = [calls EXCEPT ![c] = [at |-> "propose", request |-> x.request]]
      ELSE Return(c)

\* Faulty: a call that reached the threshold tells the owner nothing.
NotifyBelowThreshold(c) ==
  /\ At(c, "notifyVote")
  /\ LET x == calls[c]
     IN  IF x.votes < requests[x.request].threshold
         THEN DispatchNotification(x.request, RecoveryVote(x.votes))
         ELSE UNCHANGED told
  /\ Counted(c)
  /\ UNCHANGED <<vars, tables, cast, rebinds>>

NotifyRecoveryVote(c) ==
  /\ At(c, "notifyVote")
  /\ DispatchNotification(calls[c].request, RecoveryVote(calls[c].votes))
  /\ Counted(c)
  /\ UNCHANGED <<vars, tables, cast, rebinds>>

\* proposeApproveExecute, three kinds of ledger transaction: the primary
\* organization proposes, others approve in the order of ORG_KEYS until enough
\* have, and the primary organization executes.
SubmitProposal(c, p, t) ==
  /\ At(c, "propose")
  /\ LET r == calls[c].request
     IN  /\ ProposeAction(OrgKeys[1], p,
                          RebindAction(requests[r].did, requests[r].key), t)
         /\ calls' = [calls EXCEPT ![c] =
              [at |-> "approve", request |-> r,
               proposal |-> p, approved |-> {OrgKeys[1]}]]
         /\ rebinds' = [rebinds EXCEPT ![p] = r]
  /\ UNCHANGED <<tables, told, cast>>

EnoughApproved(c) == Cardinality(calls[c].approved) >= Threshold

NextOrg(approved) ==
  OrgKeys[CHOOSE i \in DOMAIN OrgKeys :
            /\ OrgKeys[i] \notin approved
            /\ \A j \in 1 .. (i - 1) : OrgKeys[j] \in approved]

SubmitApproval(c, t) ==
  /\ At(c, "approve")
  /\ ~EnoughApproved(c)
  /\ Org \ calls[c].approved # {}
  /\ LET org == NextOrg(calls[c].approved)
     IN  /\ ApproveProposal(org, calls[c].proposal, t)
         /\ calls' = [calls EXCEPT ![c].approved = @ \cup {org}]
  /\ UNCHANGED <<tables, told, cast, rebinds>>

\* Faulty: the execution is not awaited, and nobody sees that it failed.
SubmitUnawaited(c, t) ==
  /\ At(c, "approve")
  /\ EnoughApproved(c)
  /\ GoTo(c, "record")
  /\ UNCHANGED <<vars, tables, told, cast, rebinds>>

SubmitExecution(c, t) ==
  /\ At(c, "approve")
  /\ EnoughApproved(c)
  /\ ExecuteProposal(calls[c].proposal, t)
  /\ GoTo(c, "record")
  /\ UNCHANGED <<tables, told, cast, rebinds>>

RecordExecuted(c) ==
  /\ At(c, "record")
  /\ requests' = [requests EXCEPT ![calls[c].request].status = "executed"]
  /\ GoTo(c, "notifyExecuted")
  /\ UNCHANGED <<vars, users, guardians, told, cast, rebinds>>

NotifyRecoveryExecuted(c) ==
  /\ At(c, "notifyExecuted")
  /\ DispatchNotification(calls[c].request, RecoveryExecuted(calls[c].request))
  /\ Return(c)
  /\ UNCHANGED <<vars, tables, cast, rebinds>>

-----------------------------------------------------------------------------
Fail(c) ==
  /\ calls[c] # Idle
  /\ Return(c)
  /\ UNCHANGED <<vars, tables, told, cast, rebinds>>

OtherClients == Next /\ UNCHANGED recoveryVars

RecoveryNext ==
  \/ \E c \in Call, d \in Did : RegisterOnLedger(c, d)
  \/ \E c \in Call, d \in Did, g \in Guardian : CheckController(c, g, d)
  \/ \E c \in Call, d \in Did, g \in Guardian, key \in Key :
       ReadGuardians(c, g, d, key)
  \/ \E c \in Call, r \in Request : ProposeRecovery(c, r)
  \/ \E c \in Call, g \in Guardian, r \in Request : ReadRequest(c, g, r)
  \/ \E c \in Call, p \in ProposalId, t \in TxTime : SubmitProposal(c, p, t)
  \/ \E c \in Call, t \in TxTime : SubmitApproval(c, t)
  \/ \E c \in Call, t \in TxTime : SubmitExecution(c, t)
  \/ \E c \in Call : InsertUser(c)
  \/ \E c \in Call : AddGuardian(c)
  \/ \E c \in Call : CheckGuardian(c)
  \/ \E c \in Call : WriteVotes(c)
  \/ \E c \in Call : RecordExecuted(c)
  \/ \E c \in Call : NotifyRecoveryProposed(c)
  \/ \E c \in Call : NotifyRecoveryVote(c)
  \/ \E c \in Call : NotifyRecoveryExecuted(c)
  \/ \E c \in Call : Fail(c)
  \/ OtherClients

RecoverySpec == RecoveryInit /\ [][RecoveryNext]_<<vars, recoveryVars>>

-----------------------------------------------------------------------------
\* What recovery promises.

\* No controller is rebound on behalf of a request before as many different
\* guardians of that DID took part as the request requires, at least two of
\* them: repeated votes and duplicate guardian rows never count twice, and a
\* lone guardian never gets there (recovery.service.ts:49).
RebindHadVotes ==
  \A p \in ProposalId : rebinds[p] # Absent =>
    LET r == rebinds[p]
    IN  /\ cast[r] \subseteq GuardiansOf(requests[r].did)
        /\ Cardinality(cast[r]) >= requests[r].threshold
        /\ Cardinality(cast[r]) >= 2

\* A request that the table reports as executed was: the ledger executed a
\* proposal made for it, of exactly the controller that it asked for.
ExecutedRequestRebound ==
  \A r \in Request :
    requests[r] # Absent /\ requests[r].status = "executed" =>
      \E p \in ProposalId :
        /\ rebinds[p] = r
        /\ HasStatus(p, "EXECUTED")
        /\ proposals[p].action = RebindAction(requests[r].did, requests[r].key)

\* Votes that overlap can overwrite each other in the table, but the proposer's
\* own is never lost, and none appears that nobody cast.
ProposerVoteIsKept ==
  \A r \in Request : requests[r] # Absent =>
    /\ requests[r].proposedBy \in requests[r].votes
    /\ requests[r].votes \subseteq cast[r]

\* "A hijack-in-progress is visible as it accumulates votes rather than only once
\* it is too late to stop" (recovery.service.ts:95): by the time that a rebind is
\* proposed, the owner of the DID has been told that enough guardians have voted
\* for it, unless a notification about that request could not be recorded.
OwnerWasWarned ==
  \A p \in ProposalId : rebinds[p] # Absent =>
    LET r == rebinds[p]
    IN  told[r] \in {TRUE, Unsent}

VotingOn(r) ==
  {c \in Call : /\ calls[c] # Idle
                /\ calls[c].at \in {"checkGuardian", "writeVotes", "notifyVote",
                                    "propose", "approve", "record"}
                /\ calls[c].request = r}

Closed(r) ==
  requests[r] # Absent /\ requests[r].status = "executed" /\ VotingOn(r) = {}

\* Once a request is recorded as executed and the votes under way are through,
\* it is closed for good: no later vote changes it or rebinds the DID again.
ClosedStaysClosed ==
  [][\A r \in Request :
       Closed(r) => Closed(r)' /\ requests'[r] = requests[r]]_<<vars, recoveryVars>>
=============================================================================
