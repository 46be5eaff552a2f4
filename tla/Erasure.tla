------------------------------- MODULE Erasure -------------------------------
(***************************************************************************)
(* Governed erasure of personal data in the backend                        *)
(* (services/erasure.service.ts, services/vault.service.ts, reached by     *)
(* POST /vault/erase): two admins ask for the same DID, and the second one *)
(* destroys its vault rows.  All of it is rows of Postgres, and no two     *)
(* queries share a transaction: calls of other admins, and citizens who    *)
(* store fields, run between any two of them, and a call can end after any *)
(* of them (the query throws, or the process dies).                        *)
(***************************************************************************)
EXTENDS Integers, Sequences, FiniteSets

CONSTANTS
  Did, Admin,
  Call,          \* requests that the backend handles at once
  Threshold,     \* DEFAULT_THRESHOLD
  MaxRequests,   \* bound on the erasure_requests rows
  MaxRows,       \* bound on the vault rows ever stored
  Idle           \* a call that is not under way

ASSUME ErasureAssumption ==
  /\ Threshold \in Nat \ {0, 1}
  /\ MaxRequests \in Nat
  /\ MaxRows \in Nat

VARIABLES
  vault,      \* the ids of the pii_vault rows, per DID
  requests,   \* erasure_requests in the order of created_at
  audit,      \* erasure_audit_log, as a set of entries
  calls,
  stored,     \* how many vault rows were ever stored: the next row's id
  doomed      \* history: the rows that existed when a request crossed the
              \*   threshold, for each request that did

vars == <<vault, requests, audit, calls, stored, doomed>>

Requests == DOMAIN requests
Entry(i, actor, action) == [request |-> i, actor |-> actor, action |-> action]

Init ==
  /\ vault = [d \in Did |-> {}]
  /\ requests = <<>>
  /\ audit = {}
  /\ calls = [c \in Call |-> Idle]
  /\ stored = 0
  /\ doomed = <<>>

At(c, step) == calls[c] # Idle /\ calls[c].at = step
GoTo(c, step) == calls' = [calls EXCEPT ![c].at = step]

Return(c) == calls' = [calls EXCEPT ![c] = Idle]

-----------------------------------------------------------------------------
\* findPendingRequest: ORDER BY created_at DESC LIMIT 1
Pending(d) == {i \in Requests : requests[i].did = d /\ requests[i].status = "pending"}
IsLatest(i, S) == i \in S /\ \A j \in S : j <= i

\* requestOrApproveErasure begins by reading the pending request.
FindNone(c, actor, d) ==
  /\ calls[c] = Idle
  /\ Pending(d) = {}
  /\ calls' = [calls EXCEPT ![c] = [at |-> "insert", did |-> d, actor |-> actor]]
  /\ UNCHANGED <<vault, requests, audit, stored, doomed>>

\* Faulty: an admin may approve again.
FindAny(c, actor, d) ==
  /\ calls[c] = Idle
  /\ \E i \in Pending(d) :
       /\ IsLatest(i, Pending(d))
       /\ calls' = [calls EXCEPT ![c] =
            [at |-> "approve", did |-> d, actor |-> actor, request |-> i,
             approvals |-> requests[i].approvals]]
  /\ UNCHANGED <<vault, requests, audit, stored, doomed>>

\* The same admin again is answered from what was read: no step.
FindOther(c, actor, d) ==
  /\ calls[c] = Idle
  /\ \E i \in Pending(d) :
       /\ IsLatest(i, Pending(d))
       /\ actor \notin requests[i].approvals
       /\ calls' = [calls EXCEPT ![c] =
            [at |-> "approve", did |-> d, actor |-> actor, request |-> i,
             approvals |-> requests[i].approvals]]
  /\ UNCHANGED <<vault, requests, audit, stored, doomed>>

InsertRequest(c) ==
  /\ At(c, "insert")
  /\ Len(requests) < MaxRequests
  /\ LET x == calls[c]
     IN  /\ requests' = Append(requests,
              [did |-> x.did, requestedBy |-> x.actor, approvals |-> {x.actor},
               status |-> "pending"])
         /\ calls' = [calls EXCEPT ![c] =
              [at |-> "logRequested", did |-> x.did, actor |-> x.actor,
               request |-> Len(requests) + 1]]
  /\ UNCHANGED <<vault, audit, stored, doomed>>

\* Faulty: one admin's request is carried out at once.
LogRequestedAndGoOn(c) ==
  /\ At(c, "logRequested")
  /\ audit' = audit \cup {Entry(calls[c].request, calls[c].actor, "requested")}
  /\ GoTo(c, "erase")
  /\ UNCHANGED <<vault, requests, stored, doomed>>

LogRequested(c) ==
  /\ At(c, "logRequested")
  /\ audit' = audit \cup {Entry(calls[c].request, calls[c].actor, "requested")}
  /\ Return(c)
  /\ UNCHANGED <<vault, requests, stored, doomed>>

\* The approvals written are those read at the beginning and this one.
WriteApprovals(c) ==
  /\ At(c, "approve")
  /\ LET x == calls[c]
         approvals == x.approvals \cup {x.actor}
     IN  /\ requests' = [requests EXCEPT ![x.request].approvals = approvals]
         /\ calls' = [calls EXCEPT ![c].at = "logApproved",
                                   ![c].approvals = approvals]
         /\ doomed' =
              IF Cardinality(approvals) >= Threshold /\ x.request \notin DOMAIN doomed
              THEN [i \in DOMAIN doomed \cup {x.request} |->
                      IF i = x.request THEN vault[x.did] ELSE doomed[i]]
              ELSE doomed
  /\ UNCHANGED <<vault, audit, stored>>

LogApproved(c) ==
  /\ At(c, "logApproved")
  /\ audit' = audit \cup {Entry(calls[c].request, calls[c].actor, "approved")}
  /\ IF Cardinality(calls[c].approvals) < Threshold
     THEN Return(c)
     ELSE GoTo(c, "logExecuted")
  /\ UNCHANGED <<vault, requests, stored, doomed>>

\* Faulty: recorded without erasing.
LogExecutedOnly(c) ==
  /\ At(c, "logExecuted")
  /\ audit' = audit \cup {Entry(calls[c].request, calls[c].actor, "executed")}
  /\ GoTo(c, "record")
  /\ UNCHANGED <<vault, requests, stored, doomed>>

LogExecuted(c) ==
  /\ At(c, "logExecuted")
  /\ audit' = audit \cup {Entry(calls[c].request, calls[c].actor, "executed")}
  /\ GoTo(c, "erase")
  /\ UNCHANGED <<vault, requests, stored, doomed>>

EraseAllForUser(c) ==
  /\ At(c, "erase")
  /\ vault' = [vault EXCEPT ![calls[c].did] = {}]
  /\ GoTo(c, "record")
  /\ UNCHANGED <<requests, audit, stored, doomed>>

RecordExecuted(c) ==
  /\ At(c, "record")
  /\ requests' = [requests EXCEPT ![calls[c].request].status = "executed"]
  /\ Return(c)
  /\ UNCHANGED <<vault, audit, stored, doomed>>

\* storeField, for each field of a citizen's import.
StoreField(d) ==
  /\ stored < MaxRows
  /\ vault' = [vault EXCEPT ![d] = @ \cup {stored}]
  /\ stored' = stored + 1
  /\ UNCHANGED <<requests, audit, calls, doomed>>

Fail(c) ==
  /\ calls[c] # Idle
  /\ Return(c)
  /\ UNCHANGED <<vault, requests, audit, stored, doomed>>

Next ==
  \/ \E c \in Call, a \in Admin, d \in Did : FindNone(c, a, d)
  \/ \E c \in Call, a \in Admin, d \in Did : FindOther(c, a, d)
  \/ \E c \in Call : InsertRequest(c)
  \/ \E c \in Call : LogRequested(c)
  \/ \E c \in Call : WriteApprovals(c)
  \/ \E c \in Call : LogApproved(c)
  \/ \E c \in Call : LogExecuted(c)
  \/ \E c \in Call : EraseAllForUser(c)
  \/ \E c \in Call : RecordExecuted(c)
  \/ \E c \in Call : Fail(c)
  \/ \E d \in Did : StoreField(d)

Spec == Init /\ [][Next]_vars

-----------------------------------------------------------------------------
\* Nothing is erased on one admin's word: rows of a DID disappear only when the
\* table holds a request for that DID that two different admins approved, and the
\* audit log already says that it was executed (erasure.service.ts:78).
Erasures ==
  \A d \in Did : ~(vault[d] \subseteq vault'[d]) =>
    \E i \in Requests :
      /\ requests[i].did = d
      /\ Cardinality(requests[i].approvals) >= Threshold
      /\ \E a \in Admin : Entry(i, a, "executed") \in audit

ErasureNeedsTwoAdmins == [][Erasures]_vars

\* A request that the table reports as executed has been carried out: of the
\* rows that existed when it first had its approvals, none is left.
ExecutedRowsAreGone ==
  \A i \in Requests : requests[i].status = "executed" =>
    /\ i \in DOMAIN doomed
    /\ vault[requests[i].did] \cap doomed[i] = {}

\* Approvals that overlap overwrite each other, but the admin who executes a
\* request is in the log as having approved it, and never is the one who requested
\* it, whose own approval is never overwritten.
ExecutorIsSecondAdmin ==
  \A e \in audit : e.action = "executed" =>
    /\ Entry(e.request, e.actor, "approved") \in audit
    /\ requests[e.request].requestedBy # e.actor
    /\ requests[e.request].requestedBy \in requests[e.request].approvals

Consenting(d) ==
  {e.actor : e \in {x \in audit : requests[x.request].did = d}}

\* "Only once a SECOND, DISTINCT admin session calls it for the same didHash does
\* the request cross threshold and actually execute" (erasure.service.ts:41): when
\* the log names two admins who asked for the same DID and no call is under way,
\* its erasure has been executed.
SecondAdminExecutes ==
  \A d \in Did :
    Cardinality(Consenting(d)) >= 2 /\ (\A c \in Call : calls[c] = Idle) =>
      \E i \in Requests : requests[i].did = d /\ requests[i].status = "executed"
=============================================================================
