---------------------------- MODULE ErasureProofs ----------------------------
(***************************************************************************)
(* What governed erasure promises, for every number of admins, calls, DIDs *)
(* and requests.                                                           *)
(*                                                                         *)
(* A call acts on what it read some queries ago, so the invariant says for *)
(* every call under way what still holds of the rows that it read          *)
(* (Standing).  It survives the steps of the other calls because these     *)
(* never undo what it rests on (Lasting): a request keeps its DID and its  *)
(* requester, its second approval is replaced by another one and never     *)
(* lost, the log only grows, and the rows of a settled request do not      *)
(* come back, since a row that is stored later has a new id.               *)
(***************************************************************************)
EXTENDS Erasure, FiniteSetTheorems, TLAPS

Rows == 0 .. stored - 1

RequestRow ==
  [did : Did, requestedBy : Admin, approvals : SUBSET Admin,
   status : {"pending", "executed"}]

CallState ==
       [at : {"insert"}, did : Did, actor : Admin]
  \cup [at : {"logRequested"}, did : Did, actor : Admin, request : Nat]
  \cup [at : {"approve", "logApproved", "logExecuted", "erase", "record"},
        did : Did, actor : Admin, request : Nat, approvals : SUBSET Admin]

TypeOK ==
  /\ vault \in [Did -> SUBSET Rows]
  /\ requests \in Seq(RequestRow)
  /\ audit \subseteq [request : Requests, actor : Admin,
                      action : {"requested", "approved", "executed"}]
  /\ calls \in [Call -> {Idle} \cup CallState]
  /\ stored \in Nat
  /\ DOMAIN doomed \subseteq Requests
  /\ \A i \in DOMAIN doomed : doomed[i] \subseteq Rows

\* Somebody other than the requester is among the approvals.
Seconded(i) ==
  \E a \in requests[i].approvals : a # requests[i].requestedBy

\* Of the rows that existed when a request crossed the threshold, none is left.
Emptied(i) ==
  /\ i \in DOMAIN doomed
  /\ vault[requests[i].did] \cap doomed[i] = {}

\* What a request keeps.
Wellformed(i) ==
  /\ requests[i].requestedBy \in requests[i].approvals
  /\ IsFiniteSet(requests[i].approvals)
  /\ requests[i].status = "executed" => Emptied(i)

Reading == {"approve", "logApproved", "logExecuted", "erase", "record"}
Written == {"logApproved", "logExecuted", "erase", "record"}
Crossed == {"logExecuted", "erase", "record"}
Logged == {"erase", "record"}

\* What holds of the rows that a call has read and written.
Standing(c) ==
  LET x == calls[c]
  IN  /\ x.at # "insert" =>
           /\ x.request \in Requests
           /\ requests[x.request].did = x.did
      /\ x.at \in Reading =>
           /\ requests[x.request].requestedBy \in x.approvals
           /\ requests[x.request].requestedBy # x.actor
           /\ IsFiniteSet(x.approvals)
      /\ x.at \in Written =>
           /\ Seconded(x.request)
           /\ Cardinality(x.approvals) >= Threshold => x.request \in DOMAIN doomed
      /\ x.at \in Crossed =>
           /\ Cardinality(x.approvals) >= Threshold
           /\ Entry(x.request, x.actor, "approved") \in audit
      /\ x.at \in Logged => Entry(x.request, x.actor, "executed") \in audit
      /\ x.at = "record" => Emptied(x.request)

\* What the log says of an execution.
Sound(e) ==
  e.action = "executed" =>
    /\ Entry(e.request, e.actor, "approved") \in audit
    /\ requests[e.request].requestedBy # e.actor

ErasureInv ==
  /\ TypeOK
  /\ \A i \in Requests : Wellformed(i)
  /\ \A c \in Call : calls[c] # Idle => Standing(c)
  /\ \A e \in audit : Sound(e)

\* What no step undoes.
Lasting ==
  /\ Requests \subseteq Requests'
  /\ \A i \in Requests :
       /\ requests'[i].did = requests[i].did
       /\ requests'[i].requestedBy = requests[i].requestedBy
       /\ Seconded(i) => Seconded(i)'
  /\ audit \subseteq audit'
  /\ DOMAIN doomed \subseteq DOMAIN doomed'
  /\ \A i \in DOMAIN doomed : doomed'[i] = doomed[i]
  /\ \A d \in Did : vault'[d] \cap Rows \subseteq vault[d]

-----------------------------------------------------------------------------
\* The types.

\* A call that takes a step leaves the other calls where they are.
Only(c) == \A b \in Call : b # c => calls'[b] = calls[b]

\* A call of an action is one of the three kinds of records.
LEMMA CallKinds ==
  ASSUME TypeOK, NEW c \in Call, calls[c] # Idle
  PROVE  /\ calls[c].did \in Did
         /\ calls[c].actor \in Admin
         /\ calls[c].at # "insert" => calls[c].request \in Nat
         /\ calls[c].at = "logRequested" =>
              calls[c] \in [at : {"logRequested"}, did : Did, actor : Admin, request : Nat]
         /\ calls[c].at \in Reading =>
              calls[c] \in [at : Reading, did : Did, actor : Admin, request : Nat,
                            approvals : SUBSET Admin]
  BY DEF TypeOK, CallState, Reading

\* GoTo and Return move one call, and a call stays of its kind.
LEMMA GoToMoves ==
  ASSUME TypeOK, NEW c \in Call, calls[c] # Idle, calls[c].at \in Reading,
         NEW step \in Reading, GoTo(c, step)
  PROVE  /\ calls' \in [Call -> {Idle} \cup CallState]
         /\ Only(c)
         /\ calls'[c] = [at |-> step, did |-> calls[c].did, actor |-> calls[c].actor,
                         request |-> calls[c].request, approvals |-> calls[c].approvals]
<1>1. calls \in [Call -> {Idle} \cup CallState]
  BY DEF TypeOK
<1>2. calls[c] \in [at : Reading, did : Did, actor : Admin, request : Nat,
                    approvals : SUBSET Admin]
  BY CallKinds
<1>3. calls' = [calls EXCEPT ![c] = [calls[c] EXCEPT !.at = step]]
  BY DEF GoTo
<1>4. [calls[c] EXCEPT !.at = step]
        = [at |-> step, did |-> calls[c].did, actor |-> calls[c].actor,
           request |-> calls[c].request, approvals |-> calls[c].approvals]
  BY <1>2
<1>5. [at |-> step, did |-> calls[c].did, actor |-> calls[c].actor,
       request |-> calls[c].request, approvals |-> calls[c].approvals] \in CallState
  BY <1>2 DEF CallState, Reading
<1>6. QED
  BY <1>1, <1>3, <1>4, <1>5 DEF Only

LEMMA ReturnIdles ==
  ASSUME TypeOK, NEW c \in Call, Return(c)
  PROVE  /\ calls' \in [Call -> {Idle} \cup CallState]
         /\ Only(c)
         /\ calls'[c] = Idle
  BY DEF TypeOK, Return, Only

\* The first state has the types.
LEMMA InitType == Init => TypeOK
<1> SUFFICES ASSUME Init PROVE TypeOK
  OBVIOUS
<1>1. requests \in Seq(RequestRow)
  BY DEF Init
<1>2. vault \in [Did -> SUBSET Rows] /\ stored \in Nat
  BY DEF Init
<1>3. calls \in [Call -> {Idle} \cup CallState]
  BY DEF Init
<1>4. DOMAIN doomed = {}
  BY DEF Init
<1>5. audit = {}
  BY DEF Init
<1>6. QED
  BY <1>1, <1>2, <1>3, <1>4, <1>5 DEF TypeOK

\* The requests after a new one: the earlier ones are as they were.
LEMMA InsertFacts ==
  ASSUME TypeOK, NEW c \in Call, InsertRequest(c)
  PROVE  /\ requests' \in Seq(RequestRow)
         /\ Len(requests) + 1 \notin Requests
         /\ Requests' = Requests \cup {Len(requests) + 1}
         /\ \A i \in Requests : requests'[i] = requests[i]
         /\ requests'[Len(requests) + 1] =
              [did |-> calls[c].did, requestedBy |-> calls[c].actor,
               approvals |-> {calls[c].actor}, status |-> "pending"]
         /\ calls' \in [Call -> {Idle} \cup CallState]
         /\ Only(c)
         /\ calls'[c] = [at |-> "logRequested", did |-> calls[c].did,
                         actor |-> calls[c].actor, request |-> Len(requests) + 1]
<1> DEFINE row == [did |-> calls[c].did, requestedBy |-> calls[c].actor,
                   approvals |-> {calls[c].actor}, status |-> "pending"]
           moved == [at |-> "logRequested", did |-> calls[c].did,
                     actor |-> calls[c].actor, request |-> Len(requests) + 1]
<1>1. /\ calls[c] # Idle
      /\ requests' = Append(requests, row)
      /\ calls' = [calls EXCEPT ![c] = moved]
  BY DEF InsertRequest, At
<1>2. calls[c].did \in Did /\ calls[c].actor \in Admin
  BY <1>1, CallKinds
<1>3. requests \in Seq(RequestRow) /\ row \in RequestRow
  BY <1>2 DEF TypeOK, RequestRow
<1>4. moved \in CallState
  BY <1>2, <1>3 DEF CallState
<1> HIDE DEF row, moved
<1>5. /\ requests' \in Seq(RequestRow)
      /\ Requests = 1 .. Len(requests)
      /\ Requests' = 1 .. (Len(requests) + 1)
      /\ Len(requests) \in Nat
      /\ \A i \in 1 .. Len(requests) : requests'[i] = requests[i]
      /\ requests'[Len(requests) + 1] = row
  BY <1>1, <1>3 DEF Requests
<1>6. /\ calls' \in [Call -> {Idle} \cup CallState]
      /\ Only(c)
      /\ calls'[c] = moved
  BY <1>1, <1>4 DEF TypeOK, Only
<1>7. QED
  BY <1>5, <1>6 DEF row, moved

\* The requests after an approval: only the approvals of one are new.
LEMMA ApprovalFacts ==
  ASSUME ErasureInv, NEW c \in Call, WriteApprovals(c)
  PROVE  LET x == calls[c]
             approvals == x.approvals \cup {x.actor}
         IN  /\ x.request \in Requests
             /\ requests' \in Seq(RequestRow)
             /\ Requests' = Requests
             /\ \A i \in Requests : i # x.request => requests'[i] = requests[i]
             /\ requests'[x.request] =
                  [did |-> requests[x.request].did,
                   requestedBy |-> requests[x.request].requestedBy,
                   approvals |-> approvals, status |-> requests[x.request].status]
             /\ calls' \in [Call -> {Idle} \cup CallState]
             /\ Only(c)
             /\ calls'[c] = [at |-> "logApproved", did |-> x.did, actor |-> x.actor,
                             request |-> x.request, approvals |-> approvals]
<1> DEFINE x == calls[c]
           approvals == x.approvals \cup {x.actor}
<1>1. /\ calls[c] # Idle
      /\ x.at = "approve"
      /\ requests' = [requests EXCEPT ![x.request].approvals = approvals]
      /\ calls' = [calls EXCEPT ![c].at = "logApproved", ![c].approvals = approvals]
  BY DEF WriteApprovals, At
<1>2. TypeOK /\ Standing(c)
  BY <1>1 DEF ErasureInv
<1>3. x \in [at : Reading, did : Did, actor : Admin, request : Nat,
             approvals : SUBSET Admin]
  BY <1>1, <1>2, CallKinds DEF Reading
<1>4. x.request \in Requests /\ requests \in Seq(RequestRow)
  BY <1>1, <1>2 DEF Standing, TypeOK
<1>5. calls' = [calls EXCEPT ![c] =
                 [at |-> "logApproved", did |-> x.did, actor |-> x.actor,
                  request |-> x.request, approvals |-> approvals]]
  <2>1. calls \in [Call -> {Idle} \cup CallState]
    BY <1>2 DEF TypeOK
  <2>2. calls' = [calls EXCEPT ![c] = [calls[c] EXCEPT !.at = "logApproved",
                                                       !.approvals = approvals]]
    BY <1>1, <2>1
  <2>3. [calls[c] EXCEPT !.at = "logApproved"]
          = [at |-> "logApproved", did |-> x.did, actor |-> x.actor,
             request |-> x.request, approvals |-> x.approvals]
    BY <1>3
  <2> HIDE DEF approvals, x
  <2>4. [[at |-> "logApproved", did |-> x.did, actor |-> x.actor,
          request |-> x.request, approvals |-> x.approvals]
           EXCEPT !.approvals = approvals]
          = [at |-> "logApproved", did |-> x.did, actor |-> x.actor,
             request |-> x.request, approvals |-> approvals]
    OBVIOUS
  <2>5. QED
    BY <2>2, <2>3, <2>4
<1>6. [at |-> "logApproved", did |-> x.did, actor |-> x.actor,
       request |-> x.request, approvals |-> approvals] \in CallState
  BY <1>3 DEF CallState
<1>7. calls \in [Call -> {Idle} \cup CallState]
  BY <1>2 DEF TypeOK
<1>8. /\ calls' \in [Call -> {Idle} \cup CallState]
      /\ Only(c)
      /\ calls'[c] = [at |-> "logApproved", did |-> x.did, actor |-> x.actor,
                      request |-> x.request, approvals |-> approvals]
  BY <1>5, <1>6, <1>7 DEF Only
<1>9. requests[x.request] \in RequestRow /\ approvals \in SUBSET Admin
  BY <1>3, <1>4 DEF Requests
<1>10. [requests[x.request] EXCEPT !.approvals = approvals]
         = [did |-> requests[x.request].did,
            requestedBy |-> requests[x.request].requestedBy,
            approvals |-> approvals, status |-> requests[x.request].status]
  BY <1>9 DEF RequestRow
<1>11. [requests[x.request] EXCEPT !.approvals = approvals] \in RequestRow
  BY <1>9 DEF RequestRow
<1> HIDE DEF approvals, x
<1>12. /\ requests' \in Seq(RequestRow)
       /\ Requests' = Requests
       /\ \A i \in Requests : i # x.request => requests'[i] = requests[i]
       /\ requests'[x.request] = [requests[x.request] EXCEPT !.approvals = approvals]
  BY <1>1, <1>4, <1>11 DEF Requests
<1>13. QED
  BY <1>4, <1>8, <1>10, <1>12 DEF approvals, x

\* The requests after an execution is recorded: one changes its status.
LEMMA RecordFacts ==
  ASSUME ErasureInv, NEW c \in Call, RecordExecuted(c)
  PROVE  LET x == calls[c]
         IN  /\ x.request \in Requests
             /\ requests' \in Seq(RequestRow)
             /\ Requests' = Requests
             /\ \A i \in Requests : i # x.request => requests'[i] = requests[i]
             /\ requests'[x.request] =
                  [did |-> requests[x.request].did,
                   requestedBy |-> requests[x.request].requestedBy,
                   approvals |-> requests[x.request].approvals, status |-> "executed"]
<1> DEFINE x == calls[c]
<1>1. /\ calls[c] # Idle
      /\ x.at = "record"
      /\ requests' = [requests EXCEPT ![x.request].status = "executed"]
  BY DEF RecordExecuted, At
<1>2. TypeOK /\ Standing(c)
  BY <1>1 DEF ErasureInv
<1>3. x.request \in Requests /\ requests \in Seq(RequestRow)
  BY <1>1, <1>2 DEF Standing, TypeOK
<1>4. requests[x.request] \in RequestRow
  BY <1>3 DEF Requests
<1>5. [requests[x.request] EXCEPT !.status = "executed"]
        = [did |-> requests[x.request].did,
           requestedBy |-> requests[x.request].requestedBy,
           approvals |-> requests[x.request].approvals, status |-> "executed"]
  BY <1>4 DEF RequestRow
<1>6. [requests[x.request] EXCEPT !.status = "executed"] \in RequestRow
  BY <1>4 DEF RequestRow
<1> HIDE DEF x
<1>7. /\ requests' \in Seq(RequestRow)
      /\ Requests' = Requests
      /\ \A i \in Requests : i # x.request => requests'[i] = requests[i]
      /\ requests'[x.request] = [requests[x.request] EXCEPT !.status = "executed"]
  BY <1>1, <1>3, <1>6 DEF Requests
<1>8. QED
  BY <1>3, <1>5, <1>7 DEF x

\* What crossing the threshold remembers.
LEMMA DoomedFacts ==
  ASSUME ErasureInv, NEW c \in Call, WriteApprovals(c)
  PROVE  /\ DOMAIN doomed \subseteq DOMAIN doomed'
         /\ DOMAIN doomed' \subseteq Requests
         /\ \A i \in DOMAIN doomed : doomed'[i] = doomed[i]
         /\ \A i \in DOMAIN doomed' : doomed'[i] \subseteq Rows
         /\ Cardinality(calls[c].approvals \cup {calls[c].actor}) >= Threshold =>
              calls[c].request \in DOMAIN doomed'
<1> DEFINE x == calls[c]
           approvals == x.approvals \cup {x.actor}
           crosses == Cardinality(approvals) >= Threshold /\ x.request \notin DOMAIN doomed
<1>1. calls[c] # Idle /\ x.at = "approve" /\ TypeOK /\ Standing(c)
  BY DEF WriteApprovals, At, ErasureInv
<1>2. x.request \in Requests
  BY <1>1 DEF Standing
<1>3. vault[x.did] \subseteq Rows
  BY <1>1, CallKinds DEF TypeOK
<1>4. DOMAIN doomed \subseteq Requests /\ \A i \in DOMAIN doomed : doomed[i] \subseteq Rows
  BY <1>1 DEF TypeOK
<1>5. doomed' = IF crosses
                THEN [i \in DOMAIN doomed \cup {x.request} |->
                        IF i = x.request THEN vault[x.did] ELSE doomed[i]]
                ELSE doomed
  BY DEF WriteApprovals
<1>6. CASE crosses
  <2>1. /\ DOMAIN doomed' = DOMAIN doomed \cup {x.request}
        /\ doomed'[x.request] = vault[x.did]
        /\ \A i \in DOMAIN doomed : doomed'[i] = doomed[i]
    BY <1>5, <1>6
  <2>2. QED
    BY <1>2, <1>3, <1>4, <2>1
<1>7. CASE ~crosses
  BY <1>4, <1>5, <1>7
<1>8. QED
  BY <1>6, <1>7

\* A step that leaves the requests alone leaves their numbers alone.
LEMMA SameRequests ==
  ASSUME UNCHANGED requests
  PROVE  Requests' = Requests /\ \A i : Seconded(i)' <=> Seconded(i)
  BY DEF Requests, Seconded

\* Every step keeps the types, and undoes nothing that a call rests on.
LEMMA NextType ==
  ASSUME ErasureInv, Next
  PROVE  TypeOK' /\ Lasting
<1> USE DEF Rows
<1>1. /\ TypeOK
      /\ stored \in Nat
      /\ vault \in [Did -> SUBSET Rows]
      /\ requests \in Seq(RequestRow)
  BY DEF ErasureInv, TypeOK
<1>2. ASSUME NEW c \in Call, NEW a \in Admin, NEW d \in Did, FindNone(c, a, d)
      PROVE  TypeOK' /\ Lasting
  <2>1. [at |-> "insert", did |-> d, actor |-> a] \in CallState
    BY DEF CallState
  <2>2. calls' \in [Call -> {Idle} \cup CallState]
    BY <1>1, <1>2, <2>1 DEF FindNone, TypeOK
  <2>3. UNCHANGED <<vault, requests, audit, stored, doomed>>
    BY <1>2 DEF FindNone
  <2>4. QED
    BY <1>1, <2>2, <2>3, SameRequests DEF TypeOK, Lasting
<1>3. ASSUME NEW c \in Call, NEW a \in Admin, NEW d \in Did, FindOther(c, a, d)
      PROVE  TypeOK' /\ Lasting
  <2>1. PICK i \in Pending(d) :
          calls' = [calls EXCEPT ![c] =
            [at |-> "approve", did |-> d, actor |-> a, request |-> i,
             approvals |-> requests[i].approvals]]
    BY <1>3 DEF FindOther
  <2>2. i \in Nat /\ requests[i].approvals \in SUBSET Admin
    <3>1. i \in 1 .. Len(requests) /\ Len(requests) \in Nat
      BY <1>1 DEF Pending, Requests
    <3>2. requests[i] \in RequestRow
      BY <1>1, <3>1
    <3>3. QED
      BY <3>1, <3>2 DEF RequestRow
  <2>3. [at |-> "approve", did |-> d, actor |-> a, request |-> i,
         approvals |-> requests[i].approvals] \in CallState
    BY <2>2 DEF CallState
  <2>4. calls' \in [Call -> {Idle} \cup CallState]
    BY <1>1, <2>1, <2>3 DEF TypeOK
  <2>5. UNCHANGED <<vault, requests, audit, stored, doomed>>
    BY <1>3 DEF FindOther
  <2>6. QED
    BY <1>1, <2>4, <2>5, SameRequests DEF TypeOK, Lasting
<1>4. ASSUME NEW c \in Call, InsertRequest(c)
      PROVE  TypeOK' /\ Lasting
  <2>1. UNCHANGED <<vault, audit, stored, doomed>>
    BY <1>4 DEF InsertRequest
  <2>2. /\ requests' \in Seq(RequestRow)
        /\ Requests' = Requests \cup {Len(requests) + 1}
        /\ \A i \in Requests : requests'[i] = requests[i]
        /\ calls' \in [Call -> {Idle} \cup CallState]
    BY <1>1, <1>4, InsertFacts
  <2>3. TypeOK'
    BY <1>1, <2>1, <2>2 DEF TypeOK
  <2>4. Lasting
    BY <2>1, <2>2 DEF Lasting, Seconded
  <2>5. QED
    BY <2>3, <2>4
<1>5. ASSUME NEW c \in Call, LogRequested(c)
      PROVE  TypeOK' /\ Lasting
  <2>1. /\ UNCHANGED <<vault, requests, stored, doomed>>
        /\ audit' = audit \cup {Entry(calls[c].request, calls[c].actor, "requested")}
        /\ calls[c] # Idle /\ calls[c].at = "logRequested"
    BY <1>5 DEF LogRequested, At
  <2>2. calls' \in [Call -> {Idle} \cup CallState]
    BY <1>1, <1>5, ReturnIdles DEF LogRequested
  <2>3. calls[c].request \in Requests /\ calls[c].actor \in Admin
    BY <1>1, <2>1, CallKinds DEF ErasureInv, Standing
  <2>4. QED
    BY <1>1, <2>1, <2>2, <2>3, SameRequests DEF TypeOK, Lasting, Entry
<1>6. ASSUME NEW c \in Call, WriteApprovals(c)
      PROVE  TypeOK' /\ Lasting
  <2> DEFINE x == calls[c]
             approvals == x.approvals \cup {x.actor}
  <2>1. UNCHANGED <<vault, audit, stored>>
    BY <1>6 DEF WriteApprovals
  <2>2. /\ x.request \in Requests
        /\ requests' \in Seq(RequestRow)
        /\ Requests' = Requests
        /\ \A i \in Requests : i # x.request => requests'[i] = requests[i]
        /\ requests'[x.request] =
             [did |-> requests[x.request].did,
              requestedBy |-> requests[x.request].requestedBy,
              approvals |-> approvals, status |-> requests[x.request].status]
        /\ calls' \in [Call -> {Idle} \cup CallState]
    BY <1>6, ApprovalFacts
  <2>3. /\ DOMAIN doomed \subseteq DOMAIN doomed'
        /\ DOMAIN doomed' \subseteq Requests
        /\ \A i \in DOMAIN doomed : doomed'[i] = doomed[i]
        /\ \A i \in DOMAIN doomed' : doomed'[i] \subseteq Rows
    BY <1>6, DoomedFacts
  <2>4. TypeOK'
    BY <1>1, <2>1, <2>2, <2>3 DEF TypeOK
  <2>5. requests[x.request].requestedBy # x.actor
    BY <1>6 DEF ErasureInv, Standing, WriteApprovals, At, Reading
  <2>6. ASSUME NEW i, i = x.request
        PROVE  Seconded(i)'
    BY <2>2, <2>5, <2>6 DEF Seconded
  <2>7. \A i \in Requests :
          /\ requests'[i].did = requests[i].did
          /\ requests'[i].requestedBy = requests[i].requestedBy
          /\ Seconded(i) => Seconded(i)'
    BY <2>2, <2>6 DEF Seconded
  <2>8. Lasting
    BY <2>1, <2>2, <2>3, <2>7 DEF Lasting
  <2>9. QED
    BY <2>4, <2>8
<1>7. ASSUME NEW c \in Call, LogApproved(c)
      PROVE  TypeOK' /\ Lasting
  <2>1. /\ UNCHANGED <<vault, requests, stored, doomed>>
        /\ audit' = audit \cup {Entry(calls[c].request, calls[c].actor, "approved")}
        /\ calls[c] # Idle /\ calls[c].at = "logApproved"
    BY <1>7 DEF LogApproved, At
  <2>2. calls' \in [Call -> {Idle} \cup CallState]
    <3>1. Return(c) \/ GoTo(c, "logExecuted")
      BY <1>7 DEF LogApproved
    <3>2. QED
      BY <1>1, <2>1, <3>1, ReturnIdles, GoToMoves DEF Reading
  <2>3. calls[c].request \in Requests /\ calls[c].actor \in Admin
    BY <1>1, <2>1, CallKinds DEF ErasureInv, Standing
  <2>4. QED
    BY <1>1, <2>1, <2>2, <2>3, SameRequests DEF TypeOK, Lasting, Entry
<1>8. ASSUME NEW c \in Call, LogExecuted(c)
      PROVE  TypeOK' /\ Lasting
  <2>1. /\ UNCHANGED <<vault, requests, stored, doomed>>
        /\ audit' = audit \cup {Entry(calls[c].request, calls[c].actor, "executed")}
        /\ calls[c] # Idle /\ calls[c].at = "logExecuted"
        /\ GoTo(c, "erase")
    BY <1>8 DEF LogExecuted, At
  <2>2. calls' \in [Call -> {Idle} \cup CallState]
    BY <1>1, <2>1, GoToMoves DEF Reading
  <2>3. calls[c].request \in Requests /\ calls[c].actor \in Admin
    BY <1>1, <2>1, CallKinds DEF ErasureInv, Standing
  <2>4. QED
    BY <1>1, <2>1, <2>2, <2>3, SameRequests DEF TypeOK, Lasting, Entry
<1>9. ASSUME NEW c \in Call, EraseAllForUser(c)
      PROVE  TypeOK' /\ Lasting
  <2>1. /\ UNCHANGED <<requests, audit, stored, doomed>>
        /\ vault' = [vault EXCEPT ![calls[c].did] = {}]
        /\ calls[c] # Idle /\ calls[c].at = "erase"
        /\ GoTo(c, "record")
    BY <1>9 DEF EraseAllForUser, At
  <2>2. calls' \in [Call -> {Idle} \cup CallState]
    BY <1>1, <2>1, GoToMoves DEF Reading
  <2>3. vault' \in [Did -> SUBSET Rows] /\ \A d \in Did : vault'[d] \subseteq vault[d]
    BY <1>1, <2>1
  <2>4. QED
    BY <1>1, <2>1, <2>2, <2>3, SameRequests DEF TypeOK, Lasting
<1>10. ASSUME NEW c \in Call, RecordExecuted(c)
       PROVE  TypeOK' /\ Lasting
  <2> DEFINE x == calls[c]
  <2>1. UNCHANGED <<vault, audit, stored, doomed>>
    BY <1>10 DEF RecordExecuted
  <2>2. /\ x.request \in Requests
        /\ requests' \in Seq(RequestRow)
        /\ Requests' = Requests
        /\ \A i \in Requests : i # x.request => requests'[i] = requests[i]
        /\ requests'[x.request] =
             [did |-> requests[x.request].did,
              requestedBy |-> requests[x.request].requestedBy,
              approvals |-> requests[x.request].approvals, status |-> "executed"]
    BY <1>10, RecordFacts
  <2>3. calls' \in [Call -> {Idle} \cup CallState]
    BY <1>1, <1>10, ReturnIdles DEF RecordExecuted
  <2>4. TypeOK'
    BY <1>1, <2>1, <2>2, <2>3 DEF TypeOK
  <2>5. \A i \in Requests :
          /\ requests'[i].did = requests[i].did
          /\ requests'[i].requestedBy = requests[i].requestedBy
          /\ Seconded(i) => Seconded(i)'
    BY <2>2 DEF Seconded
  <2>6. Lasting
    BY <2>1, <2>2, <2>5 DEF Lasting
  <2>7. QED
    BY <2>4, <2>6
<1>11. ASSUME NEW c \in Call, Fail(c)
       PROVE  TypeOK' /\ Lasting
  <2>1. UNCHANGED <<vault, requests, audit, stored, doomed>>
    BY <1>11 DEF Fail
  <2>2. calls' \in [Call -> {Idle} \cup CallState]
    BY <1>1, <1>11, ReturnIdles DEF Fail
  <2>3. QED
    BY <1>1, <2>1, <2>2, SameRequests DEF TypeOK, Lasting
<1>12. ASSUME NEW d \in Did, StoreField(d)
       PROVE  TypeOK' /\ Lasting
  <2>1. /\ UNCHANGED <<requests, audit, calls, doomed>>
        /\ vault' = [vault EXCEPT ![d] = @ \cup {stored}]
        /\ stored' = stored + 1
    BY <1>12 DEF StoreField
  <2>2. /\ stored' \in Nat
        /\ Rows \subseteq Rows'
        /\ stored \in Rows'
        /\ stored \notin Rows
    BY <1>1, <2>1
  <2>3. vault' \in [Did -> SUBSET Rows']
    BY <1>1, <2>1, <2>2
  <2>4. \A e \in Did : vault'[e] \cap Rows \subseteq vault[e]
    BY <1>1, <2>1, <2>2
  <2> HIDE DEF Rows
  <2>5. TypeOK'
    BY <1>1, <2>1, <2>2, <2>3, SameRequests DEF TypeOK
  <2>6. Lasting
    BY <2>1, <2>4, SameRequests DEF Lasting
  <2>7. QED
    BY <2>5, <2>6
<1>13. QED
  BY <1>2, <1>3, <1>4, <1>5, <1>6, <1>7, <1>8, <1>9, <1>10, <1>11, <1>12 DEF Next

-----------------------------------------------------------------------------
\* What the invariant says of requests, calls and the log.

\* A request that was emptied stays so: new rows have new ids.
LEMMA EmptiedStays ==
  ASSUME TypeOK, Lasting, NEW i \in Requests, Emptied(i)
  PROVE  Emptied(i)'
<1>1. requests[i] \in RequestRow
  BY DEF TypeOK, Requests
<1>2. requests[i].did \in Did
  BY <1>1 DEF RequestRow
<1>3. i \in DOMAIN doomed /\ doomed[i] \subseteq Rows
  BY DEF TypeOK, Emptied
<1>4. vault'[requests[i].did] \cap Rows \subseteq vault[requests[i].did]
  BY <1>2 DEF Lasting
<1>5. requests'[i].did = requests[i].did /\ doomed'[i] = doomed[i] /\ i \in DOMAIN doomed'
  BY <1>3 DEF Lasting
<1>6. QED
  BY <1>3, <1>4, <1>5 DEF Emptied

\* What a call rests on outlives the steps of the others.
LEMMA OthersStand ==
  ASSUME TypeOK, Lasting, NEW c \in Call, Standing(c), calls'[c] = calls[c]
  PROVE  Standing(c)'
<1> DEFINE x == calls[c]
<1>1. x.at # "insert" =>
        /\ x.request \in Requests'
        /\ requests'[x.request].did = x.did
        /\ requests'[x.request].requestedBy = requests[x.request].requestedBy
  BY DEF Standing, Lasting
<1>2. ASSUME x.at \in Written
      PROVE  Seconded(x.request)' /\ (x.request \in DOMAIN doomed => x.request \in DOMAIN doomed')
  <2>1. x.request \in Requests /\ Seconded(x.request)
    BY <1>2 DEF Standing, Written
  <2>2. ASSUME NEW i \in Requests, Seconded(i)
        PROVE  Seconded(i)'
    BY <2>2 DEF Lasting
  <2>3. x.request = calls'[c].request
    OBVIOUS
  <2>4. QED
    BY <2>1, <2>2, <2>3 DEF Lasting, Seconded
<1>3. ASSUME x.at = "record"
      PROVE  Emptied(x.request)'
  <2>1. x.request \in Requests /\ Emptied(x.request)
    BY <1>3 DEF Standing
  <2>2. ASSUME NEW i \in Requests, Emptied(i)
        PROVE  Emptied(i)'
    BY <2>2, EmptiedStays
  <2>3. QED
    BY <2>1, <2>2 DEF Emptied
<1>4. \A e \in audit : e \in audit'
  BY DEF Lasting
<1>5. QED
  BY <1>1, <1>2, <1>3, <1>4 DEF Standing, Reading, Written, Crossed, Logged, Entry

\* Every call under way stands after every step.
LEMMA NextStanding ==
  ASSUME ErasureInv, Next
  PROVE  \A c \in Call : calls'[c] # Idle => Standing(c)'
<1>1. TypeOK /\ Lasting /\ TypeOK' /\ \A b \in Call : calls[b] # Idle => Standing(b)
  BY NextType DEF ErasureInv
<1> DEFINE Goal == \A b \in Call : calls'[b] # Idle => Standing(b)'
<1>2. ASSUME NEW c \in Call, Only(c), calls'[c] # Idle => Standing(c)'
      PROVE  Goal
  <2>1. ASSUME NEW b \in Call, b # c, calls'[b] # Idle
        PROVE  Standing(b)'
    <3>1. calls'[b] = calls[b]
      BY <1>2, <2>1 DEF Only
    <3>2. QED
      BY <1>1, <2>1, <3>1, OthersStand
  <2>2. QED
    BY <1>2, <2>1
<1>3. ASSUME NEW c \in Call, NEW a \in Admin, NEW d \in Did, FindNone(c, a, d)
      PROVE  Goal
  <2>1. /\ Only(c)
        /\ calls'[c] = [at |-> "insert", did |-> d, actor |-> a]
    BY <1>1, <1>3 DEF FindNone, Only, TypeOK
  <2>2. Standing(c)'
    BY <2>1 DEF Standing, Reading, Written, Crossed, Logged
  <2>3. QED
    BY <1>2, <2>1, <2>2
<1>4. ASSUME NEW c \in Call, NEW a \in Admin, NEW d \in Did, FindOther(c, a, d)
      PROVE  Goal
  <2>1. PICK i \in Pending(d) :
          /\ a \notin requests[i].approvals
          /\ calls' = [calls EXCEPT ![c] =
               [at |-> "approve", did |-> d, actor |-> a, request |-> i,
                approvals |-> requests[i].approvals]]
    BY <1>4 DEF FindOther
  <2>2. i \in Requests /\ requests[i].did = d
    BY DEF Pending
  <2>3. Wellformed(i)
    BY <2>2 DEF ErasureInv
  <2>4. /\ Only(c)
        /\ calls'[c] = [at |-> "approve", did |-> d, actor |-> a, request |-> i,
                        approvals |-> requests[i].approvals]
    BY <1>1, <2>1 DEF Only, TypeOK
  <2>5. UNCHANGED requests
    BY <1>4 DEF FindOther
  <2>6. Standing(c)'
    BY <2>1, <2>2, <2>3, <2>4, <2>5, SameRequests
       DEF Standing, Reading, Written, Crossed, Logged, Wellformed
  <2>7. QED
    BY <1>2, <2>4, <2>6
<1>5. ASSUME NEW c \in Call, InsertRequest(c)
      PROVE  Goal
  <2> DEFINE n == Len(requests) + 1
  <2>1. /\ Only(c)
        /\ n \in Requests'
        /\ requests'[n].did = calls[c].did
        /\ calls'[c] = [at |-> "logRequested", did |-> calls[c].did,
                        actor |-> calls[c].actor, request |-> n]
    <3>1. /\ Only(c)
          /\ Requests' = Requests \cup {n}
          /\ requests'[n] =
               [did |-> calls[c].did, requestedBy |-> calls[c].actor,
                approvals |-> {calls[c].actor}, status |-> "pending"]
          /\ calls'[c] = [at |-> "logRequested", did |-> calls[c].did,
                          actor |-> calls[c].actor, request |-> n]
      BY <1>1, <1>5, InsertFacts
    <3> HIDE DEF n
    <3>2. QED
      BY <3>1
  <2> HIDE DEF n
  <2>2. Standing(c)'
    BY <2>1 DEF Standing, Reading, Written, Crossed, Logged
  <2>3. QED
    BY <1>2, <2>1, <2>2
<1>6. ASSUME NEW c \in Call, Return(c)
      PROVE  Goal
  BY <1>1, <1>2, <1>6, ReturnIdles
<1>7. ASSUME NEW c \in Call, WriteApprovals(c)
      PROVE  Goal
  <2> DEFINE x == calls[c]
             approvals == x.approvals \cup {x.actor}
  <2>1. /\ x.request \in Requests
        /\ Requests' = Requests
        /\ requests'[x.request].did = requests[x.request].did
        /\ requests'[x.request].requestedBy = requests[x.request].requestedBy
        /\ requests'[x.request].approvals = approvals
        /\ Only(c)
        /\ calls'[c] = [at |-> "logApproved", did |-> x.did, actor |-> x.actor,
                        request |-> x.request, approvals |-> approvals]
    <3>1. /\ x.request \in Requests
          /\ Requests' = Requests
          /\ requests'[x.request] =
               [did |-> requests[x.request].did,
                requestedBy |-> requests[x.request].requestedBy,
                approvals |-> approvals, status |-> requests[x.request].status]
          /\ Only(c)
          /\ calls'[c] = [at |-> "logApproved", did |-> x.did, actor |-> x.actor,
                          request |-> x.request, approvals |-> approvals]
      BY <1>7, ApprovalFacts
    <3> HIDE DEF approvals
    <3>2. QED
      BY <3>1
  <2>2. /\ requests[x.request].did = x.did
        /\ requests[x.request].requestedBy \in x.approvals
        /\ requests[x.request].requestedBy # x.actor
        /\ IsFiniteSet(x.approvals)
    BY <1>7 DEF ErasureInv, Standing, WriteApprovals, At, Reading
  <2>3. IsFiniteSet(approvals)
    BY <2>2, FS_AddElement
  <2>4. Cardinality(approvals) >= Threshold => x.request \in DOMAIN doomed'
    BY <1>7, DoomedFacts
  <2>5. Seconded(calls[c].request)'
    BY <2>1, <2>2 DEF Seconded
  <2> HIDE DEF approvals
  <2>6. Standing(c)'
    BY <2>1, <2>2, <2>3, <2>4, <2>5, x.actor \in approvals
       DEF Standing, Reading, Written, Crossed, Logged, Seconded, approvals
  <2>7. QED
    BY <1>2, <2>1, <2>6
<1>8. ASSUME NEW c \in Call, LogApproved(c)
      PROVE  Goal
  <2> DEFINE x == calls[c]
  <2>1. CASE Cardinality(x.approvals) < Threshold
    BY <1>6, <1>8, <2>1 DEF LogApproved
  <2>2. CASE ~(Cardinality(x.approvals) < Threshold)
    <3>1. /\ x # Idle /\ x.at = "logApproved"
          /\ GoTo(c, "logExecuted")
          /\ audit' = audit \cup {Entry(x.request, x.actor, "approved")}
          /\ UNCHANGED <<vault, requests, doomed>>
      BY <1>8, <2>2 DEF LogApproved, At
    <3>2. /\ Only(c)
          /\ calls'[c] = [at |-> "logExecuted", did |-> x.did, actor |-> x.actor,
                          request |-> x.request, approvals |-> x.approvals]
      BY <1>1, <3>1, GoToMoves DEF Reading
    <3>3. Standing(c)
      BY <1>1, <3>1
    <3>4. Cardinality(x.approvals) >= Threshold
      <4>1. Cardinality(x.approvals) \in Nat
        BY <3>1, <3>3, FS_CardinalityType DEF Standing, Reading
      <4>2. QED
        BY <2>2, <4>1, ErasureAssumption
    <3>5. Standing(c)'
      BY <3>1, <3>2, <3>3, <3>4, SameRequests
         DEF Standing, Reading, Written, Crossed, Logged, Seconded
    <3>6. QED
      BY <1>2, <3>2, <3>5
  <2>3. QED
    BY <2>1, <2>2
<1>9. ASSUME NEW c \in Call, LogExecuted(c)
      PROVE  Goal
  <2> DEFINE x == calls[c]
  <2>1. /\ x # Idle /\ x.at = "logExecuted"
        /\ GoTo(c, "erase")
        /\ audit' = audit \cup {Entry(x.request, x.actor, "executed")}
        /\ UNCHANGED <<vault, requests, doomed>>
    BY <1>9 DEF LogExecuted, At
  <2>2. /\ Only(c)
        /\ calls'[c] = [at |-> "erase", did |-> x.did, actor |-> x.actor,
                        request |-> x.request, approvals |-> x.approvals]
    BY <1>1, <2>1, GoToMoves DEF Reading
  <2>3. Standing(c)
    BY <1>1, <2>1
  <2>4. Standing(c)'
    BY <2>1, <2>2, <2>3, SameRequests
       DEF Standing, Reading, Written, Crossed, Logged, Seconded
  <2>5. QED
    BY <1>2, <2>2, <2>4
<1>10. ASSUME NEW c \in Call, EraseAllForUser(c)
       PROVE  Goal
  <2> DEFINE x == calls[c]
  <2>1. /\ x # Idle /\ x.at = "erase"
        /\ GoTo(c, "record")
        /\ vault' = [vault EXCEPT ![x.did] = {}]
        /\ UNCHANGED <<requests, audit, doomed>>
    BY <1>10 DEF EraseAllForUser, At
  <2>2. /\ Only(c)
        /\ calls'[c] = [at |-> "record", did |-> x.did, actor |-> x.actor,
                        request |-> x.request, approvals |-> x.approvals]
    BY <1>1, <2>1, GoToMoves DEF Reading
  <2>3. Standing(c)
    BY <1>1, <2>1
  <2>4. vault'[x.did] = {}
    BY <1>1, <2>1, CallKinds DEF TypeOK
  <2>5. x.request \in DOMAIN doomed /\ requests[x.request].did = x.did
    BY <2>1, <2>3 DEF Standing, Written, Crossed
  <2>6. Emptied(calls[c].request)'
    BY <2>1, <2>2, <2>4, <2>5 DEF Emptied
  <2>7. Standing(c)'
    BY <2>1, <2>2, <2>3, <2>6, SameRequests
       DEF Standing, Reading, Written, Crossed, Logged, Seconded, Emptied
  <2>8. QED
    BY <1>2, <2>2, <2>7
<1>11. ASSUME NEW d \in Did, StoreField(d)
       PROVE  Goal
  BY <1>1, <1>11, OthersStand DEF StoreField
<1>12. QED
  BY <1>3, <1>4, <1>5, <1>6, <1>7, <1>8, <1>9, <1>10, <1>11
     DEF Next, LogRequested, RecordExecuted, Fail

\* Every request stays well formed.
LEMMA NextWellformed ==
  ASSUME ErasureInv, Next
  PROVE  \A i \in Requests' : Wellformed(i)'
<1> DEFINE Goal == \A i \in Requests' : Wellformed(i)'
<1>1. TypeOK /\ Lasting
  BY NextType DEF ErasureInv
<1>2. ASSUME NEW i \in Requests, Emptied(i)
      PROVE  Emptied(i)'
  BY <1>1, <1>2, EmptiedStays
<1>3. ASSUME NEW i \in Requests, requests'[i] = requests[i]
      PROVE  Wellformed(i)'
  BY <1>2, <1>3 DEF ErasureInv, Wellformed
<1>4. ASSUME UNCHANGED requests
      PROVE  Goal
  BY <1>3, <1>4, SameRequests
<1>5. ASSUME NEW c \in Call, InsertRequest(c)
      PROVE  Goal
  <2> DEFINE n == Len(requests) + 1
  <2>1. /\ Requests' = Requests \cup {n}
        /\ \A i \in Requests : requests'[i] = requests[i]
        /\ requests'[n] =
             [did |-> calls[c].did, requestedBy |-> calls[c].actor,
              approvals |-> {calls[c].actor}, status |-> "pending"]
    BY <1>1, <1>5, InsertFacts
  <2>2. IsFiniteSet({calls[c].actor})
    BY FS_Singleton
  <2> HIDE DEF n
  <2>3. ASSUME NEW i, i = n
        PROVE  Wellformed(i)'
    BY <2>1, <2>2, <2>3 DEF Wellformed
  <2>4. QED
    BY <1>3, <2>1, <2>3
<1>6. ASSUME NEW c \in Call, WriteApprovals(c)
      PROVE  Goal
  <2> DEFINE x == calls[c]
             approvals == x.approvals \cup {x.actor}
  <2>1. /\ x.request \in Requests
        /\ Requests' = Requests
        /\ \A i \in Requests : i # x.request => requests'[i] = requests[i]
        /\ requests'[x.request] =
             [did |-> requests[x.request].did,
              requestedBy |-> requests[x.request].requestedBy,
              approvals |-> approvals, status |-> requests[x.request].status]
    BY <1>6, ApprovalFacts
  <2>2. requests[x.request].requestedBy \in x.approvals /\ IsFiniteSet(x.approvals)
    BY <1>6 DEF ErasureInv, Standing, WriteApprovals, At, Reading
  <2>3. requests[x.request].requestedBy \in approvals /\ IsFiniteSet(approvals)
    BY <2>2, FS_AddElement
  <2> HIDE DEF approvals
  <2>4. ASSUME NEW i \in Requests, i = x.request
        PROVE  Wellformed(i)'
    <3>1. requests'[i].status = "executed" => Emptied(i)'
      BY <1>2, <2>1, <2>4 DEF ErasureInv, Wellformed
    <3>2. QED
      BY <2>1, <2>3, <2>4, <3>1 DEF Wellformed
  <2>5. QED
    BY <1>3, <2>1, <2>4
<1>7. ASSUME NEW c \in Call, RecordExecuted(c)
      PROVE  Goal
  <2> DEFINE x == calls[c]
  <2>1. /\ x.request \in Requests
        /\ Requests' = Requests
        /\ \A i \in Requests : i # x.request => requests'[i] = requests[i]
        /\ requests'[x.request] =
             [did |-> requests[x.request].did,
              requestedBy |-> requests[x.request].requestedBy,
              approvals |-> requests[x.request].approvals, status |-> "executed"]
    BY <1>7, RecordFacts
  <2>2. Emptied(x.request)
    BY <1>7 DEF ErasureInv, Standing, RecordExecuted, At
  <2>3. ASSUME NEW i \in Requests, i = x.request
        PROVE  Wellformed(i)'
    <3>1. Emptied(i)'
      BY <1>2, <2>2, <2>3 DEF Emptied
    <3>2. QED
      BY <2>1, <2>3, <3>1 DEF ErasureInv, Wellformed
  <2>4. QED
    BY <1>3, <2>1, <2>3
<1>8. QED
  BY <1>4, <1>5, <1>6, <1>7
     DEF Next, FindNone, FindOther, LogRequested, LogApproved, LogExecuted,
         EraseAllForUser, Fail, StoreField

\* An execution is logged by the admin whose approval is in the log.
LEMMA NextSound ==
  ASSUME ErasureInv, Next
  PROVE  \A e \in audit' : Sound(e)'
<1>1. TypeOK /\ Lasting
  BY NextType DEF ErasureInv
<1>2. ASSUME NEW e \in audit
      PROVE  Sound(e)'
  <2>1. Sound(e) /\ e.request \in Requests
    BY <1>1 DEF ErasureInv, TypeOK
  <2>2. requests'[e.request].requestedBy = requests[e.request].requestedBy
    BY <1>1, <2>1 DEF Lasting
  <2>3. QED
    BY <1>1, <2>1, <2>2 DEF Sound, Lasting
<1>3. ASSUME NEW c \in Call, LogExecuted(c)
      PROVE  \A e \in audit' : Sound(e)'
  <2> DEFINE x == calls[c]
  <2>1. /\ x # Idle /\ x.at = "logExecuted"
        /\ audit' = audit \cup {Entry(x.request, x.actor, "executed")}
        /\ UNCHANGED requests
    BY <1>3 DEF LogExecuted, At
  <2>2. Standing(c)
    BY <2>1 DEF ErasureInv
  <2>3. ASSUME NEW e, e = Entry(x.request, x.actor, "executed")
        PROVE  Sound(e)'
    BY <2>1, <2>2, <2>3 DEF Standing, Reading, Crossed, Sound, Entry
  <2>4. QED
    BY <1>2, <2>1, <2>3
<1>4. ASSUME NEW i, NEW a, NEW action, action # "executed",
             audit' = audit \cup {Entry(i, a, action)}
      PROVE  \A e \in audit' : Sound(e)'
  BY <1>2, <1>4 DEF Sound, Entry
<1>5. QED
  BY <1>2, <1>3, <1>4
     DEF Next, FindNone, FindOther, InsertRequest, WriteApprovals, LogRequested,
         LogApproved, EraseAllForUser, RecordExecuted, Fail, StoreField

LEMMA NextErasureInv ==
  ASSUME ErasureInv, [Next]_vars
  PROVE  ErasureInv'
<1>1. CASE Next
  BY <1>1, NextType, NextStanding, NextWellformed, NextSound DEF ErasureInv
<1>2. CASE UNCHANGED vars
  BY <1>2 DEF vars, ErasureInv, TypeOK, Rows, Requests, Wellformed, Emptied,
     Standing, Seconded, Sound, Reading, Written, Crossed, Logged
<1>3. QED
  BY <1>1, <1>2

LEMMA InitErasureInv == Init => ErasureInv
<1> SUFFICES ASSUME Init PROVE ErasureInv
  OBVIOUS
<1>1. TypeOK
  BY InitType
<1>2. Requests = {} /\ audit = {} /\ \A c \in Call : calls[c] = Idle
  BY DEF Init, Requests
<1>3. QED
  BY <1>1, <1>2 DEF ErasureInv

\* The invariant that everything below rests on holds in every state.
THEOREM ErasuresAreGoverned == Spec => []ErasureInv
<1>1. Init => ErasureInv
  BY InitErasureInv
<1>2. ErasureInv /\ [Next]_vars => ErasureInv'
  BY NextErasureInv
<1>3. QED
  BY <1>1, <1>2, PTL DEF Spec

-----------------------------------------------------------------------------
\* The properties that the runs check.

\* A request that is reported as executed has been carried out
\* (erasure.service.ts:84), for any number of overlapping approvals, of failed
\* calls and of rows stored meanwhile.
THEOREM ExecutedErasuresAreDone == Spec => []ExecutedRowsAreGone
<1>1. ErasureInv => ExecutedRowsAreGone
  BY DEF ErasureInv, Wellformed, Emptied, ExecutedRowsAreGone
<1>2. QED
  BY <1>1, ErasuresAreGoverned, PTL

\* The admin who executes a request has approved it and did not make it, whatever
\* the order in which overlapping approvals overwrite each other.
THEOREM ExecutorsAreSecondAdmins == Spec => []ExecutorIsSecondAdmin
<1>1. ErasureInv => ExecutorIsSecondAdmin
  <2> SUFFICES ASSUME ErasureInv, NEW e \in audit, e.action = "executed"
               PROVE  /\ Entry(e.request, e.actor, "approved") \in audit
                      /\ requests[e.request].requestedBy # e.actor
                      /\ requests[e.request].requestedBy
                           \in requests[e.request].approvals
    BY DEF ExecutorIsSecondAdmin
  <2>1. e.request \in Requests
    BY DEF ErasureInv, TypeOK
  <2>2. QED
    BY <2>1 DEF ErasureInv, Wellformed, Sound
<1>2. QED
  BY <1>1, ErasuresAreGoverned, PTL

\* A set with two members has two.
LEMMA TwoMembers ==
  ASSUME NEW S, IsFiniteSet(S), NEW a \in S, NEW b \in S, a # b
  PROVE  Cardinality(S) >= 2
<1>1. IsFiniteSet(S \ {a}) /\ Cardinality(S \ {a}) = Cardinality(S) - 1
  BY FS_RemoveElement
<1>2. b \in S \ {a}
  OBVIOUS
<1>3. Cardinality(S \ {a}) # 0
  BY <1>1, <1>2, FS_EmptySet
<1>4. Cardinality(S) \in Nat /\ Cardinality(S \ {a}) \in Nat
  BY <1>1, FS_CardinalityType
<1>5. QED
  BY <1>1, <1>3, <1>4

\* Rows disappear only when two admins approved and the log says so.  The service
\* inserts every request with DEFAULT_THRESHOLD, which is 2; with a larger one an
\* approval that overwrites others could take a request below its threshold again.
LEMMA StepsErase ==
  ASSUME Threshold = 2, ErasureInv, [Next]_vars
  PROVE  Erasures
<1> SUFFICES ASSUME NEW d \in Did, ~(vault[d] \subseteq vault'[d])
             PROVE  \E i \in Requests :
                      /\ requests[i].did = d
                      /\ Cardinality(requests[i].approvals) >= Threshold
                      /\ \E a \in Admin : Entry(i, a, "executed") \in audit
  BY DEF Erasures
<1>1. TypeOK
  BY DEF ErasureInv
<1>2. PICK c \in Call : EraseAllForUser(c)
  <2>1. ASSUME NEW e \in Did, StoreField(e)
        PROVE  vault[d] \subseteq vault'[d]
    BY <1>1, <2>1 DEF StoreField, TypeOK
  <2>2. QED
    BY <2>1 DEF Next, vars, FindNone, FindOther, InsertRequest, LogRequested,
       WriteApprovals, LogApproved, LogExecuted, RecordExecuted, Fail
<1> DEFINE x == calls[c]
<1>3. x # Idle /\ x.at = "erase" /\ vault' = [vault EXCEPT ![x.did] = {}]
  BY <1>2 DEF EraseAllForUser, At
<1>4. x.did = d
  BY <1>1, <1>3 DEF TypeOK
<1>5. /\ x.request \in Requests
      /\ requests[x.request].did = x.did
      /\ Seconded(x.request)
      /\ Entry(x.request, x.actor, "executed") \in audit
  BY <1>3 DEF ErasureInv, Standing, Written, Logged
<1>6. x.actor \in Admin
  BY <1>1, <1>3, CallKinds
<1>7. Cardinality(requests[x.request].approvals) >= 2
  <2>1. Wellformed(x.request)
    BY <1>5 DEF ErasureInv
  <2>2. QED
    BY <1>5, <2>1, TwoMembers DEF Wellformed, Seconded
<1>8. QED
  BY <1>4, <1>5, <1>6, <1>7

\* Nothing is erased on one admin's word (erasure.service.ts:78).
THEOREM NoErasureWithoutTwoAdmins ==
  ASSUME Threshold = 2
  PROVE  Spec => ErasureNeedsTwoAdmins
<1>1. ErasureInv /\ [Next]_vars => Erasures
  BY StepsErase
<1>2. QED
  BY <1>1, ErasuresAreGoverned, PTL DEF Spec, ErasureNeedsTwoAdmins
=============================================================================
