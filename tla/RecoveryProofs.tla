---------------------------- MODULE RecoveryProofs ----------------------------
(***************************************************************************)
(* What guardian recovery promises, for every number of guardians, rows,   *)
(* requests, overlapping calls and ledger clients.                         *)
(*                                                                         *)
(* A vote that is written was computed from votes read two awaits ago, and *)
(* a rebind is proposed, approved, executed and recorded by a call that    *)
(* never looks at the request again.  The invariant says for every call    *)
(* what it has established (Standing), for every request who voted for it  *)
(* (Voted), and for every proposal made on a request's behalf that the     *)
(* request had its votes and its owner was told (Backed).  All of it       *)
(* outlives the steps of other calls and of the other clients of the       *)
(* ledger (Lasting).                                                       *)
(***************************************************************************)
EXTENDS Recovery, FiniteSetTheorems, WellFoundedInduction, TLAPS

InsertingUser == [at : {"insertUser"}, did : Did]
InsertingGuardian == [at : {"insertGuardian"}, did : Did, guardian : Guardian]
InsertingRequest ==
  [at : {"insertRequest"}, did : Did, guardian : Guardian, key : Key, threshold : Nat]
Holding == [at : {"notifyProposed", "propose"}, request : Request]
Voting ==
  [at : {"checkGuardian", "writeVotes"}, request : Request, guardian : Guardian,
   votes : SUBSET Guardian]
Counting == [at : {"notifyVote"}, request : Request, votes : Nat]
Rebinding ==
  [at : {"approve", "record", "notifyExecuted"}, request : Request,
   proposal : ProposalId, approved : SUBSET Org]

CallState ==
  InsertingUser \cup InsertingGuardian \cup InsertingRequest \cup Holding
    \cup Voting \cup Counting \cup Rebinding

ProposalTypes ==
  /\ proposals \in [ProposalId -> AnyProposal \cup {Absent}]
  /\ assetCounter \in 0 .. MaxAssets

RecoveryTypes ==
  /\ ProposalTypes
  /\ guardians \in [Did -> Seq(Guardian)]
  /\ requests \in [Request -> RequestRow \cup {Absent}]
  /\ calls \in [Call -> CallState \cup {Idle}]
  /\ cast \in [Request -> SUBSET Guardian]
  /\ rebinds \in [ProposalId -> Request \cup {Absent}]
  /\ told \in [Request -> {TRUE, FALSE, Unsent}]

\* The owner was told of enough votes, or telling them failed.
Warned(r) == told[r] \in {TRUE, Unsent}

\* Enough different guardians have taken part.
HadVotes(r) == Cardinality(cast[r]) >= requests[r].threshold

\* The proposal asks the ledger for what the request asks for.
Asks(p, r) ==
  /\ rebinds[p] = r
  /\ Exists(p)
  /\ proposals[p].action = RebindAction(requests[r].did, requests[r].key)

\* What holds of a call under way.
OnRequest ==
  {"notifyProposed", "propose", "checkGuardian", "writeVotes", "notifyVote",
   "approve", "record", "notifyExecuted"}

Standing(c) ==
  LET x == calls[c]
      r == x.request
  IN  /\ x.at = "insertRequest" =>
           x.guardian \in GuardiansOf(x.did) /\ x.threshold >= 2
      /\ x.at \in OnRequest => requests[r] # Absent
      /\ x.at \in {"checkGuardian", "writeVotes"} =>
           requests[r].proposedBy \in x.votes /\ x.votes \subseteq cast[r]
      /\ x.at = "writeVotes" => x.guardian \in GuardiansOf(requests[r].did)
      /\ x.at = "notifyVote" => x.votes <= Cardinality(cast[r])
      /\ x.at = "propose" => HadVotes(r) /\ Warned(r)
      /\ x.at \in {"approve", "record"} => Asks(x.proposal, r)
      /\ x.at = "record" => proposals[x.proposal].status = "EXECUTED"

\* What holds of a request.
Voted(r) ==
  /\ IsFiniteSet(cast[r])
  /\ cast[r] \subseteq GuardiansOf(requests[r].did)
  /\ requests[r].proposedBy \in requests[r].votes
  /\ requests[r].votes \subseteq cast[r]
  /\ requests[r].threshold >= 2

Executed(r) ==
  \E p \in ProposalId : Asks(p, r) /\ proposals[p].status = "EXECUTED"

\* What holds of a proposal that was made for a request.
Backed(p) ==
  LET r == rebinds[p]
  IN  requests[r] # Absent /\ HadVotes(r) /\ Warned(r)

RecoveryInv ==
  /\ RecoveryTypes
  /\ \A c \in Call : calls[c] # Idle => Standing(c)
  /\ \A r \in Request : requests[r] # Absent => Voted(r)
  /\ \A r \in Request :
       requests[r] # Absent /\ requests[r].status = "executed" => Executed(r)
  /\ \A p \in ProposalId : rebinds[p] # Absent => Backed(p)

\* What no step undoes.
ProposalsLast ==
  \A p \in ProposalId : Exists(p) =>
    /\ Exists(p)'
    /\ proposals'[p].action = proposals[p].action
    /\ proposals[p].status = "EXECUTED" => proposals'[p].status = "EXECUTED"

RebindsLast == \A p \in ProposalId : Exists(p) => rebinds'[p] = rebinds[p]

RequestsLast ==
  \A r \in Request : requests[r] # Absent =>
    /\ requests'[r] # Absent
    /\ requests'[r].did = requests[r].did
    /\ requests'[r].key = requests[r].key
    /\ requests'[r].proposedBy = requests[r].proposedBy
    /\ requests'[r].threshold = requests[r].threshold

CastLasts ==
  \A r \in Request : requests[r] # Absent =>
    /\ cast[r] \subseteq cast'[r]
    /\ IsFiniteSet(cast[r]) => IsFiniteSet(cast'[r])

GuardiansLast == \A d \in Did : GuardiansOf(d) \subseteq GuardiansOf(d)'
WarningsLast == \A r \in Request : Warned(r) => Warned(r)'

Lasting ==
  /\ ProposalsLast
  /\ RebindsLast
  /\ RequestsLast
  /\ CastLasts
  /\ GuardiansLast
  /\ WarningsLast

-----------------------------------------------------------------------------
\* What a ledger transaction does to a proposal, whoever submits it.

\* A set of natural numbers has a least one.
LEMMA Least ==
  ASSUME NEW S, S \subseteq Nat, S # {}
  PROVE  \E m \in S : \A n \in S : m <= n
<1>1. PICK m \in S : \A n \in S : <<n, m>> \notin OpToRel(<, Nat)
  BY WFMin, NatLessThanWellFounded
<1>2. \A n \in S : ~(n < m)
  BY <1>1 DEF OpToRel
<1>3. QED
  BY <1>2

LEMMA FirstOrg == OrgKeys[1] \in Org
<1>1. 1 \in DOMAIN OrgKeys
  BY OrgKeysAssumption
<1>2. QED
  BY <1>1, OrgKeysAssumption

\* The next organization in the order of ORG_KEYS is one.
LEMMA NextOrgIsOne ==
  ASSUME NEW approved, Org \ approved # {}
  PROVE  NextOrg(approved) \in Org
<1> DEFINE S == {i \in DOMAIN OrgKeys : OrgKeys[i] \notin approved}
<1>1. DOMAIN OrgKeys = 1 .. Len(OrgKeys) /\ Len(OrgKeys) \in Nat
  BY OrgKeysAssumption
<1>2. S \subseteq Nat /\ S # {}
  BY <1>1, OrgKeysAssumption
<1>3. PICK m \in S : \A n \in S : m <= n
  BY <1>2, Least
<1>4. \A j \in 1 .. (m - 1) : OrgKeys[j] \in approved
  BY <1>1, <1>3
<1>5. \E i \in DOMAIN OrgKeys :
        /\ OrgKeys[i] \notin approved
        /\ \A j \in 1 .. (i - 1) : OrgKeys[j] \in approved
  BY <1>3, <1>4
<1>6. QED
  BY <1>5, OrgKeysAssumption DEF NextOrg

LEMMA ProposingAny ==
  ASSUME ProposalTypes, NEW org \in Org, NEW p \in ProposalId,
         NEW a \in PrivilegedAction, NEW t \in TxTime, ProposeAction(org, p, a, t)
  PROVE  /\ ProposalTypes'
         /\ ProposalsLast
         /\ Exists(p)' /\ proposals'[p].action = a
<1> DEFINE pr == NewProposal(org, a, t)
<1>1. t \in Time /\ t + TTL \in Nat
  BY ParametersAssumption DEF TxTime, Time
<1>2. <<[org |-> org, at |-> t]>> \in Seq(Approval)
  BY <1>1 DEF Approval
<1>3. pr \in AnyProposal /\ pr.action = a
  BY <1>1, <1>2 DEF AnyProposal, NewProposal
<1>4. /\ ~Exists(p)
      /\ proposals' = [proposals EXCEPT ![p] = pr]
      /\ UNCHANGED assetCounter
  BY DEF ProposeAction, registries
<1> HIDE DEF pr
<1>5. QED
  BY <1>3, <1>4, RowsAssumption DEF ProposalTypes, ProposalsLast, Exists

\* One proposal changes, keeps its action, and stays executed if it was.
LEMMA ChangingOne ==
  ASSUME ProposalTypes, NEW p \in ProposalId, Exists(p),
         NEW pr \in AnyProposal, proposals' = [proposals EXCEPT ![p] = pr],
         pr.action = proposals[p].action,
         proposals[p].status = "EXECUTED" => pr.status = "EXECUTED",
         assetCounter' \in 0 .. MaxAssets
  PROVE  ProposalTypes' /\ ProposalsLast
  BY RowsAssumption DEF ProposalTypes, ProposalsLast, Exists

LEMMA ApprovingAny ==
  ASSUME ProposalTypes, NEW org \in Org, NEW p \in ProposalId, NEW t \in TxTime,
         ApproveProposal(org, p, t)
  PROVE  ProposalTypes' /\ ProposalsLast
<1> DEFINE ap == Append(proposals[p].approvals, [org |-> org, at |-> t])
<1>1. Exists(p) /\ proposals[p] \in AnyProposal
  BY DEF ApproveProposal, CanApprove, HasStatus, Exists, ProposalTypes
<1>2. ap \in Seq(Approval)
  BY <1>1 DEF AnyProposal, Approval, TxTime
<1>3. proposals' = [proposals EXCEPT ![p] = [proposals[p] EXCEPT !.approvals = ap]]
  BY DEF ApproveProposal, WithApproval
<1>4. /\ [proposals[p] EXCEPT !.approvals = ap] \in AnyProposal
      /\ [proposals[p] EXCEPT !.approvals = ap].action = proposals[p].action
      /\ [proposals[p] EXCEPT !.approvals = ap].status = proposals[p].status
  BY <1>1, <1>2 DEF AnyProposal
<1>5. assetCounter' \in 0 .. MaxAssets
  BY DEF ApproveProposal, registries, ProposalTypes
<1> HIDE DEF ap
<1>6. QED
  BY <1>1, <1>3, <1>4, <1>5, ChangingOne

LEMMA ExecutingAny ==
  ASSUME ProposalTypes, NEW p \in ProposalId, NEW t \in TxTime, ExecuteProposal(p, t)
  PROVE  /\ ProposalTypes'
         /\ ProposalsLast
         /\ proposals'[p].status = "EXECUTED"
<1> DEFINE a == proposals[p].action
           result == IF a.type = "MINT_ASSET" THEN assetCounter ELSE Absent
           pr == [proposals[p] EXCEPT !.status = "EXECUTED", !.executedAt = t,
                                      !.result = result]
<1>1. Exists(p) /\ proposals[p] \in AnyProposal /\ t \in Time
  BY DEF ExecuteProposal, CanExecute, HasStatus, Exists, ProposalTypes, TxTime
<1>2. Dispatch(a, t)
  BY DEF ExecuteProposal
<1>3. a.type = "MINT_ASSET" => assetCounter \in AssetId
  BY <1>2, ParametersAssumption DEF Dispatch, Mint, ProposalTypes, AssetId
<1>4. assetCounter' \in 0 .. MaxAssets
  <2>1. CASE UNCHANGED assetCounter
    BY <2>1 DEF ProposalTypes
  <2>2. CASE assetCounter < MaxAssets /\ assetCounter' = assetCounter + 1
    BY <2>2, ParametersAssumption DEF ProposalTypes
  <2>3. QED
    BY <1>2, <2>1, <2>2
       DEF Dispatch, Mint, GrantRoleWithExpiry, RevokeRoleEarly, Transfer,
           UpdateDidController
<1>5. result \in AssetId \cup {Absent}
  BY <1>3
<1>6. proposals' = [proposals EXCEPT ![p] = pr]
  BY DEF ExecuteProposal, AsExecuted
<1> HIDE DEF result
<1>7. pr \in AnyProposal /\ pr.action = a /\ pr.status = "EXECUTED"
  BY <1>1, <1>5 DEF AnyProposal
<1> HIDE DEF pr
<1>8. ProposalTypes' /\ ProposalsLast
  BY <1>1, <1>4, <1>6, <1>7, ChangingOne
<1>9. proposals'[p] = pr
  BY <1>6 DEF ProposalTypes
<1>10. QED
  BY <1>7, <1>8, <1>9

LEMMA CancellingAny ==
  ASSUME ProposalTypes, NEW org \in Org, NEW p \in ProposalId, CancelProposal(org, p)
  PROVE  ProposalTypes' /\ ProposalsLast
<1> DEFINE pr == [proposals[p] EXCEPT !.status = "CANCELLED"]
<1>1. /\ Exists(p) /\ proposals[p].status = "PENDING"
      /\ proposals[p] \in AnyProposal
      /\ assetCounter' \in 0 .. MaxAssets
  BY DEF CancelProposal, CanCancel, HasStatus, Exists, ProposalTypes, registries
<1>2. pr \in AnyProposal /\ pr.action = proposals[p].action
  BY <1>1 DEF AnyProposal
<1>3. proposals' = [proposals EXCEPT ![p] = pr]
  BY DEF CancelProposal
<1> HIDE DEF pr
<1>4. QED
  BY <1>1, <1>2, <1>3, ChangingOne

LEMMA RegisteringAny ==
  ASSUME ProposalTypes, NEW d, NEW key, RegisterDID(d, key)
  PROVE  ProposalTypes' /\ ProposalsLast
  BY DEF RegisterDID, RegisterDid, ProposalTypes, ProposalsLast, Exists

LEMMA LedgerSteps ==
  ASSUME ProposalTypes, [Next]_vars
  PROVE  ProposalTypes' /\ ProposalsLast
<1>1. CASE UNCHANGED <<proposals, assetCounter>>
  BY <1>1 DEF ProposalTypes, ProposalsLast, Exists
<1>2. ASSUME NEW org \in Org, NEW p \in ProposalId, NEW a \in Action,
             NEW t \in TxTime, ProposeAction(org, p, a, t)
      PROVE  ProposalTypes' /\ ProposalsLast
  BY <1>2, ProposingAny, ActionAssumption
<1>3. QED
  BY <1>1, <1>2, ApprovingAny, ExecutingAny, CancellingAny, RegisteringAny
     DEF Next, Tick, registries, vars
-----------------------------------------------------------------------------
\* What a step does to the call that takes it, and leaves alone.

Only(c) == \A b \in Call : b # c => calls'[b] = calls[b]

\* The call that takes the step is now in this state.
Moves(c, x) ==
  /\ calls' \in [Call -> CallState \cup {Idle}]
  /\ Only(c)
  /\ calls'[c] = x

LEMMA Moving ==
  ASSUME RecoveryTypes, NEW c \in Call, NEW x \in CallState \cup {Idle},
         calls' = [calls EXCEPT ![c] = x]
  PROVE  Moves(c, x)
  BY DEF RecoveryTypes, Only, Moves

LEMMA CallFields ==
  ASSUME RecoveryTypes, NEW c \in Call, calls[c] # Idle
  PROVE  /\ calls[c].at = "insertGuardian" => calls[c] \in InsertingGuardian
         /\ calls[c].at = "insertRequest" => calls[c] \in InsertingRequest
         /\ calls[c].at \in {"notifyProposed", "propose"} => calls[c] \in Holding
         /\ calls[c].at \in {"checkGuardian", "writeVotes"} => calls[c] \in Voting
         /\ calls[c].at = "notifyVote" => calls[c] \in Counting
         /\ calls[c].at \in {"approve", "record", "notifyExecuted"} =>
              calls[c] \in Rebinding
<1>1. calls[c] \in CallState
  BY DEF RecoveryTypes
<1>2. QED
  BY <1>1 DEF CallState, InsertingUser, InsertingGuardian, InsertingRequest, Holding,
              Voting, Counting, Rebinding

LEMMA OnRequestFields ==
  ASSUME RecoveryTypes, NEW c \in Call, calls[c] # Idle, calls[c].at \in OnRequest
  PROVE  calls[c].request \in Request
  BY CallFields DEF OnRequest, Holding, Voting, Counting, Rebinding

\* Calls that leave the ledger alone.
LEMMA KeepsLedger ==
  ASSUME ProposalTypes, UNCHANGED vars
  PROVE  ProposalTypes' /\ ProposalsLast
  BY DEF ProposalTypes, ProposalsLast, Exists, vars, registries

LEMMA KeepsRebinds ==
  ASSUME RecoveryTypes, UNCHANGED rebinds
  PROVE  rebinds' \in [ProposalId -> Request \cup {Absent}] /\ RebindsLast
  BY DEF RecoveryTypes, RebindsLast

LEMMA KeepsRequests ==
  ASSUME RecoveryTypes, UNCHANGED requests
  PROVE  requests' \in [Request -> RequestRow \cup {Absent}] /\ RequestsLast
  BY DEF RecoveryTypes, RequestsLast

LEMMA KeepsCast ==
  ASSUME RecoveryTypes, UNCHANGED cast
  PROVE  cast' \in [Request -> SUBSET Guardian] /\ CastLasts
  BY DEF RecoveryTypes, CastLasts

LEMMA KeepsGuardians ==
  ASSUME RecoveryTypes, UNCHANGED guardians
  PROVE  guardians' \in [Did -> Seq(Guardian)] /\ GuardiansLast
  BY DEF RecoveryTypes, GuardiansLast, GuardiansOf

LEMMA KeepsTold ==
  ASSUME RecoveryTypes, UNCHANGED told
  PROVE  told' \in [Request -> {TRUE, FALSE, Unsent}] /\ WarningsLast
  BY DEF RecoveryTypes, WarningsLast, Warned

\* A notification of enough votes warns the owner, and no notification unwarns.
LEMMA Notifying ==
  ASSUME RecoveryTypes, NEW r \in Request, NEW votes, DispatchNotification(r, votes)
  PROVE  /\ told' \in [Request -> {TRUE, FALSE, Unsent}]
         /\ WarningsLast
         /\ ~(votes < requests[r].threshold) => Warned(r)'
<1>1. told \in [Request -> {TRUE, FALSE, Unsent}]
  BY DEF RecoveryTypes
<1>2. ASSUME NEW v \in {TRUE, Unsent}, told' = [told EXCEPT ![r] = v]
      PROVE  /\ told' \in [Request -> {TRUE, FALSE, Unsent}]
             /\ WarningsLast
             /\ Warned(r)'
  BY <1>1, <1>2 DEF WarningsLast, Warned
<1>3. CASE told' = [told EXCEPT ![r] = told[r]]
  <2>1. told' = told
    BY <1>1, <1>3
  <2>2. told[r] # Unsent => votes < requests[r].threshold \/ told[r] = TRUE
    BY <2>1, <1>1, Zenon DEF DispatchNotification
  <2>3. QED
    BY <2>1, <2>2, <1>1 DEF WarningsLast, Warned
<1>4. \/ told' = [told EXCEPT ![r] = TRUE]
      \/ told' = [told EXCEPT ![r] = Unsent]
      \/ told' = [told EXCEPT ![r] = told[r]]
  BY <1>1 DEF DispatchNotification
<1>5. QED
  BY <1>2, <1>3, <1>4
-----------------------------------------------------------------------------
\* What was established stays so under Lasting.

LEMMA VotesLast ==
  ASSUME RecoveryTypes, RecoveryTypes', Lasting, NEW r \in Request,
         requests[r] # Absent, IsFiniteSet(cast[r])
  PROVE  /\ Cardinality(cast[r]) \in Nat
         /\ Cardinality(cast'[r]) \in Nat
         /\ Cardinality(cast[r]) <= Cardinality(cast'[r])
         /\ HadVotes(r) => HadVotes(r)'
<1>1. /\ cast[r] \subseteq cast'[r]
      /\ IsFiniteSet(cast'[r])
      /\ requests'[r].threshold = requests[r].threshold
      /\ requests[r].threshold \in Nat
  BY DEF Lasting, CastLasts, RequestsLast, RecoveryTypes, RequestRow
<1>2. /\ Cardinality(cast[r]) \in Nat
      /\ Cardinality(cast'[r]) \in Nat
      /\ Cardinality(cast[r]) <= Cardinality(cast'[r])
  BY <1>1, FS_Subset, FS_CardinalityType
<1>3. QED
  BY <1>1, <1>2 DEF HadVotes

LEMMA AsksLast ==
  ASSUME Lasting, NEW r \in Request, requests[r] # Absent,
         NEW p \in ProposalId, Asks(p, r)
  PROVE  /\ Asks(p, r)'
         /\ proposals[p].status = "EXECUTED" => proposals'[p].status = "EXECUTED"
  BY DEF Asks, Lasting, ProposalsLast, RebindsLast, RequestsLast, RebindAction

LEMMA StandsStill ==
  ASSUME RecoveryInv, RecoveryTypes', Lasting, NEW c \in Call, calls[c] # Idle,
         calls'[c] = calls[c]
  PROVE  Standing(c)'
<1> DEFINE x == calls[c]
<1>1. RecoveryTypes /\ Standing(c)
  BY DEF RecoveryInv
<1>2. /\ x.at = "insertRequest" =>
           x.guardian \in GuardiansOf(x.did)' /\ x.threshold >= 2
  BY <1>1, CallFields DEF Standing, Lasting, GuardiansLast, InsertingRequest
<1>3. ASSUME x.at \in OnRequest, NEW r \in Request, r = x.request
      PROVE  Standing(c)'
  <2>1. requests[r] # Absent /\ requests'[r] # Absent
    BY <1>1, <1>3 DEF Standing, Lasting, RequestsLast
  <2>2. IsFiniteSet(cast[r]) /\ requests[r] \in RequestRow
    BY <2>1, <1>1 DEF RecoveryInv, Voted, RecoveryTypes
  <2>3. x.at \in {"checkGuardian", "writeVotes"} =>
          requests'[r].proposedBy \in x.votes /\ x.votes \subseteq cast'[r]
    BY <1>1, <1>3, <2>1 DEF Standing, Lasting, RequestsLast, CastLasts
  <2>4. x.at = "writeVotes" => x.guardian \in GuardiansOf(requests[r].did)'
    <3>1. requests[r].did \in Did /\ requests'[r].did = requests[r].did
      BY <2>1, <2>2 DEF Lasting, RequestsLast, RequestRow
    <3>2. PICK d \in Did : d = requests[r].did
      BY <3>1
    <3>3. x.at = "writeVotes" => x.guardian \in GuardiansOf(d)
      BY <1>1, <1>3, <3>2 DEF Standing
    <3>4. x.at = "writeVotes" => x.guardian \in GuardiansOf(d)'
      BY <3>3 DEF Lasting, GuardiansLast
    <3>5. QED
      BY <3>1, <3>2, <3>4 DEF GuardiansOf
  <2>5. x.at = "notifyVote" => x.votes <= Cardinality(cast'[r])
    <3>1. x.at = "notifyVote" => x.votes <= Cardinality(cast[r]) /\ x.votes \in Nat
      BY <1>1, <1>3, CallFields DEF Standing, Counting
    <3>2. QED
      BY <3>1, <1>1, <2>1, <2>2, VotesLast
  <2>6. x.at = "propose" => HadVotes(r)' /\ Warned(r)'
    <3>1. x.at = "propose" => HadVotes(r) /\ Warned(r)
      BY <1>1, <1>3 DEF Standing
    <3>2. QED
      BY <3>1, <1>1, <2>1, <2>2, VotesLast DEF Lasting, WarningsLast
  <2>7. /\ x.at \in {"approve", "record"} => Asks(x.proposal, r)'
        /\ x.at = "record" => proposals'[x.proposal].status = "EXECUTED"
    <3>1. CASE x.at \in {"approve", "record"}
      <4>1. x.proposal \in ProposalId /\ Asks(x.proposal, r)
        BY <1>1, <1>3, <3>1, CallFields DEF Standing, Rebinding
      <4>2. PICK p \in ProposalId : p = x.proposal
        BY <4>1
      <4>3. Asks(p, r)' /\ (x.at = "record" => proposals'[p].status = "EXECUTED")
        BY <1>1, <1>3, <2>1, <4>1, <4>2, AsksLast DEF Standing
      <4>4. QED
        BY <4>2, <4>3 DEF Asks, Exists
    <3>2. QED
      BY <3>1
  <2>8. QED
    BY <1>2, <1>3, <2>1, <2>3, <2>4, <2>5, <2>6, <2>7
       DEF Standing, HadVotes, Warned, GuardiansOf, Asks, Exists
<1>4. CASE x.at \notin OnRequest
  BY <1>2, <1>4 DEF Standing, OnRequest, GuardiansOf
<1>5. QED
  BY <1>1, <1>3, <1>4, OnRequestFields

LEMMA VotedStill ==
  ASSUME RecoveryTypes, Lasting, NEW r \in Request, requests[r] # Absent, Voted(r),
         UNCHANGED <<requests[r], cast[r]>>
  PROVE  Voted(r)'
<1>1. requests[r] \in RequestRow
  BY DEF RecoveryTypes
<1>2. requests[r].did \in Did
  BY <1>1 DEF RequestRow
<1>3. PICK d \in Did : d = requests[r].did
  BY <1>2
<1>4. cast[r] \subseteq GuardiansOf(d)'
  BY <1>3 DEF Voted, Lasting, GuardiansLast
<1>5. QED
  BY <1>3, <1>4 DEF Voted, GuardiansOf

LEMMA ExecutedStill ==
  ASSUME Lasting, NEW r \in Request, requests[r] # Absent, Executed(r)
  PROVE  Executed(r)'
<1>1. PICK p \in ProposalId : Asks(p, r) /\ proposals[p].status = "EXECUTED"
  BY DEF Executed
<1>2. Asks(p, r)' /\ proposals'[p].status = "EXECUTED"
  BY <1>1, AsksLast
<1>3. QED
  BY <1>2 DEF Executed

LEMMA BackedStill ==
  ASSUME RecoveryInv, RecoveryTypes', Lasting, NEW p \in ProposalId,
         rebinds[p] # Absent, rebinds'[p] = rebinds[p]
  PROVE  Backed(p)'
<1>1. RecoveryTypes /\ Backed(p) /\ rebinds[p] \in Request
  BY DEF RecoveryInv, RecoveryTypes
<1>2. PICK r \in Request : r = rebinds[p]
  BY <1>1
<1>3. requests[r] # Absent /\ HadVotes(r) /\ Warned(r) /\ IsFiniteSet(cast[r])
  BY <1>1, <1>2 DEF Backed, RecoveryInv, Voted
<1>4. requests'[r] # Absent /\ HadVotes(r)' /\ Warned(r)'
  BY <1>1, <1>3, VotesLast DEF Lasting, RequestsLast, WarningsLast
<1>5. QED
  BY <1>2, <1>4 DEF Backed, HadVotes, Warned
-----------------------------------------------------------------------------
\* The invariant holds after a step whose own call, request and proposal are in
\* order: everything else stands still.

LEMMA Preserved ==
  ASSUME RecoveryInv, RecoveryTypes', Lasting,
         \A b \in Call : calls'[b] = calls[b] \/ (calls'[b] # Idle => Standing(b)'),
         \A r \in Request : requests'[r] # Absent =>
           \/ UNCHANGED <<requests[r], cast[r]>>
           \/ Voted(r)' /\ (requests'[r].status = "executed" =>
                (requests[r] # Absent /\ requests[r].status = "executed") \/ Executed(r)'),
         \A p \in ProposalId : rebinds'[p] # Absent =>
           rebinds'[p] = rebinds[p] \/ Backed(p)'
  PROVE  RecoveryInv'
<1>1. \A b \in Call : calls'[b] # Idle => Standing(b)'
  BY StandsStill
<1>2. ASSUME NEW r \in Request, requests'[r] # Absent
      PROVE  Voted(r)' /\ (requests'[r].status = "executed" => Executed(r)')
  <2>1. requests[r] # Absent =>
          Voted(r) /\ (requests[r].status = "executed" => Executed(r))
    BY DEF RecoveryInv
  <2>2. requests[r] # Absent /\ requests[r].status = "executed" => Executed(r)'
    BY <2>1, ExecutedStill
  <2>3. CASE UNCHANGED <<requests[r], cast[r]>>
    <3>1. Voted(r)'
      BY <1>2, <2>1, <2>3, VotedStill DEF RecoveryInv
    <3>2. QED
      BY <1>2, <2>2, <2>3, <3>1
  <2>4. QED
    BY <1>2, <2>2, <2>3
<1>3. \A p \in ProposalId : rebinds'[p] # Absent => Backed(p)'
  BY BackedStill
<1>4. QED
  BY <1>1, <1>2, <1>3 DEF RecoveryInv

LEMMA InitRecovery == RecoveryInit => RecoveryInv
<1> SUFFICES ASSUME RecoveryInit
             PROVE  RecoveryInv
  OBVIOUS
<1>1. ProposalTypes
  BY ParametersAssumption DEF RecoveryInit, Init, ProposalTypes
<1>2. /\ guardians \in [Did -> Seq(Guardian)]
      /\ requests \in [Request -> RequestRow \cup {Absent}]
      /\ calls \in [Call -> CallState \cup {Idle}]
      /\ cast \in [Request -> SUBSET Guardian]
      /\ rebinds \in [ProposalId -> Request \cup {Absent}]
  BY DEF RecoveryInit
<1>3. told \in [Request -> {TRUE, FALSE, Unsent}]
  BY DEF RecoveryInit
<1>4. /\ \A c \in Call : calls[c] = Idle
      /\ \A r \in Request : requests[r] = Absent
      /\ \A p \in ProposalId : rebinds[p] = Absent
  BY DEF RecoveryInit
<1>5. QED
  BY <1>1, <1>2, <1>3, <1>4 DEF RecoveryInv, RecoveryTypes

\* A step that moves a call, submits to the ledger, and may write users.
LEMMA LedgerMoving ==
  ASSUME RecoveryInv, NEW c \in Call, NEW x \in CallState \cup {Idle},
         calls' = [calls EXCEPT ![c] = x],
         ProposalTypes', ProposalsLast,
         UNCHANGED <<guardians, requests, told, cast, rebinds>>
  PROVE  /\ RecoveryTypes'
         /\ Lasting
         /\ calls'[c] = x
         /\ (x # Idle => Standing(c)') => RecoveryInv'
<1>1. RecoveryTypes
  BY DEF RecoveryInv
<1>2. Moves(c, x)
  BY <1>1, Moving
<1>3. RecoveryTypes' /\ Lasting
  BY <1>1, <1>2, KeepsRebinds, KeepsRequests, KeepsCast, KeepsGuardians, KeepsTold
     DEF RecoveryTypes, Lasting, Moves
<1>4. calls'[c] = x /\ Only(c)
  BY <1>2 DEF Moves
<1>5. ASSUME x # Idle => Standing(c)'
      PROVE  RecoveryInv'
  <2>1. \A b \in Call : calls'[b] = calls[b] \/ (calls'[b] # Idle => Standing(b)')
    BY <1>4, <1>5 DEF Only
  <2>2. QED
    BY <1>3, <2>1, Preserved
<1>6. QED
  BY <1>3, <1>4, <1>5

\* A step that only moves a call.
LEMMA OnlyMoving ==
  ASSUME RecoveryInv, NEW c \in Call, NEW x \in CallState \cup {Idle},
         calls' = [calls EXCEPT ![c] = x],
         UNCHANGED <<vars, guardians, requests, told, cast, rebinds>>
  PROVE  /\ RecoveryTypes'
         /\ Lasting
         /\ calls'[c] = x
         /\ (x # Idle => Standing(c)') => RecoveryInv'
<1>1. ProposalTypes' /\ ProposalsLast
  BY KeepsLedger DEF RecoveryInv, RecoveryTypes
<1>2. QED
  BY <1>1, LedgerMoving

LEMMA Returning ==
  ASSUME RecoveryInv, NEW c \in Call, Return(c),
         UNCHANGED <<vars, guardians, requests, told, cast, rebinds>>
  PROVE  RecoveryInv'
<1>1. calls' = [calls EXCEPT ![c] = Idle]
  BY DEF Return
<1>2. QED
  BY <1>1, OnlyMoving

\* The next step of a call that stays in its kind.
LEMMA VotingOnward ==
  ASSUME NEW x \in Voting
  PROVE  /\ [x EXCEPT !.at = "writeVotes"] \in Voting
         /\ [x EXCEPT !.at = "writeVotes"].at = "writeVotes"
         /\ [x EXCEPT !.at = "writeVotes"].request = x.request
         /\ [x EXCEPT !.at = "writeVotes"].guardian = x.guardian
         /\ [x EXCEPT !.at = "writeVotes"].votes = x.votes
  BY DEF Voting

LEMMA RebindingOnward ==
  ASSUME NEW x \in Rebinding, NEW step \in {"record", "notifyExecuted"}
  PROVE  /\ [x EXCEPT !.at = step] \in Rebinding
         /\ [x EXCEPT !.at = step].at = step
         /\ [x EXCEPT !.at = step].request = x.request
         /\ [x EXCEPT !.at = step].proposal = x.proposal
  BY DEF Rebinding

\* "Math.ceil(n / 2) + 1" of at least one guardian is at least two.
LEMMA TwoVotes ==
  ASSUME NEW n \in Nat, n >= 1
  PROVE  RequiredVotes(n) \in Nat /\ RequiredVotes(n) >= 2
  BY DEF RequiredVotes
-----------------------------------------------------------------------------
\* One lemma per action.

LEMMA RegisterOnLedgerSafe ==
  ASSUME RecoveryInv, NEW c \in Call, NEW d \in Did, RegisterOnLedger(c, d)
  PROVE  RecoveryInv'
<1> DEFINE x == [at |-> "insertUser", did |-> d]
<1>1. ProposalTypes' /\ ProposalsLast
  BY RegisteringAny DEF RecoveryInv, RecoveryTypes, RegisterOnLedger
<1>2. x \in CallState
  BY DEF CallState, InsertingUser
<1>3. /\ calls' = [calls EXCEPT ![c] = x]
      /\ UNCHANGED <<guardians, requests, told, cast, rebinds>>
  BY DEF RegisterOnLedger, Begin, tables
<1>4. x.at = "insertUser"
  OBVIOUS
<1> HIDE DEF x
<1>5. calls'[c] = x /\ ((x # Idle => Standing(c)') => RecoveryInv')
  BY <1>1, <1>2, <1>3, LedgerMoving
<1>6. Standing(c)'
  BY <1>4, <1>5 DEF Standing, OnRequest
<1>7. QED
  BY <1>5, <1>6

LEMMA CheckControllerSafe ==
  ASSUME RecoveryInv, NEW c \in Call, NEW d \in Did, NEW g \in Guardian,
         CheckController(c, g, d)
  PROVE  RecoveryInv'
<1> DEFINE x == [at |-> "insertGuardian", did |-> d, guardian |-> g]
<1>1. x \in CallState /\ x.at = "insertGuardian"
  BY DEF CallState, InsertingGuardian
<1>2. /\ calls' = [calls EXCEPT ![c] = x]
      /\ UNCHANGED <<vars, guardians, requests, told, cast, rebinds>>
  BY DEF CheckController, Begin, tables
<1> HIDE DEF x
<1>3. calls'[c] = x /\ ((x # Idle => Standing(c)') => RecoveryInv')
  BY <1>1, <1>2, OnlyMoving
<1>4. Standing(c)'
  BY <1>1, <1>3 DEF Standing, OnRequest
<1>5. QED
  BY <1>3, <1>4

LEMMA ReadGuardiansSafe ==
  ASSUME RecoveryInv, NEW c \in Call, NEW d \in Did, NEW g \in Guardian,
         NEW key \in Key, ReadGuardians(c, g, d, key)
  PROVE  RecoveryInv'
<1> DEFINE n == RequiredVotes(Len(guardians[d]))
           x == [at |-> "insertRequest", did |-> d, guardian |-> g, key |-> key,
                 threshold |-> n]
<1>1. /\ g \in GuardiansOf(d)
      /\ calls' = [calls EXCEPT ![c] = x]
      /\ UNCHANGED <<vars, guardians, requests, told, cast, rebinds>>
  BY DEF ReadGuardians, Begin, tables
<1>2. guardians[d] \in Seq(Guardian)
  BY DEF RecoveryInv, RecoveryTypes
<1>3. Len(guardians[d]) \in Nat /\ Len(guardians[d]) >= 1
  BY <1>1, <1>2 DEF GuardiansOf
<1>4. n \in Nat /\ n >= 2
  BY <1>3, TwoVotes
<1> HIDE DEF n
<1>5. /\ x \in CallState
      /\ x.at = "insertRequest"
      /\ x.guardian = g
      /\ x.did = d
      /\ x.threshold = n
  BY <1>4 DEF CallState, InsertingRequest
<1> HIDE DEF x
<1>6. calls'[c] = x /\ ((x # Idle => Standing(c)') => RecoveryInv')
  BY <1>1, <1>5, OnlyMoving
<1>7. g \in GuardiansOf(d)'
  BY <1>1 DEF GuardiansOf
<1>8. Standing(c)'
  BY <1>4, <1>5, <1>6, <1>7 DEF Standing, OnRequest, GuardiansOf
<1>9. QED
  BY <1>6, <1>8

LEMMA ReadRequestSafe ==
  ASSUME RecoveryInv, NEW c \in Call, NEW g \in Guardian, NEW r \in Request,
         ReadRequest(c, g, r)
  PROVE  RecoveryInv'
<1> DEFINE x == [at |-> "checkGuardian", request |-> r, guardian |-> g,
                 votes |-> requests[r].votes]
<1>1. /\ requests[r] # Absent
      /\ calls' = [calls EXCEPT ![c] = x]
      /\ UNCHANGED <<vars, guardians, requests, told, cast, rebinds>>
  BY DEF ReadRequest, IsPending, Begin, tables
<1>2. requests[r] \in RequestRow /\ Voted(r)
  BY <1>1 DEF RecoveryInv, RecoveryTypes
<1>3. /\ x \in CallState
      /\ x.at = "checkGuardian"
      /\ x.request = r
      /\ x.votes = requests[r].votes
  BY <1>2 DEF CallState, Voting, RequestRow
<1> HIDE DEF x
<1>4. calls'[c] = x /\ ((x # Idle => Standing(c)') => RecoveryInv')
  BY <1>1, <1>3, OnlyMoving
<1>5. requests'[r].proposedBy \in x.votes /\ x.votes \subseteq cast'[r]
  BY <1>1, <1>2, <1>3 DEF Voted
<1>6. Standing(c)'
  BY <1>1, <1>3, <1>4, <1>5 DEF Standing, OnRequest
<1>7. QED
  BY <1>4, <1>6

LEMMA CheckGuardianSafe ==
  ASSUME RecoveryInv, NEW c \in Call, CheckGuardian(c)
  PROVE  RecoveryInv'
<1>1. /\ calls[c] # Idle
      /\ calls[c].at = "checkGuardian"
      /\ calls[c].guardian \in GuardiansOf(requests[calls[c].request].did)
      /\ calls' = [calls EXCEPT ![c] = [calls[c] EXCEPT !.at = "writeVotes"]]
      /\ UNCHANGED <<vars, guardians, requests, told, cast, rebinds>>
  BY DEF CheckGuardian, At, GoTo, tables
<1>2. RecoveryTypes /\ Standing(c) /\ calls[c] \in Voting
  BY <1>1, CallFields DEF RecoveryInv
<1>3. PICK r \in Request : r = calls[c].request
  BY <1>2 DEF Voting
<1> DEFINE x == [calls[c] EXCEPT !.at = "writeVotes"]
<1>4. /\ x \in CallState
      /\ x.at = "writeVotes"
      /\ x.request = r
      /\ x.guardian = calls[c].guardian
      /\ x.votes = calls[c].votes
  BY <1>2, <1>3, VotingOnward DEF CallState
<1> HIDE DEF x
<1>5. calls' = [calls EXCEPT ![c] = x]
  BY <1>1 DEF x
<1>6. calls'[c] = x /\ ((x # Idle => Standing(c)') => RecoveryInv')
  BY <1>1, <1>4, <1>5, OnlyMoving
<1>7. /\ requests[r] # Absent
      /\ requests[r].proposedBy \in x.votes
      /\ x.votes \subseteq cast[r]
      /\ x.guardian \in GuardiansOf(requests[r].did)
  BY <1>1, <1>2, <1>3, <1>4 DEF Standing, OnRequest
<1>8. calls'[c].guardian \in GuardiansOf(requests[r].did)'
  BY <1>1, <1>6, <1>7 DEF GuardiansOf
<1>9. /\ calls'[c].at = "writeVotes"
      /\ calls'[c].request = r
      /\ calls'[c].votes = x.votes
      /\ requests'[r] # Absent
      /\ requests'[r].proposedBy \in x.votes
      /\ x.votes \subseteq cast'[r]
  BY <1>1, <1>4, <1>6, <1>7
<1>10. Standing(c)'
  BY <1>8, <1>9 DEF Standing, OnRequest, GuardiansOf
<1>11. QED
  BY <1>6, <1>10

LEMMA AddGuardianSafe ==
  ASSUME RecoveryInv, NEW c \in Call, AddGuardian(c)
  PROVE  RecoveryInv'
<1>1. /\ calls[c] # Idle
      /\ calls[c].at = "insertGuardian"
      /\ guardians' = [guardians EXCEPT ![calls[c].did] = Append(@, calls[c].guardian)]
      /\ calls' = [calls EXCEPT ![c] = Idle]
      /\ UNCHANGED <<vars, requests, told, cast, rebinds>>
  BY DEF AddGuardian, At, Return
<1>2. RecoveryTypes /\ calls[c] \in InsertingGuardian
  BY <1>1, CallFields DEF RecoveryInv
<1>3. PICK d \in Did, g \in Guardian : d = calls[c].did /\ g = calls[c].guardian
  BY <1>2 DEF InsertingGuardian
<1>4. guardians \in [Did -> Seq(Guardian)]
  BY <1>2 DEF RecoveryTypes
<1>5. guardians' = [guardians EXCEPT ![d] = Append(guardians[d], g)]
  BY <1>1, <1>3, <1>4
<1>6. guardians' \in [Did -> Seq(Guardian)]
  BY <1>4, <1>5
<1>7. GuardiansLast
  <2> SUFFICES ASSUME NEW e \in Did, NEW i \in DOMAIN guardians[e]
               PROVE  /\ i \in DOMAIN guardians'[e]
                      /\ guardians'[e][i] = guardians[e][i]
    BY DEF GuardiansLast, GuardiansOf
  <2>1. guardians[e] \in Seq(Guardian)
    BY <1>4
  <2>2. guardians'[e] = guardians[e] \/ guardians'[e] = Append(guardians[e], g)
    BY <1>4, <1>5
  <2>3. QED
    BY <2>1, <2>2
<1>8. Moves(c, Idle)
  BY <1>1, <1>2, Moving
<1>9. RecoveryTypes' /\ Lasting
  BY <1>1, <1>2, <1>6, <1>7, <1>8, KeepsLedger, KeepsRebinds, KeepsRequests, KeepsCast,
     KeepsTold DEF RecoveryTypes, Lasting, Moves
<1>10. \A b \in Call : calls'[b] = calls[b] \/ (calls'[b] # Idle => Standing(b)')
  BY <1>8 DEF Moves, Only
<1>11. QED
  BY <1>1, <1>9, <1>10, Preserved
LEMMA ProposeRecoverySafe ==
  ASSUME RecoveryInv, NEW c \in Call, NEW r \in Request, ProposeRecovery(c, r)
  PROVE  RecoveryInv'
<1> DEFINE v == calls[c]
           row == [did |-> v.did, key |-> v.key, proposedBy |-> v.guardian,
                   votes |-> {v.guardian}, threshold |-> v.threshold,
                   status |-> "pending"]
           x == [at |-> "notifyProposed", request |-> r]
<1>1. /\ calls[c] # Idle
      /\ v.at = "insertRequest"
      /\ requests[r] = Absent
      /\ requests' = [requests EXCEPT ![r] = row]
      /\ cast' = [cast EXCEPT ![r] = {v.guardian}]
      /\ calls' = [calls EXCEPT ![c] = x]
      /\ UNCHANGED <<vars, guardians, told, rebinds>>
  BY DEF ProposeRecovery, At
<1>2. RecoveryTypes /\ Standing(c) /\ v \in InsertingRequest
  BY <1>1, CallFields DEF RecoveryInv
<1>3. PICK g \in Guardian, d \in Did, n \in Nat :
        g = v.guardian /\ d = v.did /\ n = v.threshold
  BY <1>2 DEF InsertingRequest
<1>4. g \in GuardiansOf(d) /\ n >= 2
  BY <1>1, <1>2, <1>3 DEF Standing
<1>5. /\ row \in RequestRow
      /\ row.did = d
      /\ row.proposedBy = g
      /\ row.votes = {g}
      /\ row.threshold = n
      /\ row.status = "pending"
  BY <1>2, <1>3 DEF RequestRow, InsertingRequest
<1>6. /\ x \in CallState
      /\ x.at = "notifyProposed"
      /\ x.request = r
  BY DEF CallState, Holding
<1> HIDE DEF row, x
<1>7. /\ requests' \in [Request -> RequestRow \cup {Absent}]
      /\ cast' \in [Request -> SUBSET Guardian]
      /\ requests'[r] = row
      /\ cast'[r] = {g}
      /\ \A q \in Request : q # r => UNCHANGED <<requests[q], cast[q]>>
  BY <1>1, <1>2, <1>3, <1>5 DEF RecoveryTypes
<1>8. RequestsLast /\ CastLasts
  BY <1>1, <1>7 DEF RequestsLast, CastLasts
<1>9. Moves(c, x)
  BY <1>1, <1>2, <1>6, Moving
<1>10. RecoveryTypes' /\ Lasting
  BY <1>1, <1>2, <1>7, <1>8, <1>9, KeepsLedger, KeepsRebinds, KeepsGuardians, KeepsTold
     DEF RecoveryTypes, Lasting, Moves
<1>11. Standing(c)'
  <2>1. requests'[r] # Absent
    BY <1>5, <1>7, RowsAssumption
  <2>2. calls'[c] = x
    BY <1>9 DEF Moves
  <2>3. QED
    BY <1>6, <2>1, <2>2 DEF Standing, OnRequest
<1>12. \A b \in Call : calls'[b] = calls[b] \/ (calls'[b] # Idle => Standing(b)')
  BY <1>9, <1>11 DEF Moves, Only
<1>13. Voted(r)' /\ requests'[r].status # "executed"
  <2>1. IsFiniteSet({g})
    BY FS_Singleton
  <2>2. g \in GuardiansOf(d)'
    BY <1>1, <1>4 DEF GuardiansOf
  <2>3. QED
    BY <1>4, <1>5, <1>7, <2>1, <2>2 DEF Voted, GuardiansOf
<1>14. \A q \in Request : requests'[q] # Absent =>
         \/ UNCHANGED <<requests[q], cast[q]>>
         \/ Voted(q)' /\ (requests'[q].status = "executed" =>
              (requests[q] # Absent /\ requests[q].status = "executed") \/ Executed(q)')
  BY <1>7, <1>13
<1>15. QED
  BY <1>1, <1>10, <1>12, <1>14, Preserved

LEMMA WriteVotesSafe ==
  ASSUME RecoveryInv, NEW c \in Call, WriteVotes(c)
  PROVE  RecoveryInv'
<1> DEFINE v == calls[c]
<1>1. calls[c] # Idle /\ v.at = "writeVotes"
  BY DEF WriteVotes, At
<1>2. RecoveryTypes /\ Standing(c) /\ v \in Voting
  BY <1>1, CallFields DEF RecoveryInv
<1>3. PICK r \in Request, g \in Guardian, old \in SUBSET Guardian :
        r = v.request /\ g = v.guardian /\ old = v.votes
  BY <1>2 DEF Voting
<1> DEFINE votes == old \cup {g}
           row == [requests[r] EXCEPT !.votes = votes]
           n == Cardinality(votes)
           x == [at |-> "notifyVote", request |-> r, votes |-> n]
<1>4. /\ requests' = [requests EXCEPT ![r].votes = votes]
      /\ cast' = [cast EXCEPT ![r] = cast[r] \cup {g}]
      /\ calls' = [calls EXCEPT ![c] = x]
      /\ UNCHANGED <<vars, guardians, told, rebinds>>
  BY <1>3 DEF WriteVotes
<1>5. /\ requests[r] # Absent
      /\ requests[r].proposedBy \in old
      /\ old \subseteq cast[r]
      /\ g \in GuardiansOf(requests[r].did)
  BY <1>1, <1>2, <1>3 DEF Standing, OnRequest
<1>6. requests[r] \in RequestRow /\ Voted(r)
  BY <1>2, <1>5 DEF RecoveryInv, RecoveryTypes
<1>7. /\ row \in RequestRow
      /\ row.did = requests[r].did
      /\ row.key = requests[r].key
      /\ row.proposedBy = requests[r].proposedBy
      /\ row.votes = votes
      /\ row.threshold = requests[r].threshold
      /\ row.status = requests[r].status
  BY <1>6 DEF RequestRow
<1>8. IsFiniteSet(cast[r] \cup {g}) /\ IsFiniteSet(votes)
  <2>1. IsFiniteSet(cast[r])
    BY <1>6 DEF Voted
  <2>2. IsFiniteSet(old)
    BY <1>5, <2>1, FS_Subset
  <2>3. QED
    BY <2>1, <2>2, FS_AddElement
<1>9. n \in Nat /\ n <= Cardinality(cast[r] \cup {g})
  BY <1>5, <1>8, FS_Subset, FS_CardinalityType
<1> HIDE DEF n
<1>10. x \in CallState /\ x.at = "notifyVote" /\ x.request = r /\ x.votes = n
  BY <1>9 DEF CallState, Counting
<1>11. requests' = [requests EXCEPT ![r] = row]
  BY <1>4
<1> HIDE DEF row, x
<1>12. /\ requests' \in [Request -> RequestRow \cup {Absent}]
       /\ cast' \in [Request -> SUBSET Guardian]
       /\ requests'[r] = row
       /\ cast'[r] = cast[r] \cup {g}
       /\ \A q \in Request : q # r => UNCHANGED <<requests[q], cast[q]>>
  BY <1>2, <1>4, <1>7, <1>11 DEF RecoveryTypes
<1>13. requests'[r] # Absent
  BY <1>7, <1>12, RowsAssumption
<1>14. RequestsLast
  BY <1>7, <1>12, <1>13 DEF RequestsLast
<1>15. CastLasts
  BY <1>8, <1>12 DEF CastLasts
<1>16. Moves(c, x)
  BY <1>2, <1>4, <1>10, Moving
<1>17. RecoveryTypes' /\ Lasting
  BY <1>2, <1>4, <1>12, <1>14, <1>15, <1>16, KeepsLedger, KeepsRebinds, KeepsGuardians,
     KeepsTold DEF RecoveryTypes, Lasting, Moves
<1>18. Standing(c)'
  <2>1. calls'[c] = x
    BY <1>16 DEF Moves
  <2>2. n <= Cardinality(cast'[r])
    BY <1>9, <1>12
  <2>3. QED
    BY <1>10, <1>13, <2>1, <2>2 DEF Standing, OnRequest
<1>19. \A b \in Call : calls'[b] = calls[b] \/ (calls'[b] # Idle => Standing(b)')
  BY <1>16, <1>18 DEF Moves, Only
<1>20. Voted(r)'
  <2>1. cast[r] \cup {g} \subseteq GuardiansOf(requests[r].did)
    BY <1>5, <1>6 DEF Voted
  <2>2. cast'[r] \subseteq GuardiansOf(requests[r].did)'
    BY <1>4, <1>7, <1>12, <2>1 DEF GuardiansOf
  <2>3. /\ IsFiniteSet(cast'[r])
        /\ requests'[r].proposedBy \in requests'[r].votes
        /\ requests'[r].votes \subseteq cast'[r]
        /\ requests'[r].threshold >= 2
    BY <1>5, <1>6, <1>7, <1>8, <1>12 DEF Voted
  <2>4. QED
    BY <2>2, <2>3 DEF Voted, GuardiansOf
<1>21. \A q \in Request : requests'[q] # Absent =>
         \/ UNCHANGED <<requests[q], cast[q]>>
         \/ Voted(q)' /\ (requests'[q].status = "executed" =>
              (requests[q] # Absent /\ requests[q].status = "executed") \/ Executed(q)')
  BY <1>5, <1>7, <1>12, <1>20
<1>22. QED
  BY <1>4, <1>17, <1>19, <1>21, Preserved

LEMMA RecordExecutedSafe ==
  ASSUME RecoveryInv, NEW c \in Call, RecordExecuted(c)
  PROVE  RecoveryInv'
<1> DEFINE v == calls[c]
<1>1. calls[c] # Idle /\ v.at = "record"
  BY DEF RecordExecuted, At
<1>2. RecoveryTypes /\ Standing(c) /\ v \in Rebinding
  BY <1>1, CallFields DEF RecoveryInv
<1>3. PICK r \in Request, p \in ProposalId : r = v.request /\ p = v.proposal
  BY <1>2 DEF Rebinding
<1> DEFINE row == [requests[r] EXCEPT !.status = "executed"]
           x == [v EXCEPT !.at = "notifyExecuted"]
<1>4. /\ requests' = [requests EXCEPT ![r] = row]
      /\ calls' = [calls EXCEPT ![c] = x]
      /\ UNCHANGED <<vars, guardians, told, cast, rebinds>>
  BY <1>3 DEF RecordExecuted, GoTo
<1>5. requests[r] # Absent /\ Asks(p, r) /\ proposals[p].status = "EXECUTED"
  BY <1>1, <1>2, <1>3 DEF Standing, OnRequest
<1>6. requests[r] \in RequestRow /\ Voted(r)
  BY <1>2, <1>5 DEF RecoveryInv, RecoveryTypes
<1>7. /\ row \in RequestRow
      /\ row.did = requests[r].did
      /\ row.key = requests[r].key
      /\ row.proposedBy = requests[r].proposedBy
      /\ row.votes = requests[r].votes
      /\ row.threshold = requests[r].threshold
  BY <1>6 DEF RequestRow
<1>8. x \in CallState /\ x.at = "notifyExecuted" /\ x.request = r
  BY <1>2, <1>3, RebindingOnward DEF CallState
<1> HIDE DEF row, x
<1>9. /\ requests' \in [Request -> RequestRow \cup {Absent}]
      /\ requests'[r] = row
      /\ \A q \in Request : q # r => requests'[q] = requests[q]
  BY <1>2, <1>4, <1>7 DEF RecoveryTypes
<1>10. requests'[r] # Absent
  BY <1>7, <1>9, RowsAssumption
<1>11. RequestsLast
  BY <1>7, <1>9, <1>10 DEF RequestsLast
<1>12. Moves(c, x)
  BY <1>2, <1>4, <1>8, Moving
<1>13. RecoveryTypes' /\ Lasting
  BY <1>2, <1>4, <1>9, <1>11, <1>12, KeepsLedger, KeepsRebinds, KeepsGuardians, KeepsTold,
     KeepsCast DEF RecoveryTypes, Lasting, Moves
<1>14. Standing(c)'
  <2>1. calls'[c] = x
    BY <1>12 DEF Moves
  <2>2. QED
    BY <1>8, <1>10, <2>1 DEF Standing, OnRequest
<1>15. \A b \in Call : calls'[b] = calls[b] \/ (calls'[b] # Idle => Standing(b)')
  BY <1>12, <1>14 DEF Moves, Only
<1>16. Voted(r)'
  <2>1. cast'[r] \subseteq GuardiansOf(requests[r].did)'
    BY <1>4, <1>6, <1>7, <1>9 DEF Voted, GuardiansOf
  <2>2. QED
    BY <1>4, <1>6, <1>7, <1>9, <2>1 DEF Voted, GuardiansOf
<1>17. Executed(r)'
  BY <1>5, <1>13, AsksLast DEF Executed
<1>18. \A q \in Request : requests'[q] # Absent =>
         \/ UNCHANGED <<requests[q], cast[q]>>
         \/ Voted(q)' /\ (requests'[q].status = "executed" =>
              (requests[q] # Absent /\ requests[q].status = "executed") \/ Executed(q)')
  BY <1>4, <1>9, <1>16, <1>17
<1>19. QED
  BY <1>4, <1>13, <1>15, <1>18, Preserved
\* A step that moves a call and sends a notification.
LEMMA NotifyMoving ==
  ASSUME RecoveryInv, NEW c \in Call, NEW x \in CallState \cup {Idle},
         calls' = [calls EXCEPT ![c] = x],
         NEW r \in Request, NEW votes, DispatchNotification(r, votes),
         UNCHANGED <<vars, guardians, requests, cast, rebinds>>
  PROVE  /\ RecoveryTypes'
         /\ Lasting
         /\ calls'[c] = x
         /\ ~(votes < requests[r].threshold) => Warned(r)'
         /\ (x # Idle => Standing(c)') => RecoveryInv'
<1>1. RecoveryTypes /\ ProposalTypes
  BY DEF RecoveryInv, RecoveryTypes
<1>2. Moves(c, x)
  BY <1>1, Moving
<1>3. /\ told' \in [Request -> {TRUE, FALSE, Unsent}]
      /\ WarningsLast
      /\ ~(votes < requests[r].threshold) => Warned(r)'
  BY <1>1, Notifying
<1>4. RecoveryTypes' /\ Lasting
  BY <1>1, <1>2, <1>3, KeepsLedger, KeepsRebinds, KeepsRequests, KeepsCast, KeepsGuardians
     DEF RecoveryTypes, Lasting, Moves
<1>5. calls'[c] = x /\ Only(c)
  BY <1>2 DEF Moves
<1>6. ASSUME x # Idle => Standing(c)'
      PROVE  RecoveryInv'
  <2>1. \A b \in Call : calls'[b] = calls[b] \/ (calls'[b] # Idle => Standing(b)')
    BY <1>5, <1>6 DEF Only
  <2>2. QED
    BY <1>4, <2>1, Preserved
<1>7. QED
  BY <1>3, <1>4, <1>5, <1>6

LEMMA NotifyRecoveryProposedSafe ==
  ASSUME RecoveryInv, NEW c \in Call,
         NotifyRecoveryProposed(c) \/ NotifyRecoveryExecuted(c)
  PROVE  RecoveryInv'
<1>1. /\ calls[c] # Idle
      /\ calls[c].at \in {"notifyProposed", "notifyExecuted"}
      /\ \E votes : DispatchNotification(calls[c].request, votes)
      /\ calls' = [calls EXCEPT ![c] = Idle]
      /\ UNCHANGED <<vars, guardians, requests, cast, rebinds>>
  BY DEF NotifyRecoveryProposed, NotifyRecoveryExecuted, At, Return, tables
<1>2. calls[c].request \in Request
  BY <1>1, OnRequestFields DEF RecoveryInv, OnRequest
<1>3. QED
  BY <1>1, <1>2, NotifyMoving

LEMMA NotifyRecoveryVoteSafe ==
  ASSUME RecoveryInv, NEW c \in Call, NotifyRecoveryVote(c)
  PROVE  RecoveryInv'
<1>1. /\ calls[c] # Idle
      /\ calls[c].at = "notifyVote"
      /\ DispatchNotification(calls[c].request, calls[c].votes)
      /\ Counted(c)
      /\ UNCHANGED <<vars, guardians, requests, cast, rebinds>>
  BY DEF NotifyRecoveryVote, RecoveryVote, At, tables
<1>2. RecoveryTypes /\ Standing(c) /\ calls[c] \in Counting
  BY <1>1, CallFields DEF RecoveryInv
<1>3. PICK r \in Request, n \in Nat : r = calls[c].request /\ n = calls[c].votes
  BY <1>2 DEF Counting
<1>4. requests[r] # Absent /\ n <= Cardinality(cast[r])
  BY <1>1, <1>2, <1>3 DEF Standing, OnRequest
<1>5. requests[r] \in RequestRow /\ IsFiniteSet(cast[r])
  BY <1>2, <1>4 DEF RecoveryInv, RecoveryTypes, Voted
<1>6. Cardinality(cast[r]) \in Nat /\ requests[r].threshold \in Nat
  BY <1>5, FS_CardinalityType DEF RequestRow
<1>7. CASE n >= requests[r].threshold
  <2> DEFINE x == [at |-> "propose", request |-> r]
  <2>1. calls' = [calls EXCEPT ![c] = x]
    BY <1>1, <1>3, <1>7 DEF Counted
  <2>2. x \in CallState /\ x.at = "propose" /\ x.request = r
    BY DEF CallState, Holding
  <2> HIDE DEF x
  <2>3. /\ calls'[c] = x
        /\ ~(n < requests[r].threshold) => Warned(r)'
        /\ (x # Idle => Standing(c)') => RecoveryInv'
    <3>1. DispatchNotification(r, n)
      BY <1>1, <1>3 DEF DispatchNotification
    <3>2. x \in CallState \cup {Idle}
      BY <2>2
    <3>3. QED
      BY <1>1, <2>1, <3>1, <3>2, NotifyMoving
  <2>4. Warned(r)'
    BY <1>6, <1>7, <2>3
  <2>5. HadVotes(r)'
    BY <1>1, <1>4, <1>6, <1>7 DEF HadVotes
  <2>6. requests'[r] # Absent
    BY <1>1, <1>4
  <2>7. Standing(c)'
    BY <2>2, <2>3, <2>4, <2>5, <2>6 DEF Standing, OnRequest, HadVotes, Warned
  <2>8. QED
    BY <2>3, <2>7
<1>8. CASE ~(n >= requests[r].threshold)
  <2>1. calls' = [calls EXCEPT ![c] = Idle]
    BY <1>1, <1>3, <1>8 DEF Counted, Return
  <2>2. QED
    BY <1>1, <1>3, <2>1, NotifyMoving
<1>9. QED
  BY <1>7, <1>8

LEMMA SubmitProposalSafe ==
  ASSUME RecoveryInv, NEW c \in Call, NEW p \in ProposalId, NEW t \in TxTime,
         SubmitProposal(c, p, t)
  PROVE  RecoveryInv'
<1>1. calls[c] # Idle /\ calls[c].at = "propose"
  BY DEF SubmitProposal, At
<1>2. RecoveryTypes /\ Standing(c) /\ calls[c] \in Holding
  BY <1>1, CallFields DEF RecoveryInv
<1>3. PICK r \in Request : r = calls[c].request
  BY <1>2 DEF Holding
<1> DEFINE org == OrgKeys[1]
           a == RebindAction(requests[r].did, requests[r].key)
           x == [at |-> "approve", request |-> r, proposal |-> p, approved |-> {org}]
<1>4. /\ ProposeAction(org, p, a, t)
      /\ calls' = [calls EXCEPT ![c] = x]
      /\ rebinds' = [rebinds EXCEPT ![p] = r]
      /\ UNCHANGED <<guardians, requests, told, cast>>
  BY <1>3 DEF SubmitProposal, tables
<1>5. requests[r] # Absent /\ HadVotes(r) /\ Warned(r)
  BY <1>1, <1>2, <1>3 DEF Standing, OnRequest
<1>6. requests[r] \in RequestRow
  BY <1>2, <1>5 DEF RecoveryTypes
<1>7. a \in PrivilegedAction
  BY <1>6 DEF RebindAction, PrivilegedAction, UpdateController, RequestRow
<1>8. org \in Org /\ ProposalTypes
  BY <1>2, FirstOrg DEF RecoveryTypes
<1> HIDE DEF a, org
<1>9. /\ ProposalTypes'
      /\ ProposalsLast
      /\ Exists(p)'
      /\ proposals'[p].action = a
  BY <1>4, <1>7, <1>8, ProposingAny
<1>10. /\ x \in CallState
       /\ x.at = "approve"
       /\ x.request = r
       /\ x.proposal = p
  BY <1>8 DEF CallState, Rebinding
<1> HIDE DEF x
<1>11. /\ rebinds' \in [ProposalId -> Request \cup {Absent}]
       /\ rebinds'[p] = r
       /\ \A q \in ProposalId : q # p => rebinds'[q] = rebinds[q]
  BY <1>2, <1>4 DEF RecoveryTypes
<1>12. RebindsLast
  BY <1>4, <1>11 DEF RebindsLast, ProposeAction
<1>13. Moves(c, x)
  BY <1>2, <1>4, <1>10, Moving
<1>14. RecoveryTypes' /\ Lasting
  BY <1>2, <1>4, <1>9, <1>11, <1>12, <1>13, KeepsRequests, KeepsCast, KeepsGuardians,
     KeepsTold DEF RecoveryTypes, Lasting, Moves
<1>15. requests'[r] # Absent /\ HadVotes(r)' /\ Warned(r)'
  BY <1>4, <1>5 DEF HadVotes, Warned
<1>16. Asks(p, r)'
  BY <1>4, <1>9, <1>11 DEF Asks, Exists, a, RebindAction
<1>17. Standing(c)'
  <2>1. calls'[c] = x
    BY <1>13 DEF Moves
  <2>2. QED
    BY <1>10, <1>15, <1>16, <2>1 DEF Standing, OnRequest, Asks, Exists
<1>18. \A b \in Call : calls'[b] = calls[b] \/ (calls'[b] # Idle => Standing(b)')
  BY <1>13, <1>17 DEF Moves, Only
<1>19. Backed(p)'
  BY <1>11, <1>15 DEF Backed, HadVotes, Warned
<1>20. \A q \in ProposalId : rebinds'[q] # Absent => rebinds'[q] = rebinds[q] \/ Backed(q)'
  BY <1>11, <1>19
<1>21. QED
  BY <1>4, <1>14, <1>18, <1>20, Preserved

LEMMA SubmitApprovalSafe ==
  ASSUME RecoveryInv, NEW c \in Call, NEW t \in TxTime, SubmitApproval(c, t)
  PROVE  RecoveryInv'
<1>1. calls[c] # Idle /\ calls[c].at = "approve"
  BY DEF SubmitApproval, At
<1>2. RecoveryTypes /\ Standing(c) /\ calls[c] \in Rebinding
  BY <1>1, CallFields DEF RecoveryInv
<1>3. PICK r \in Request, p \in ProposalId, S \in SUBSET Org :
        r = calls[c].request /\ p = calls[c].proposal /\ S = calls[c].approved
  BY <1>2 DEF Rebinding
<1> DEFINE org == NextOrg(S)
           x == [calls[c] EXCEPT !.approved = S \cup {org}]
<1>4. /\ Org \ S # {}
      /\ ApproveProposal(org, p, t)
      /\ calls' = [calls EXCEPT ![c] = x]
      /\ UNCHANGED <<guardians, requests, told, cast, rebinds>>
  BY <1>3 DEF SubmitApproval, tables
<1>5. org \in Org /\ ProposalTypes
  BY <1>2, <1>4, NextOrgIsOne DEF RecoveryTypes
<1> HIDE DEF org
<1>6. ProposalTypes' /\ ProposalsLast
  BY <1>4, <1>5, ApprovingAny
<1>7. /\ x \in CallState
      /\ x.at = "approve"
      /\ x.request = r
      /\ x.proposal = p
  BY <1>1, <1>2, <1>3, <1>5 DEF CallState, Rebinding
<1> HIDE DEF x
<1>8. /\ Lasting
      /\ calls'[c] = x
      /\ (x # Idle => Standing(c)') => RecoveryInv'
  BY <1>4, <1>6, <1>7, LedgerMoving
<1>9. requests[r] # Absent /\ Asks(p, r)
  BY <1>1, <1>2, <1>3 DEF Standing, OnRequest
<1>10. Asks(p, r)' /\ requests'[r] # Absent
  BY <1>4, <1>8, <1>9, AsksLast
<1>11. Standing(c)'
  BY <1>7, <1>8, <1>10 DEF Standing, OnRequest, Asks, Exists
<1>12. QED
  BY <1>8, <1>11

LEMMA SubmitExecutionSafe ==
  ASSUME RecoveryInv, NEW c \in Call, NEW t \in TxTime, SubmitExecution(c, t)
  PROVE  RecoveryInv'
<1>1. calls[c] # Idle /\ calls[c].at = "approve"
  BY DEF SubmitExecution, At
<1>2. RecoveryTypes /\ Standing(c) /\ calls[c] \in Rebinding
  BY <1>1, CallFields DEF RecoveryInv
<1>3. PICK r \in Request, p \in ProposalId : r = calls[c].request /\ p = calls[c].proposal
  BY <1>2 DEF Rebinding
<1> DEFINE x == [calls[c] EXCEPT !.at = "record"]
<1>4. /\ ExecuteProposal(p, t)
      /\ calls' = [calls EXCEPT ![c] = x]
      /\ UNCHANGED <<guardians, requests, told, cast, rebinds>>
  BY <1>3 DEF SubmitExecution, tables, GoTo
<1>5. ProposalTypes' /\ ProposalsLast /\ proposals'[p].status = "EXECUTED"
  BY <1>2, <1>4, ExecutingAny DEF RecoveryTypes
<1>6. /\ x \in CallState
      /\ x.at = "record"
      /\ x.request = r
      /\ x.proposal = p
  BY <1>2, <1>3, RebindingOnward DEF CallState
<1> HIDE DEF x
<1>7. /\ Lasting
      /\ calls'[c] = x
      /\ (x # Idle => Standing(c)') => RecoveryInv'
  BY <1>4, <1>5, <1>6, LedgerMoving
<1>8. requests[r] # Absent /\ Asks(p, r)
  BY <1>1, <1>2, <1>3 DEF Standing, OnRequest
<1>9. Asks(p, r)' /\ requests'[r] # Absent
  BY <1>4, <1>7, <1>8, AsksLast
<1>10. Standing(c)'
  BY <1>5, <1>6, <1>7, <1>9 DEF Standing, OnRequest, Asks, Exists
<1>11. QED
  BY <1>7, <1>10

LEMMA OtherClientsSafe ==
  ASSUME RecoveryInv, [Next]_vars, UNCHANGED recoveryVars
  PROVE  RecoveryInv'
<1>1. RecoveryTypes /\ ProposalTypes
  BY DEF RecoveryInv, RecoveryTypes
<1>2. UNCHANGED <<guardians, requests, calls, told, cast, rebinds>>
  BY DEF recoveryVars, tables
<1>3. ProposalTypes' /\ ProposalsLast
  BY <1>1, LedgerSteps
<1>4. RecoveryTypes' /\ Lasting
  BY <1>1, <1>2, <1>3, KeepsRebinds, KeepsRequests, KeepsCast, KeepsGuardians, KeepsTold
     DEF RecoveryTypes, Lasting
<1>5. QED
  BY <1>2, <1>4, Preserved

LEMMA NextRecovery ==
  ASSUME RecoveryInv, [RecoveryNext]_<<vars, recoveryVars>>
  PROVE  RecoveryInv'
<1>1. CASE UNCHANGED <<vars, recoveryVars>>
  BY <1>1, OtherClientsSafe
<1>2. ASSUME NEW c \in Call, InsertUser(c)
      PROVE  RecoveryInv'
  BY <1>2, Returning DEF InsertUser
<1>3. ASSUME NEW c \in Call, Fail(c)
      PROVE  RecoveryInv'
  BY <1>3, Returning DEF Fail, tables
<1>4. CASE OtherClients
  BY <1>4, OtherClientsSafe DEF OtherClients
<1>5. QED
  BY <1>1, <1>2, <1>3, <1>4, RegisterOnLedgerSafe, CheckControllerSafe, ReadGuardiansSafe,
     ProposeRecoverySafe, ReadRequestSafe, SubmitProposalSafe, SubmitApprovalSafe,
     SubmitExecutionSafe, AddGuardianSafe, CheckGuardianSafe, WriteVotesSafe,
     RecordExecutedSafe, NotifyRecoveryProposedSafe, NotifyRecoveryVoteSafe
     DEF RecoveryNext

-----------------------------------------------------------------------------
\* The invariant that the other theorems of this module rest on: what every call,
\* request and rebind can rely on, whatever the other calls, the other clients of
\* the ledger and the failures in between do.
THEOREM RecoveriesStand == RecoverySpec => []RecoveryInv
<1>1. RecoveryInv /\ [RecoveryNext]_<<vars, recoveryVars>> => RecoveryInv'
  BY NextRecovery
<1>2. QED
  BY InitRecovery, <1>1, PTL DEF RecoverySpec

\* No controller is rebound for a request without the votes it requires, of
\* different guardians of that DID, at least two (recovery.service.ts:49).
THEOREM RebindsHadVotes == RecoverySpec => []RebindHadVotes
<1>1. RecoveryInv => RebindHadVotes
  <2> SUFFICES ASSUME RecoveryInv, NEW p \in ProposalId, rebinds[p] # Absent
               PROVE  LET r == rebinds[p]
                      IN  /\ cast[r] \subseteq GuardiansOf(requests[r].did)
                          /\ Cardinality(cast[r]) >= requests[r].threshold
                          /\ Cardinality(cast[r]) >= 2
    BY DEF RebindHadVotes
  <2>1. rebinds[p] \in Request /\ Backed(p) /\ RecoveryTypes
    BY DEF RecoveryInv, RecoveryTypes
  <2>2. PICK r \in Request : r = rebinds[p]
    BY <2>1
  <2>3. requests[r] # Absent /\ Cardinality(cast[r]) >= requests[r].threshold
    BY <2>1, <2>2 DEF Backed, HadVotes
  <2>4. Voted(r) /\ requests[r] \in RequestRow
    BY <2>1, <2>3 DEF RecoveryInv, RecoveryTypes
  <2>5. Cardinality(cast[r]) \in Nat /\ requests[r].threshold \in Nat
    BY <2>4, FS_CardinalityType DEF Voted, RequestRow
  <2>6. Cardinality(cast[r]) >= 2
    BY <2>3, <2>4, <2>5 DEF Voted
  <2>7. QED
    BY <2>2, <2>3, <2>4, <2>6 DEF Voted
<1>2. QED
  BY <1>1, RecoveriesStand, PTL

\* A request recorded as executed was: the ledger executed a proposal made for
\* it, of exactly what it asked for.
THEOREM ExecutedRequestsRebound == RecoverySpec => []ExecutedRequestRebound
<1>1. RecoveryInv => ExecutedRequestRebound
  BY DEF RecoveryInv, ExecutedRequestRebound, Executed, Asks, HasStatus
<1>2. QED
  BY <1>1, RecoveriesStand, PTL

\* Overlapping votes never lose the proposer's, and none appears that nobody cast.
THEOREM ProposerVotesAreKept == RecoverySpec => []ProposerVoteIsKept
<1>1. RecoveryInv => ProposerVoteIsKept
  BY DEF RecoveryInv, ProposerVoteIsKept, Voted
<1>2. QED
  BY <1>1, RecoveriesStand, PTL

\* The owner was told of enough votes before a rebind is proposed, unless that
\* could not be recorded (recovery.service.ts:95).
THEOREM OwnersWereWarned == RecoverySpec => []OwnerWasWarned
<1>1. RecoveryInv => OwnerWasWarned
  BY DEF RecoveryInv, OwnerWasWarned, Backed, Warned
<1>2. QED
  BY <1>1, RecoveriesStand, PTL
-----------------------------------------------------------------------------
\* A call gets among the voting of a request only by finding the request pending.

VotingSteps ==
  {"checkGuardian", "writeVotes", "notifyVote", "propose", "approve", "record"}

Votes(x, r) == x # Idle /\ x.at \in VotingSteps /\ x.request = r

LEMMA ClosedMeans ==
  ASSUME NEW r
  PROVE  Closed(r) <=>
           /\ requests[r] # Absent
           /\ requests[r].status = "executed"
           /\ \A c \in Call : ~Votes(calls[c], r)
  BY DEF Closed, VotingOn, Votes, VotingSteps

\* Nobody writes a request that is closed, and no call starts voting on it.
ClosedLasts(r) ==
  /\ requests'[r] = requests[r]
  /\ \A c \in Call : ~Votes(calls'[c], r)

LEMMA QuietCall ==
  ASSUME RecoveryInv, NEW r, Closed(r), NEW c \in Call, NEW x, ~Votes(x, r),
         calls' = [calls EXCEPT ![c] = x],
         requests'[r] = requests[r]
  PROVE  ClosedLasts(r)
<1>1. calls \in [Call -> CallState \cup {Idle}]
  BY DEF RecoveryInv, RecoveryTypes
<1>2. \A b \in Call : calls'[b] = calls[b] \/ calls'[b] = x
  BY <1>1
<1>3. QED
  BY <1>2, ClosedMeans DEF ClosedLasts

\* The step of a call that is already voting is on another request.
LEMMA VotingElsewhere ==
  ASSUME RecoveryInv, NEW r \in Request, Closed(r),
         NEW c \in Call, calls[c] # Idle, calls[c].at \in VotingSteps
  PROVE  calls[c].request # r /\ calls[c].request \in Request
  BY ClosedMeans, OnRequestFields DEF RecoveryInv, Votes, VotingSteps, OnRequest

LEMMA ClosedThroughReturn ==
  ASSUME RecoveryInv, NEW r, Closed(r), NEW c \in Call, Return(c), UNCHANGED requests
  PROVE  ClosedLasts(r)
<1>1. ~Votes(Idle, r)
  BY DEF Votes
<1>2. QED
  BY <1>1, QuietCall DEF Return

LEMMA ClosedThroughBeginning ==
  ASSUME RecoveryInv, NEW r \in Request, Closed(r), NEW c \in Call, NEW d, NEW g, NEW key,
         \/ RegisterOnLedger(c, d)
         \/ CheckController(c, g, d)
         \/ ReadGuardians(c, g, d, key)
  PROVE  ClosedLasts(r)
<1>1. PICK x : x.at \notin VotingSteps /\ calls' = [calls EXCEPT ![c] = x]
  <2>1. CASE RegisterOnLedger(c, d)
    BY <2>1 DEF RegisterOnLedger, Begin, VotingSteps
  <2>2. CASE CheckController(c, g, d)
    BY <2>2 DEF CheckController, Begin, VotingSteps
  <2>3. CASE ReadGuardians(c, g, d, key)
    BY <2>3 DEF ReadGuardians, Begin, VotingSteps
  <2>4. QED
    BY <2>1, <2>2, <2>3
<1>2. ~Votes(x, r)
  BY <1>1 DEF Votes
<1>3. UNCHANGED requests
  BY DEF RegisterOnLedger, CheckController, ReadGuardians, tables
<1>4. QED
  BY <1>1, <1>2, <1>3, QuietCall

LEMMA ClosedThroughRequests ==
  ASSUME RecoveryInv, NEW r \in Request, Closed(r), NEW c \in Call, NEW q \in Request,
         NEW g, ProposeRecovery(c, q) \/ ReadRequest(c, g, q)
  PROVE  ClosedLasts(r)
<1>1. q # r
  BY ClosedMeans DEF ProposeRecovery, ReadRequest, IsPending
<1>2. requests'[r] = requests[r]
  BY <1>1 DEF ProposeRecovery, ReadRequest, RecoveryInv, RecoveryTypes, tables
<1>3. PICK x : x.request = q /\ calls' = [calls EXCEPT ![c] = x]
  BY DEF ProposeRecovery, ReadRequest, Begin
<1>4. ~Votes(x, r)
  BY <1>1, <1>3 DEF Votes
<1>5. QED
  BY <1>2, <1>3, <1>4, QuietCall

LEMMA ClosedThroughVoting ==
  ASSUME RecoveryInv, NEW r \in Request, Closed(r), NEW c \in Call,
         NEW p, NEW t,
         \/ CheckGuardian(c)
         \/ WriteVotes(c)
         \/ SubmitProposal(c, p, t)
         \/ SubmitApproval(c, t)
         \/ SubmitExecution(c, t)
         \/ RecordExecuted(c)
  PROVE  ClosedLasts(r)
<1>1. calls[c] # Idle /\ calls[c].at \in VotingSteps
  BY DEF CheckGuardian, WriteVotes, SubmitProposal, SubmitApproval, SubmitExecution,
         RecordExecuted, At, VotingSteps
<1>2. calls[c].request # r /\ calls[c].request \in Request
  BY <1>1, VotingElsewhere
<1>3. PICK q \in Request : q = calls[c].request
  BY <1>2
<1>4. requests'[r] = requests[r]
  BY <1>2 DEF CheckGuardian, WriteVotes, SubmitProposal, SubmitApproval, SubmitExecution,
              RecordExecuted, RecoveryInv, RecoveryTypes, tables
<1>5. PICK x : x.request = q /\ calls' = [calls EXCEPT ![c] = x]
  <2>1. CASE \/ CheckGuardian(c)
             \/ SubmitExecution(c, t)
             \/ RecordExecuted(c)
    <3>1. calls[c] \in Voting \/ calls[c] \in Rebinding
      BY <2>1, CallFields
         DEF RecoveryInv, CheckGuardian, SubmitExecution, RecordExecuted, At
    <3>2. PICK step : GoTo(c, step)
      BY <2>1 DEF CheckGuardian, SubmitExecution, RecordExecuted
    <3>3. [calls[c] EXCEPT !.at = step].request = q
      BY <1>3, <3>1 DEF Voting, Rebinding
    <3>4. calls' = [calls EXCEPT ![c] = [calls[c] EXCEPT !.at = step]]
      BY <3>2 DEF GoTo
    <3>5. QED
      BY <3>3, <3>4
  <2>2. CASE SubmitApproval(c, t)
    <3>1. calls[c] \in Rebinding
      BY <2>2, CallFields DEF RecoveryInv, SubmitApproval, At
    <3> DEFINE S == calls[c].approved \cup {NextOrg(calls[c].approved)}
    <3>2. calls' = [calls EXCEPT ![c] = [calls[c] EXCEPT !.approved = S]]
      BY <2>2 DEF SubmitApproval
    <3> HIDE DEF S
    <3>3. [calls[c] EXCEPT !.approved = S].request = q
      BY <1>3, <3>1 DEF Rebinding
    <3>4. QED
      BY <3>2, <3>3
  <2>3. CASE WriteVotes(c) \/ SubmitProposal(c, p, t)
    BY <1>3, <2>3 DEF WriteVotes, SubmitProposal
  <2>4. QED
    BY <2>1, <2>2, <2>3
<1>6. ~Votes(x, r)
  BY <1>2, <1>3, <1>5 DEF Votes
<1>7. QED
  BY <1>4, <1>5, <1>6, QuietCall

LEMMA ClosedThroughCount ==
  ASSUME RecoveryInv, NEW r \in Request, Closed(r), NEW c \in Call, NotifyRecoveryVote(c)
  PROVE  ClosedLasts(r)
<1>1. /\ calls[c] # Idle
      /\ calls[c].at = "notifyVote"
      /\ Counted(c)
      /\ UNCHANGED requests
  BY DEF NotifyRecoveryVote, At, tables
<1>2. calls[c].request # r
  BY <1>1, VotingElsewhere DEF VotingSteps
<1> DEFINE x == [at |-> "propose", request |-> calls[c].request]
<1>3. CASE calls' = [calls EXCEPT ![c] = x]
  <2>1. ~Votes(x, r)
    BY <1>2 DEF Votes
  <2> HIDE DEF x
  <2>2. QED
    BY <1>1, <1>3, <2>1, QuietCall
<1>4. CASE Return(c)
  BY <1>1, <1>4, ClosedThroughReturn
<1>5. QED
  BY <1>1, <1>3, <1>4 DEF Counted

LEMMA ClosedThroughNext ==
  ASSUME RecoveryInv, NEW r \in Request, Closed(r), RecoveryNext
  PROVE  ClosedLasts(r)
<1>1. ASSUME NEW c \in Call,
             \/ InsertUser(c)
             \/ AddGuardian(c)
             \/ NotifyRecoveryProposed(c)
             \/ NotifyRecoveryExecuted(c)
             \/ Fail(c)
      PROVE  ClosedLasts(r)
  BY <1>1, ClosedThroughReturn
     DEF InsertUser, AddGuardian, NotifyRecoveryProposed, NotifyRecoveryExecuted, Fail,
         tables
<1>2. CASE OtherClients
  BY <1>2, ClosedMeans DEF OtherClients, recoveryVars, tables, ClosedLasts
<1>3. QED
  BY <1>1, <1>2, ClosedThroughBeginning, ClosedThroughRequests, ClosedThroughVoting,
     ClosedThroughCount DEF RecoveryNext

\* A request recorded as executed, once the votes under way are through, is closed
\* for good: no later vote changes it or rebinds the DID again.
THEOREM ClosedRequestsStayClosed == RecoverySpec => ClosedStaysClosed
<1> DEFINE Stays ==
      \A r \in Request : Closed(r) => Closed(r)' /\ requests'[r] = requests[r]
<1>1. RecoveryInv /\ [RecoveryNext]_<<vars, recoveryVars>>
        => [Stays]_<<vars, recoveryVars>>
  <2> SUFFICES ASSUME RecoveryInv, RecoveryNext, NEW r \in Request, Closed(r)
               PROVE  Closed(r)' /\ requests'[r] = requests[r]
    OBVIOUS
  <2>1. ClosedLasts(r)
    BY ClosedThroughNext
  <2>2. requests[r] # Absent /\ requests[r].status = "executed"
    BY ClosedMeans
  <2>3. QED
    BY <2>1, <2>2 DEF Closed, VotingOn, ClosedLasts, Votes, VotingSteps
<1>2. QED
  BY <1>1, RecoveriesStand, PTL DEF RecoverySpec, ClosedStaysClosed
=============================================================================
