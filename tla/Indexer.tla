------------------------------- MODULE Indexer -------------------------------
(***************************************************************************)
(* The audit indexer of the backend (fabric/indexer.service.ts) and the    *)
(* numbers that the transparency page takes from its feed                  *)
(* (fabric/transparency.service.ts).                                       *)
(*                                                                         *)
(* The ledger emits one chaincode event per committed transaction.  The    *)
(* indexer streams them in ledger order, starting after its checkpoint,    *)
(* puts those of interest at the head of an array in memory, and then      *)
(* advances the checkpoint, which is a file.  The stream can break between *)
(* two events and the process can die between any two steps; the file      *)
(* survives, the array does not.                                           *)
(***************************************************************************)
EXTENDS Integers, Sequences, FiniteSets

CONSTANTS
  ProposalId,         \* the proposals whose events are told apart
  Effect,             \* the events of executed proposals
  None,               \* what a payload does not carry
  MaxEvents,          \* bound on the events of the ledger
  MAX_CACHED_EVENTS,
  MaxRestarts         \* bound on process restarts

\* An event has a name; its payload tells the proposal, and of a status its value.
DomainEvent ==
  {"RoleGrantedWithExpiry", "RoleRevokedEarly", "AssetMinted", "AssetTransferred",
   "ControllerUpdated", "StatusChanged"}

ASSUME IndexerAssumption ==
  /\ Effect \subseteq [name : DomainEvent, revoked : BOOLEAN \cup {None}]
  /\ \A f \in Effect : f.name = "StatusChanged" => f.revoked \in BOOLEAN
  /\ None \notin ProposalId
  /\ MaxEvents \in Nat
  /\ MAX_CACHED_EVENTS \in Nat
  /\ MaxRestarts \in Nat

VARIABLES
  ledger,       \* the events emitted so far, in ledger order
  checkpoint,   \* the events up to this one are checkpointed (the file)
  streamed,     \* the last event that the open stream has delivered
  running,      \* the stream is open
  cache,        \* the feed: positions in the ledger, newest first
  restarts,
  lifeStart,    \* history: the checkpoint this process started from
  seen          \* history: the last event this process has been through

indexerVars == <<ledger, checkpoint, streamed, running, cache, restarts, lifeStart, seen>>

EVENT_TYPES ==
  [DIDRegistered         |-> "DID_REGISTERED",
   ControllerUpdated     |-> "CONTROLLER_UPDATED",
   RoleGrantedWithExpiry |-> "ROLE_GRANTED",
   RoleRevokedEarly      |-> "ROLE_REVOKED",
   AssetMinted           |-> "ASSET_MINTED",
   AssetTransferred      |-> "ASSET_TRANSFERRED",
   StatusChanged         |-> "CREDENTIAL_REVOKED",
   ProposalCreated       |-> "PROPOSAL_CREATED",
   ProposalApproved      |-> "PROPOSAL_APPROVED"]

\* Faulty: every event is kept.
KeepsAll(e) == TRUE

\* Whether toAuditEvent keeps an event: un-revocations are not worth an entry.
IsAudited(e) ==
  /\ ledger[e].name \in DOMAIN EVENT_TYPES
  /\ ledger[e].name = "StatusChanged" => ledger[e].revoked = TRUE

\* The entry of the feed: an event's type, and the proposal that its payload names.
ToAuditEvent(e) ==
  [type |-> IF ledger[e].name \in DOMAIN EVENT_TYPES
            THEN EVENT_TYPES[ledger[e].name] ELSE ledger[e].name,
   proposalId |-> ledger[e].proposal]

IndexerInit ==
  /\ ledger = <<>>
  /\ checkpoint = 0
  /\ streamed = 0
  /\ running = FALSE
  /\ cache = <<>>
  /\ restarts = 0
  /\ lifeStart = 0
  /\ seen = 0

Cached == {cache[i] : i \in DOMAIN cache}

\* cache.unshift, cut to MAX_CACHED_EVENTS; an event already there is not added.
Truncated(s) ==
  SubSeq(s, 1, IF Len(s) > MAX_CACHED_EVENTS THEN MAX_CACHED_EVENTS ELSE Len(s))
Prepend(e) == Truncated(<<e>> \o cache)

-----------------------------------------------------------------------------
\* What the chaincode emits: one event per transaction, each of a proposal in its
\* turn, and the registrations, which nobody has to approve.
Emitted(name, p) ==
  \E i \in DOMAIN ledger : ledger[i].name = name /\ ledger[i].proposal = p
Executed(p) == \E f \in Effect : Emitted(f.name, p)
Pending(p) ==
  Emitted("ProposalCreated", p) /\ ~Emitted("ProposalCancelled", p) /\ ~Executed(p)

Emit(name, p, revoked) ==
  /\ Len(ledger) < MaxEvents
  /\ ledger' = Append(ledger, [name |-> name, proposal |-> p, revoked |-> revoked])
  /\ UNCHANGED <<checkpoint, streamed, running, cache, restarts, lifeStart, seen>>

Register == Emit("DIDRegistered", None, None)
Propose(p) == ~Emitted("ProposalCreated", p) /\ Emit("ProposalCreated", p, None)
Approve(p) == Pending(p) /\ Emit("ProposalApproved", p, None)
Cancel(p) == Pending(p) /\ Emit("ProposalCancelled", p, None)
Execute(p) ==
  /\ Pending(p) /\ Emitted("ProposalApproved", p)
  /\ \E f \in Effect : Emit(f.name, p, f.revoked)

-----------------------------------------------------------------------------

\* Faulty: a new stream starts with whatever comes next.
ConnectNow ==
  /\ ~running
  /\ running' = TRUE
  /\ streamed' = Len(ledger)
  /\ UNCHANGED <<ledger, checkpoint, cache, restarts, lifeStart, seen>>

\* consume: a new stream starts right after the checkpointed event.
Connect ==
  /\ ~running
  /\ running' = TRUE
  /\ streamed' = checkpoint
  /\ UNCHANGED <<ledger, checkpoint, cache, restarts, lifeStart, seen>>

\* The body of the loop up to its await.
Process ==
  /\ running
  /\ streamed = checkpoint
  /\ streamed < Len(ledger)
  /\ streamed' = streamed + 1
  /\ cache' = IF IsAudited(streamed + 1) /\ streamed + 1 \notin Cached
              THEN Prepend(streamed + 1) ELSE cache
  /\ seen' = IF streamed + 1 > seen THEN streamed + 1 ELSE seen
  /\ UNCHANGED <<ledger, checkpoint, running, restarts, lifeStart>>

\* Faulty: events that are not kept are not checkpointed either.
CheckpointAudited ==
  /\ running
  /\ streamed > checkpoint
  /\ IsAudited(streamed)
  /\ checkpoint' = streamed
  /\ UNCHANGED <<ledger, streamed, running, cache, restarts, lifeStart, seen>>

\* checkpointChaincodeEvent, awaited before the next event is taken.
Checkpoint ==
  /\ running
  /\ streamed > checkpoint
  /\ checkpoint' = streamed
  /\ UNCHANGED <<ledger, streamed, running, cache, restarts, lifeStart, seen>>

\* The stream throws, or writing the checkpoint does: startIndexer connects again.
Disconnect ==
  /\ running
  /\ running' = FALSE
  /\ UNCHANGED <<ledger, checkpoint, streamed, cache, restarts, lifeStart, seen>>

Restart ==
  /\ restarts < MaxRestarts
  /\ restarts' = restarts + 1
  /\ running' = FALSE
  /\ cache' = <<>>
  /\ lifeStart' = checkpoint
  /\ seen' = checkpoint
  /\ UNCHANGED <<ledger, checkpoint, streamed>>

IndexerNext ==
  \/ Register
  \/ \E p \in ProposalId : Propose(p) \/ Approve(p) \/ Cancel(p) \/ Execute(p)
  \/ Connect
  \/ Process
  \/ Checkpoint
  \/ Disconnect
  \/ Restart

\* The indexer keeps reconnecting (backoff of at most 30 seconds), and a network
\* that is up again and again eventually lets a stream deliver and a write succeed.
Fairness == WF_indexerVars(Connect) /\ SF_indexerVars(Process) /\ SF_indexerVars(Checkpoint)

IndexerSpec == IndexerInit /\ [][IndexerNext]_indexerVars /\ Fairness

-----------------------------------------------------------------------------
\* The events that this process has been through and keeps.
Audited == {e \in lifeStart + 1 .. seen : IsAudited(e)}

\* A broken connection "replays nothing and skips nothing"
\* (indexer.service.ts:25): whatever breaks and reconnects while a process lives,
\* its feed is exactly the audited events it has been through, newest first and
\* each once, but for those that newer ones have pushed out of a full feed; and it
\* has been through all that was checkpointed since it started.
FeedIsGapless ==
  /\ checkpoint <= seen
  /\ Cached \subseteq Audited /\ Len(cache) <= MAX_CACHED_EVENTS
  /\ \A i, j \in DOMAIN cache : i < j => cache[i] > cache[j]
  /\ \A e \in Audited \ Cached :
       Len(cache) = MAX_CACHED_EVENTS /\ \A i \in DOMAIN cache : cache[i] > e

\* Every event of the ledger is indexed in the end, by this process or a later one.
EverythingIsIndexed ==
  \A e \in 1 .. MaxEvents : (Len(ledger) >= e) ~> (checkpoint >= e)

-----------------------------------------------------------------------------
\* computeTransparencyStats
totalAssetsMinted ==
  Cardinality({e \in Cached : ToAuditEvent(e).type = "ASSET_MINTED"})

Governed == {ToAuditEvent(e) : e \in {x \in Cached : ledger[x].proposal # None}}
proposedIds == {a.proposalId : a \in {x \in Governed : x.type = "PROPOSAL_CREATED"}}

\* Every other event of a proposal is taken for its execution.
executedIds ==
  {a.proposalId :
     a \in {x \in Governed : x.type \notin {"PROPOSAL_CREATED", "PROPOSAL_APPROVED"}}}

totalProposals == Cardinality(proposedIds)
executedProposals == Cardinality(executedIds \cap proposedIds)
pendingOrCancelledProposals == totalProposals - executedProposals

CaughtUp == running /\ checkpoint = Len(ledger) /\ streamed = checkpoint

\* "Total assets ever minted, from the durable audit feed's ASSET_MINTED events"
\* (transparency.service.ts:30): with the indexer caught up, the page reports as
\* many mints as the ledger has seen.
TotalIsEverMinted ==
  CaughtUp =>
    totalAssetsMinted = Cardinality({e \in DOMAIN ledger : ledger[e].name = "AssetMinted"})

\* The page's count of executed proposals is never above the ledger's, whatever
\* the feed has lost or not yet seen: an approval, a cancellation or another event
\* of a proposal is not taken for its execution.  Once the feed is whole and caught
\* up, the page counts every proposal, and every execution but un-revocations.
FeedIsWhole == CaughtUp /\ lifeStart = 0 /\ Len(cache) < MAX_CACHED_EVENTS
Undoes(p) == \E e \in DOMAIN ledger :
  ledger[e].proposal = p /\ ledger[e].name = "StatusChanged" /\ ledger[e].revoked = FALSE

StatsFollowLedger ==
  /\ \A p \in executedIds : Executed(p)
  /\ FeedIsWhole =>
       /\ totalProposals = Cardinality({p \in ProposalId : Emitted("ProposalCreated", p)})
       /\ pendingOrCancelledProposals =
            Cardinality({p \in ProposalId : Emitted("ProposalCreated", p)
                                             /\ (~Executed(p) \/ Undoes(p))})
=============================================================================
