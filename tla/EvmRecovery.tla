------------------------------ MODULE EvmRecovery ------------------------------
(***************************************************************************)
(* Identities of the EVM fallback: DIDRegistry.sol and guardian recovery   *)
(* in the backend (services/recovery.service.ts, services/did.service.ts,  *)
(* routes/recovery.routes.ts).                                             *)
(*                                                                         *)
(* Citizens register and rotate with their own wallets.  Guardians vote in *)
(* the backend's tables, and the vote that reaches the threshold has the   *)
(* relayer send updateController, which the registry accepts from its      *)
(* recovery module.  Every await is a step; a call can end at any of them, *)
(* and what it has sent by then is mined all the same.                     *)
(*                                                                         *)
(* buildDid derives a DID from an address: a DID is named by that account. *)
(* Addresses are compared as they are spelled in sessions and rows.        *)
(***************************************************************************)
EXTENDS EvmBackend

CONSTANTS
  Citizen,        \* the accounts whose DIDs are registered
  Guardian,       \* the accounts that are added as guardians
  NewController,  \* the accounts that control is handed to
  Recovery,       \* ids of recovery requests
  Voting,         \* calls that the backend handles at once
  MaxGuardians,   \* bound on the guardian rows of a DID
  None            \* no record

(* A row of recovery_requests. *)
RequestRow == [did           : Citizen,
               newController : NewController,
               votes         : SUBSET Guardian,
               threshold     : Nat,
               status        : {"pending", "executed"}]

ASSUME RecoveryAssumption ==
  /\ Citizen \cup Guardian \cup NewController \subseteq Account
  /\ MaxGuardians \in Nat
  /\ None \notin RequestRow

VARIABLES
  controllers,     \* DIDRegistry: the controller of each DID, Null when there is none
  recoveryModule,  \* DIDRegistry
  users,           \* the DIDs with a users row
  guardians,       \* the guardian rows of each DID
  recoveries,      \* recovery_requests
  votings,         \* the calls under way
  sent,            \* per call, the request whose rebind it has sent and nobody mined
  cast,            \* history: the guardians who proposed or voted, per request
  rebound          \* history: the requests whose rebind was mined

didVars == <<controllers, recoveryModule>>
tables == <<users, guardians, recoveries>>
recoveryVars == <<didVars, tables, votings, sent, cast, rebound>>

RecoveryInit ==
  /\ controllers = [d \in Citizen |-> Null]
  /\ recoveryModule = Null
  /\ users = {}
  /\ guardians = [d \in Citizen |-> <<>>]
  /\ recoveries = [q \in Recovery |-> None]
  /\ votings = [v \in Voting |-> Idle]
  /\ sent = [v \in Voting |-> None]
  /\ cast = [q \in Recovery |-> {}]
  /\ rebound = {}

-----------------------------------------------------------------------------
(* DIDRegistry.sol *)

(* The sender becomes the controller, of whatever DID it names. *)
RegisterDID(sender, d) ==
  /\ controllers[d] = Null
  /\ controllers' = [controllers EXCEPT ![d] = sender]
  /\ UNCHANGED <<recoveryModule, tables, votings, sent, cast, rebound>>

MayUpdate(sender, d) ==
  controllers[d] # Null /\ sender \in {controllers[d], recoveryModule}

UpdateController(sender, d, new) ==
  /\ MayUpdate(sender, d)
  /\ controllers' = [controllers EXCEPT ![d] = new]

Rotate(d, new) ==
  /\ UpdateController(controllers[d], d, new)
  /\ UNCHANGED <<recoveryModule, tables, votings, sent, cast, rebound>>

(* By the Safe, which owns the registry. *)
SetRecoveryModule ==
  /\ recoveryModule' = Relayer
  /\ UNCHANGED <<controllers, tables, votings, sent, cast, rebound>>

-----------------------------------------------------------------------------
(* Calls of the backend.  One whose transaction is not mined yet is not    *)
(* used again.                                                             *)

Begins(v, call) ==
  /\ votings[v] = Idle /\ sent[v] = None
  /\ votings' = [votings EXCEPT ![v] = call]
InCall(v, step) == votings[v] # Idle /\ votings[v].at = step
Proceed(v, step) == votings' = [votings EXCEPT ![v].at = step]
Finish(v) == votings' = [votings EXCEPT ![v] = Idle]

(* registerUser: on chain or not, the row is inserted. *)
RegisterUser(d) ==
  /\ users' = users \cup {d}
  /\ UNCHANGED <<didVars, guardians, recoveries, votings, sent, cast, rebound>>

(* POST /guardians, for the DID of the session's own address. *)
CheckController(v, d, g) ==
  /\ controllers[d] = d
  /\ Len(guardians[d]) < MaxGuardians
  /\ Begins(v, [at |-> "insertGuardian", did |-> d, guardian |-> g])
  /\ UNCHANGED <<didVars, tables, sent, cast, rebound>>

(* The foreign key asks for a users row. *)
AddGuardian(v) ==
  /\ InCall(v, "insertGuardian")
  /\ votings[v].did \in users
  /\ guardians' = [guardians EXCEPT ![votings[v].did] = Append(@, votings[v].guardian)]
  /\ Finish(v)
  /\ UNCHANGED <<didVars, users, recoveries, sent, cast, rebound>>

ListGuardians(d) == {guardians[d][i] : i \in DOMAIN guardians[d]}

(* Faulty: half of the guardians. *)
HalfThreshold(n) == (n + 1) \div 2

(* Math.ceil(n / 2) + 1, of the rows and not of the guardians in them. *)
VoteThreshold(n) == (n + 1) \div 2 + 1

BeginRecovery(v, g, d, new) ==
  /\ g \in ListGuardians(d)
  /\ Begins(v, [at |-> "insertRequest", guardian |-> g,
                row |-> [did |-> d, newController |-> new, votes |-> {g},
                         threshold |-> VoteThreshold(Len(guardians[d])),
                         status |-> "pending"]])
  /\ UNCHANGED <<didVars, tables, sent, cast, rebound>>

ProposeRecovery(v, q) ==
  /\ InCall(v, "insertRequest")
  /\ recoveries[q] = None
  /\ recoveries' = [recoveries EXCEPT ![q] = votings[v].row]
  /\ cast' = [cast EXCEPT ![q] = {votings[v].guardian}]
  /\ Finish(v)
  /\ UNCHANGED <<didVars, users, guardians, sent, rebound>>

ReadRequest(v, g, q) ==
  /\ recoveries[q] # None /\ recoveries[q].status = "pending"
  /\ Begins(v, [at |-> "list", guardian |-> g, request |-> q, votes |-> recoveries[q].votes])
  /\ UNCHANGED <<didVars, tables, sent, cast, rebound>>

CheckGuardian(v) ==
  /\ InCall(v, "list")
  /\ votings[v].guardian \in ListGuardians(recoveries[votings[v].request].did)
  /\ Proceed(v, "vote")
  /\ UNCHANGED <<didVars, tables, sent, cast, rebound>>

(* The votes read before and this one; others in between are overwritten. *)
WriteVotes(v) ==
  /\ InCall(v, "vote")
  /\ LET q == votings[v].request
         votes == votings[v].votes \cup {votings[v].guardian}
     IN  /\ recoveries' = [recoveries EXCEPT ![q].votes = votes]
         /\ cast' = [cast EXCEPT ![q] = @ \cup {votings[v].guardian}]
         /\ IF Cardinality(votes) >= recoveries[q].threshold
            THEN Proceed(v, "send") ELSE Finish(v)
  /\ UNCHANGED <<didVars, users, guardians, sent, rebound>>

SendRebind(v) ==
  /\ InCall(v, "send")
  /\ sent' = [sent EXCEPT ![v] = votings[v].request]
  /\ Proceed(v, "wait")
  /\ UNCHANGED <<didVars, tables, cast, rebound>>

(* The call learns of it at tx.wait(), unless it has ended. *)
MineRebind(v) ==
  /\ sent[v] # None
  /\ LET row == recoveries[sent[v]]
     IN  UpdateController(Relayer, row.did, row.newController)
  /\ rebound' = rebound \cup {sent[v]}
  /\ sent' = [sent EXCEPT ![v] = None]
  /\ IF InCall(v, "wait") THEN Proceed(v, "record") ELSE UNCHANGED votings
  /\ UNCHANGED <<recoveryModule, tables, cast>>

(* The registry refuses: tx.wait() throws. *)
RevertRebind(v) ==
  /\ sent[v] # None
  /\ ~MayUpdate(Relayer, recoveries[sent[v]].did)
  /\ sent' = [sent EXCEPT ![v] = None]
  /\ Finish(v)
  /\ UNCHANGED <<didVars, tables, cast, rebound>>

RecordExecuted(v) ==
  /\ InCall(v, "record")
  /\ recoveries' = [recoveries EXCEPT ![votings[v].request].status = "executed"]
  /\ Finish(v)
  /\ UNCHANGED <<didVars, users, guardians, sent, cast, rebound>>

(* An await throws, or the process dies. *)
Ends(v) ==
  /\ votings[v] # Idle
  /\ Finish(v)
  /\ UNCHANGED <<didVars, tables, sent, cast, rebound>>

RecoveryNext ==
  \/ \E d \in Citizen, a \in Account : RegisterDID(a, d)
  \/ \E d \in Citizen, new \in NewController : Rotate(d, new)
  \/ SetRecoveryModule
  \/ \E d \in Citizen : RegisterUser(d)
  \/ \E v \in Voting, d \in Citizen, g \in Guardian : CheckController(v, d, g)
  \/ \E v \in Voting, d \in Citizen, g \in Guardian, new \in NewController :
       BeginRecovery(v, g, d, new)
  \/ \E v \in Voting, q \in Recovery : ProposeRecovery(v, q)
  \/ \E v \in Voting, g \in Guardian, q \in Recovery : ReadRequest(v, g, q)
  \/ \E v \in Voting :
       \/ AddGuardian(v) \/ CheckGuardian(v) \/ WriteVotes(v)
       \/ SendRebind(v) \/ MineRebind(v) \/ RevertRebind(v)
       \/ RecordExecuted(v) \/ Ends(v)

RecoverySpec == RecoveryInit /\ [][RecoveryNext]_recoveryVars

-----------------------------------------------------------------------------
(* "No individual guardian, and no admin, can re-bind a DID alone"          *)
(* (recovery.service.ts:9): what the relayer has rebound, the threshold of  *)
(* different guardians had voted for, two at least, although each vote is   *)
(* counted on what it read and overwrites the others; and a request is      *)
(* recorded as executed only once its rebind is on chain.                   *)
NoLoneGuardian ==
  \A q \in Recovery : recoveries[q] # None =>
    /\ q \in rebound =>
         Cardinality(cast[q]) >= recoveries[q].threshold /\ Cardinality(cast[q]) >= 2
    /\ recoveries[q].status = "executed" => q \in rebound
=============================================================================
