------------------------------ MODULE EvmBackend ------------------------------
(***************************************************************************)
(* The EVM backend's way from an admin's request to a Safe transaction     *)
(* (routes/{roles,assets,credentials}.routes.ts, services/safe.service.ts) *)
(* over the contracts.  Every await is a step; several requests are under  *)
(* way at once and nothing orders them but the nonce they read.            *)
(*                                                                         *)
(* In local mode a request confirms its transaction with the two owner     *)
(* keys of the configuration and executes it.  Otherwise it hands the      *)
(* transaction to the hosted service, where owners confirm it and anybody  *)
(* executes it; owners also act on their own there.                        *)
(***************************************************************************)
EXTENDS EvmRegistries

CONSTANTS
  Request,
  Relayer,     \* CHAIN_PRIVATE_KEY's address
  OwnerKeys,   \* localSafeOwnerKeys: the addresses of the two configured keys
  Executor,    \* the accounts that execute what the service holds
  RouteCall,   \* the calls that admins ask for, of those the routes encode
  MaxHeld,     \* bound on the hashes that the service holds
  AdminRole,
  Idle

\* What the routes encode.  The one for credentials never takes a revocation back.
Grants == {c \in Call : c.call = "grantRoleWithExpiry"}
Revocations == {c \in Call : c.call = "revokeRoleEarly"}
Mints == {c \in Call : c.call = "mintAsset"}
Transfers == {c \in Call : c.call = "transferAsset"}
CredentialRevocations == {c \in Call : c.call = "setStatus" /\ c.revoked}

ASSUME BackendAssumption ==
  /\ RouteCall \subseteq Grants \cup Revocations \cup Mints \cup Transfers
                            \cup CredentialRevocations
  /\ IsFiniteSet(Request)

VARIABLES
  localMode,   \* config.safeLocalMode
  requests,
  service,     \* hosted: hashes that the transaction service holds
  answered     \* history, local: per call, how often an admin was told it executed

backendVars == <<localMode, requests, service, answered>>
allVars == <<evmVars, backendVars>>

BackendInit ==
  /\ SafeInit
  /\ RegistriesInit
  /\ localMode \in BOOLEAN
  /\ requests = [r \in Request |-> Idle]
  /\ service = {}
  /\ answered = [c \in RouteCall |-> 0]

\* Where a request is.  It knows its call, and once it read one, its nonce.
IsAt(r, step) == requests[r] # Idle /\ requests[r].at = step
MoveTo(r, step) == requests' = [requests EXCEPT ![r].at = step]
Return(r) == requests' = [requests EXCEPT ![r] = Idle]
HashFor(r) == HashOf(requests[r].call, requests[r].nonce)

\* requireRole("Admin"), an eth_call; the route then encodes its call.
Ask(r, who, c) ==
  /\ requests[r] = Idle
  /\ HasActiveRole(AdminRole, who)
  /\ requests' = [requests EXCEPT ![r] = [at |-> "asked", call |-> c]]
  /\ UNCHANGED <<evmVars, localMode, service, answered>>

\* safe.nonce(), or the kit's createTransaction: the nonce on chain, although
\* earlier transactions may be waiting for it.  The next step is local or hosted.
ReadNonce(r) ==
  /\ IsAt(r, "asked")
  /\ nonce \in Nonce
  /\ requests' =
       [requests EXCEPT ![r] = [at    |-> IF localMode THEN "first" ELSE "propose",
                                call  |-> requests[r].call,
                                nonce |-> nonce]]
  /\ UNCHANGED <<evmVars, localMode, service, answered>>

\* executeLocalSafeTransaction: the configured keys approve the hash in turn.
Confirm(r) ==
  /\ \/ IsAt(r, "first") /\ ApproveHash(OwnerKeys[1], HashFor(r)) /\ MoveTo(r, "second")
     \/ IsAt(r, "second") /\ ApproveHash(OwnerKeys[2], HashFor(r)) /\ MoveTo(r, "execute")
  /\ UNCHANGED <<registryVars, localMode, service, answered>>

\* The signatures of approved hashes: the owner addresses, in ascending order.
LocalSignatures ==
  IF OwnerKeys[1] < OwnerKeys[2] THEN OwnerKeys ELSE <<OwnerKeys[2], OwnerKeys[1]>>

\* Faulty: the transaction is sent and its receipt not awaited.
ExecuteUnawaited(r) ==
  /\ IsAt(r, "execute")
  /\ MoveTo(r, "mined")
  /\ UNCHANGED <<evmVars, localMode, service, answered>>

\* execTransaction with the request's call.  The contract computes the hash from
\* the nonce it has by now, whichever the request had read.
ExecuteLocal(r) ==
  /\ IsAt(r, "execute")
  /\ ExecTransaction(requests[r].call, LocalSignatures, Relayer)
  /\ MoveTo(r, "mined")
  /\ UNCHANGED <<localMode, service, answered>>

AnswerLocal(r) ==
  /\ IsAt(r, "mined")
  /\ answered' = [answered EXCEPT ![requests[r].call] = @ + 1]
  /\ Return(r)
  /\ UNCHANGED <<evmVars, localMode, service>>

Hold(h) ==
  /\ Cardinality(service) < MaxHeld
  /\ service' = service \cup {h}

ProposeHosted(r) ==
  /\ IsAt(r, "propose")
  /\ Hold(HashFor(r))
  /\ Return(r)
  /\ UNCHANGED <<evmVars, localMode, answered>>

\* A step of the request throws: the contract reverts, a key is not configured,
\* the connection breaks or the process dies.
Fail(r) ==
  /\ requests[r] # Idle
  /\ Return(r)
  /\ UNCHANGED <<evmVars, localMode, service, answered>>

\* External, the owners at the Safe's own interface, which knows no local chain: one
\* proposes what is the owners' own business (who owns the Safe), or confirms what
\* the service holds, while its nonce is not used up.
OwnerProposes(a, c) ==
  /\ ~localMode
  /\ IsOwner(a)
  /\ c \notin RouteCall
  /\ nonce \in Nonce
  /\ Hold(HashOf(c, nonce))
  /\ UNCHANGED <<evmVars, localMode, requests, answered>>

OwnerConfirms(a, h) ==
  /\ h \in service
  /\ h[2] = nonce
  /\ ApproveHash(a, h)
  /\ UNCHANGED <<registryVars, backendVars>>

\* External: whoever has the signatures sends them, with the call they are for.
AnyoneExecutes(c, sender) ==
  /\ ~localMode
  /\ nonce \in Nonce
  /\ \E signers \in [1 .. threshold -> Owners \cap (approved[HashOf(c, nonce)] \cup {sender})] :
       ExecTransaction(c, signers, sender)
  /\ UNCHANGED backendVars

BackendNext ==
  \/ \E r \in Request, who \in Account, c \in RouteCall : Ask(r, who, c)
  \/ \E r \in Request : ReadNonce(r)
  \/ \E r \in Request : Confirm(r)
  \/ \E r \in Request : ExecuteLocal(r)
  \/ \E r \in Request : AnswerLocal(r)
  \/ \E r \in Request : ProposeHosted(r)
  \/ \E r \in Request : Fail(r)
  \/ \E a \in Account, c \in Call : OwnerProposes(a, c)
  \/ \E a \in Account, h \in TxHash : OwnerConfirms(a, h)
  \/ \E c \in Call, sender \in Executor : AnyoneExecutes(c, sender)
  \/ (\E k \in RoleKey : RenounceRole(k)) /\ UNCHANGED backendVars
  \/ NextBlock /\ UNCHANGED backendVars

BackendSpec == BackendInit /\ [][BackendNext]_allVars

-----------------------------------------------------------------------------
ExecutionsOf(c) == {n \in 0 .. (nonce - 1) : executed[n] = c}

\* Requests that read the same nonce compete for it, and a request may be served by
\* the confirmations that another one gathered for the same call, which then
\* fails.  In local mode all the same, no admin is told of an execution that did
\* not happen or that another admin was told of.
AnswersAreExecutions ==
  \A c \in RouteCall : answered[c] <= Cardinality(ExecutionsOf(c))
=============================================================================
