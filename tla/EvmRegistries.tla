----------------------------- MODULE EvmRegistries -----------------------------
(***************************************************************************)
(* The EVM contracts behind the Safe: AccessControlRegistry,               *)
(* RevocationRegistry and AssetNFT (contracts/contracts).  Their governed  *)
(* functions are reached by executing a Safe transaction only.  When the   *)
(* inner call reverts, execTransaction does (GS013: safeTxGas and gasPrice *)
(* are 0), and the nonce is not consumed.                                  *)
(*                                                                         *)
(* A holder can also renounce a role, by a function that the contract      *)
(* inherits from OpenZeppelin.                                             *)
(***************************************************************************)
EXTENDS SafeMultisig

CONSTANTS
  Role,
  CredentialStatus,  \* status ids of credentials
  RegistryAddress,   \* of the AccessControlRegistry, as a writer of statuses
  FirstAdmin,        \* <<role, account>> granted when the API goes into use
  FirstExpiry,
  MaxTime,           \* bound on the block timestamp
  MaxTokens          \* bound on minted tokens

Time == 1 .. MaxTime
TokenId == 0 .. (MaxTokens - 1)
RoleKey == Role \X Account
\* _statusId is a hash of role and account: the pair.
StatusId == CredentialStatus \cup RoleKey

ASSUME RegistriesAssumption ==
  /\ FirstAdmin \in RoleKey
  /\ FirstExpiry \in Nat \ {0}
  /\ \A c \in Call :
       /\ c.call = "grantRoleWithExpiry" => c.key \in RoleKey /\ c.expiry \in Nat
       /\ c.call = "revokeRoleEarly" => c.key \in RoleKey
       /\ c.call = "setStatus" => c.status \in StatusId /\ c.revoked \in BOOLEAN

VARIABLES
  granted,      \* AccessControl: <<role, account>> that hold it
  roleExpiry,
  revoked,      \* the status ids revoked
  statusExpiry,
  writers,      \* addresses that may write statuses, besides the Safe
  tokenOwner,   \* 0 when not minted
  nextTokenId,
  renounced,    \* history: roles given up by their holder since the last grant
  now           \* block.timestamp

roleVars == <<granted, roleExpiry, revoked, statusExpiry, renounced>>
tokenVars == <<tokenOwner, nextTokenId>>
registryVars == <<roleVars, writers, tokenVars, now>>
evmVars == <<safeVars, registryVars>>

\* Deployed, configured (the registry may write statuses) and with one Admin.
RegistriesInit ==
  /\ granted = {FirstAdmin}
  /\ roleExpiry = [k \in RoleKey |-> IF k = FirstAdmin THEN FirstExpiry ELSE 0]
  /\ revoked = {}
  /\ statusExpiry = [s \in StatusId |-> IF s = FirstAdmin THEN FirstExpiry ELSE 0]
  /\ writers = {RegistryAddress}
  /\ tokenOwner = [i \in TokenId |-> Null]
  /\ nextTokenId = 0
  /\ renounced = {}
  /\ now = 1

-----------------------------------------------------------------------------
\* RevocationRegistry.sol

MayWrite(sender) == sender \in writers \/ sender = SafeAddress

SetStatus(sender, s, isRevoked) ==
  /\ MayWrite(sender)
  /\ revoked' = IF isRevoked THEN revoked \cup {s} ELSE revoked \ {s}

SetExpiry(sender, s, expiry) ==
  /\ MayWrite(sender)
  /\ statusExpiry' = [statusExpiry EXCEPT ![s] = expiry]

SetWriterAuthorization(writer, authorized) ==
  writers' = IF authorized THEN writers \cup {writer} ELSE writers \ {writer}

-----------------------------------------------------------------------------
\* AccessControlRegistry.sol, which writes statuses in its own name.

\* Faulty: a revocation on record is left there.
GrantKeepingStatus(k, expiry) ==
  /\ expiry > now
  /\ MayWrite(RegistryAddress)
  /\ granted' = granted \cup {k}
  /\ roleExpiry' = [roleExpiry EXCEPT ![k] = expiry]
  /\ SetExpiry(RegistryAddress, k, expiry)
  /\ renounced' = renounced \ {k}
  /\ UNCHANGED revoked

GrantRoleWithExpiry(k, expiry) ==
  /\ expiry > now
  /\ granted' = granted \cup {k}
  /\ roleExpiry' = [roleExpiry EXCEPT ![k] = expiry]
  /\ SetStatus(RegistryAddress, k, FALSE)
  /\ SetExpiry(RegistryAddress, k, expiry)
  /\ renounced' = renounced \ {k}

\* A role that nobody holds can be revoked too: its status is then.
RevokeRoleEarly(k) ==
  /\ granted' = granted \ {k}
  /\ SetStatus(RegistryAddress, k, TRUE)
  /\ UNCHANGED <<roleExpiry, statusExpiry, renounced>>

HasActiveRole(role, account) ==
  LET k == <<role, account>>
  IN  /\ k \in granted
      /\ ~(roleExpiry[k] # 0 /\ now > roleExpiry[k])
      /\ k \notin revoked

-----------------------------------------------------------------------------
\* AssetNFT.sol

MintAsset(to) ==
  /\ nextTokenId < MaxTokens
  /\ tokenOwner[nextTokenId] = Null
  /\ tokenOwner' = [tokenOwner EXCEPT ![nextTokenId] = to]
  /\ nextTokenId' = nextTokenId + 1

TransferAsset(from, to, token) ==
  /\ tokenOwner[token] = from
  /\ tokenOwner' = [tokenOwner EXCEPT ![token] = to]
  /\ UNCHANGED nextTokenId

-----------------------------------------------------------------------------
\* What the Safe calls, with the storage each call may touch.
RegistryCall(c) ==
  \/ /\ \/ c.call = "grantRoleWithExpiry" /\ GrantRoleWithExpiry(c.key, c.expiry)
        \/ c.call = "revokeRoleEarly" /\ RevokeRoleEarly(c.key)
        \/ /\ c.call = "setStatus"
           /\ SetStatus(SafeAddress, c.status, c.revoked)
           /\ UNCHANGED <<granted, roleExpiry, statusExpiry, renounced>>
     /\ UNCHANGED <<writers, tokenVars>>
  \/ /\ c.call = "setWriterAuthorization"
     /\ SetWriterAuthorization(c.writer, c.authorized)
     /\ UNCHANGED <<roleVars, tokenVars>>
  \/ /\ \/ c.call = "mintAsset" /\ MintAsset(c.to)
        \/ c.call = "transferAsset" /\ TransferAsset(c.from, c.to, c.token)
     /\ UNCHANGED <<roleVars, writers>>

ExecTransaction(c, signers, sender) ==
  /\ ConsumeNonce(c, signers, sender)
  /\ \/ OwnerCall(c) /\ UNCHANGED registryVars
     \/ RegistryCall(c) /\ UNCHANGED <<ownerVars, now>>

\* OpenZeppelin's renounceRole, called by the holder.
RenounceRole(k) ==
  /\ k \in granted
  /\ granted' = granted \ {k}
  /\ renounced' = renounced \cup {k}
  /\ UNCHANGED <<safeVars, roleExpiry, revoked, statusExpiry, writers, tokenVars, now>>

NextBlock ==
  /\ now < MaxTime
  /\ now' = now + 1
  /\ UNCHANGED <<safeVars, roleVars, writers, tokenVars>>

-----------------------------------------------------------------------------
Governs(c, k) == c.call \in {"grantRoleWithExpiry", "revokeRoleEarly"} /\ c.key = k
SetsStatus(c, k) == c.call = "setStatus" /\ c.status = k

Latest(N) == {n \in N : \A m \in N : m <= n}
LastFor(k) == Latest({n \in 0 .. (nonce - 1) : Governs(executed[n], k)})

GrantedUntil(k) ==
  IF LastFor(k) = {}
  THEN IF k = FirstAdmin THEN FirstExpiry ELSE 0
  ELSE LET c == executed[CHOOSE n \in LastFor(k) : TRUE]
       IN  IF c.call = "grantRoleWithExpiry" THEN c.expiry ELSE 0

\* The status of a role is an id like that of a credential, and the Safe may set it
\* as such: then the last transaction about it, of whichever kind, decides.
Suspended(k) ==
  LET about == {n \in 0 .. (nonce - 1) :
                  Governs(executed[n], k) \/ SetsStatus(executed[n], k)}
  IN  \E n \in Latest(about) : SetsStatus(executed[n], k) /\ executed[n].revoked

\* hasActiveRole against the Safe's history, over two contracts: a role is active
\* exactly when the last executed transaction about it was a grant, its expiry has
\* not passed, its holder did not give it up and no later transaction set its status
\* to revoked.  So a revocation always takes a role away, a grant always gives it
\* back, and a transaction that reverted, which is not in the history, did neither.
RolesFollowHistory ==
  \A k \in RoleKey :
    HasActiveRole(k[1], k[2]) <=> GrantedUntil(k) > 0 /\ now <= GrantedUntil(k)
                                    /\ k \notin renounced /\ ~Suspended(k)
=============================================================================
