-------------------------------- MODULE MCEvm --------------------------------
(***************************************************************************)
(* An instance of the EVM fallback for TLC: a 2-of-3 Safe of 2, 3 and 4;   *)
(* account 5 holds the Admin role at first, wants to own the Safe and      *)
(* receives roles and tokens.  Citizen 2 has 3 and 4 for guardians.        *)
(*                                                                         *)
(* Safe transactions and recovery share no state but the recovery module,  *)
(* which the Safe sets, and the registries do not depend on who owns it: a *)
(* behaviour is about one of three topics, requests while owners change,   *)
(* what the owners can do in the registries, or recovery.                  *)
(***************************************************************************)
EXTENDS EvmRecovery, TLC

CONSTANTS admin

InitialOwners == <<4, 2, 3>>
KeysOfTwo == <<3, 2>>

Routed ==
  {[call |-> "grantRoleWithExpiry", key |-> <<admin, 2>>, expiry |-> 2],
   [call |-> "revokeRoleEarly", key |-> <<admin, 2>>]}

\* In the order of the list, 3 follows 2 and 2 follows 4.
OwnersBusiness ==
  {[call |-> "swapOwner", prev |-> 2, old |-> 3, new |-> 5],
   [call |-> "removeOwner", prev |-> 4, owner |-> 2, threshold |-> 1],
   [call |-> "addOwnerWithThreshold", owner |-> 3, threshold |-> 3]}

FirstRole == <<admin, 5>>

\* What can become of the role that is there: every call that touches it or its
\* status, and the one that takes the registry's permission to write statuses away;
\* and of a token.
RegistriesBusiness ==
  {[call |-> "grantRoleWithExpiry", key |-> FirstRole, expiry |-> 2],
   [call |-> "revokeRoleEarly", key |-> FirstRole],
   [call |-> "setStatus", status |-> FirstRole, revoked |-> TRUE],
   [call |-> "setStatus", status |-> FirstRole, revoked |-> FALSE],
   [call |-> "setWriterAuthorization", writer |-> 9, authorized |-> FALSE],
   [call |-> "mintAsset", to |-> 5],
   [call |-> "transferAsset", from |-> 5, to |-> 2, token |-> 0]}

AllCalls == Routed \cup OwnersBusiness \cup RegistriesBusiness

EvmSymmetry == Permutations(Request) \cup Permutations(Voting)

VARIABLE topic

EvmInit ==
  /\ BackendInit /\ RecoveryInit
  /\ topic \in {"requests", "registries", "recovery"}
  /\ (topic = "registries" => ~localMode) /\ (topic = "recovery" => localMode)

\* Among the calls that the service holds are no others than these.  While requests
\* are the topic it is citizen 2 who gives a role up, otherwise the first admin.
Holding(calls) == service' \subseteq calls \X Nonce

EvmNext ==
  /\ \/ topic = "requests" /\ BackendNext /\ Holding(Routed \cup OwnersBusiness)
        /\ FirstRole \notin renounced' /\ UNCHANGED recoveryVars
     \/ topic = "registries" /\ BackendNext /\ Holding(RegistriesBusiness)
        /\ UNCHANGED <<requests, recoveryVars>>
     \/ topic = "recovery" /\ RecoveryNext /\ UNCHANGED allVars
  /\ UNCHANGED topic

EvmSpec == EvmInit /\ [][EvmNext]_<<allVars, recoveryVars, topic>>
=============================================================================
